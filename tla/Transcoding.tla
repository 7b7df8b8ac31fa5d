---------------------------- MODULE Transcoding ----------------------------
(***************************************************************************)
(* src/unicode_transcoding.cpp, as to_ascii() and to_unicode() use it: the *)
(* result is counted first, a buffer of that size is written, and what the *)
(* conversion answers is compared with the count.  What the one accepts is *)
(* then given to the other.                                                *)
(***************************************************************************)
EXTENDS Integers, Sequences, FiniteSets

CONSTANTS
  Octets, CodePoints,   \* the strings of octets and of code points to convert
  Block8, Block32       \* how many ASCII units are copied at once: 16 and 2

ASSUME TextsAssumption ==
  /\ Octets \subseteq Seq(0 .. 255) /\ CodePoints \subseteq Seq(Nat)
  /\ Block8 \in Nat \ {0} /\ Block32 \in Nat \ {0}

VARIABLES
  pc,       \* "idle", "decode", "decoded", "encode" or "encoded"
  input, pos,
  out,      \* what was written through the output pointer
  room,     \* the size of the buffer behind it
  answer,   \* what the conversion returned
  origin    \* history: what input was converted from, if it was

vars == <<pc, input, pos, out, room, answer, origin>>

Init ==
  /\ pc = "idle" /\ input = <<>> /\ pos = 0 /\ out = <<>> /\ room = 0
  /\ answer = 0 /\ origin = <<>>

Start(place, s, size, from) ==
  /\ pc' = place /\ input' = s /\ pos' = 0 /\ out' = <<>> /\ room' = size
  /\ answer' = 0 /\ origin' = from

Advance(units, written) ==
  /\ pos' = pos + units /\ out' = out \o written
  /\ UNCHANGED <<pc, input, room, answer, origin>>

Return(place, n) == pc' = place /\ answer' = n /\ UNCHANGED <<input, pos, out, room, origin>>

\* The next n units.
Ahead(n) == SubSeq(input, pos + 1, pos + n)
AsciiAhead(n) == pos + n <= Len(input) /\ \A k \in 1 .. n : input[pos + k] < 128

-----------------------------------------------------------------------------
(* UTF-8 to UTF-32.                                                        *)

\* Mutant: the octet is compared with 0.
Positive(o) == o < 128

\* c > -65: every octet but a continuation is counted.
Begins(o) == o \notin 128 .. 191

utf32_length_from_utf8(s) == Cardinality({k \in 1 .. Len(s) : Begins(s[k])})

\* How many octets there are in a code point that begins with this one.
Form(o) ==
  CASE o \in 0 .. 127 -> 1 [] o \in 192 .. 223 -> 2 [] o \in 224 .. 239 -> 3
    [] o \in 240 .. 247 -> 4 [] OTHER -> 0

\* Six bits more.
Joined(c, o) == 64 * c + (o % 64)

CodePoint(s) ==
  CASE Len(s) = 1 -> s[1]
    [] Len(s) = 2 -> Joined(s[1] % 32, s[2])
    [] Len(s) = 3 -> Joined(Joined(s[1] % 16, s[2]), s[3])
    [] Len(s) = 4 -> Joined(Joined(Joined(s[1] % 8, s[2]), s[3]), s[4])

Within(c, first, last) == first <= c /\ c <= last

IsSurrogate(c) == Within(c, 55296, 57343)

\* Mutant: surrogates pass.
WithSurrogates(c, w) ==
  \/ w = 1
  \/ w = 2 /\ Within(c, 128, 2047)
  \/ w = 3 /\ Within(c, 2048, 65535)
  \/ w = 4 /\ Within(c, 65536, 1114111)

\* Mutant: a code point of one octet may be written with two.
Overlong(c, w) ==
  \/ w \in 1 .. 2
  \/ w = 3 /\ Within(c, 2048, 65535) /\ ~IsSurrogate(c)
  \/ w = 4 /\ Within(c, 65536, 1114111)

InForm(c, w) ==
  \/ w = 1
  \/ w = 2 /\ Within(c, 128, 2047)
  \/ w = 3 /\ Within(c, 2048, 65535) /\ ~IsSurrogate(c)
  \/ w = 4 /\ Within(c, 65536, 1114111)

\* A whole code point of w octets comes next.
WholeAhead(w) ==
  /\ w > 0 /\ pos + w <= Len(input)
  /\ \A k \in 2 .. w : ~Begins(input[pos + k])
  /\ InForm(CodePoint(Ahead(w)), w)

\* A text that has no octet to begin with is not converted.
Decode(s, from) ==
  LET size == utf32_length_from_utf8(s)
  IN  Start(IF size = 0 THEN "decoded" ELSE "decode", s, size, from)

DecodeAscii == pc = "decode" /\ AsciiAhead(Block8) /\ Advance(Block8, Ahead(Block8))

DecodeOne ==
  /\ pc = "decode" /\ pos < Len(input) /\ ~AsciiAhead(Block8)
  /\ LET w == Form(input[pos + 1])
     IN  IF WholeAhead(w) THEN Advance(w, <<CodePoint(Ahead(w))>>)
                          ELSE Return("decoded", 0)

EndDecode == pc = "decode" /\ pos = Len(input) /\ Return("decoded", Len(out))

-----------------------------------------------------------------------------
(* UTF-32 to UTF-8.                                                        *)

Above(s, limit) == Cardinality({k \in 1 .. Len(s) : s[k] > limit})

utf8_length_from_utf32(s) == Len(s) + Above(s, 127) + Above(s, 2047) + Above(s, 65535)

IsScalar(c) == c <= 1114111 /\ ~IsSurrogate(c)

SixBits(c, n) == 128 + ((c \div n) % 64)

Utf8(c) ==
  IF c < 128 THEN <<c>>
  ELSE IF c < 2048 THEN <<192 + (c \div 64), SixBits(c, 1)>>
  ELSE IF c < 65536 THEN <<224 + (c \div 4096), SixBits(c, 64), SixBits(c, 1)>>
  ELSE <<240 + (c \div 262144), SixBits(c, 4096), SixBits(c, 64), SixBits(c, 1)>>

Encode(s, from) == Start("encode", s, utf8_length_from_utf32(s), from)

EncodeAscii == pc = "encode" /\ AsciiAhead(Block32) /\ Advance(Block32, Ahead(Block32))

EncodeOne ==
  /\ pc = "encode" /\ pos < Len(input) /\ ~AsciiAhead(Block32)
  /\ LET c == input[pos + 1]
     IN  IF IsScalar(c) THEN Advance(1, Utf8(c)) ELSE Return("encoded", 0)

EndEncode == pc = "encode" /\ pos = Len(input) /\ Return("encoded", Len(out))

-----------------------------------------------------------------------------
\* What the callers make of the answer.
Accepted == answer = room /\ (pc = "decoded" => answer # 0)

Call == pc = "idle" /\ \/ \E s \in Octets : Decode(s, <<>>)
                       \/ \E s \in CodePoints : Encode(s, <<>>)

Back ==
  /\ Accepted /\ origin = <<>>
  /\ \/ pc = "decoded" /\ Encode(out, input)
     \/ pc = "encoded" /\ Decode(out, input)

Step == DecodeAscii \/ DecodeOne \/ EndDecode \/ EncodeAscii \/ EncodeOne \/ EndEncode

Next == Call \/ Step \/ Back

Spec == Init /\ [][Next]_vars

-----------------------------------------------------------------------------
\* Types; what comes out of a text, well-formed or not, is a scalar value of Unicode.
TypeOK ==
  /\ pc \in {"idle", "decode", "decoded", "encode", "encoded"}
  /\ input \in Seq(Nat) /\ pos \in 0 .. Len(input) /\ out \in Seq(Nat)
  /\ room \in Nat /\ answer \in Nat /\ origin \in Seq(Nat)
  /\ pc = "decode" => \A k \in DOMAIN out : IsScalar(out[k])

\* No conversion writes past the buffer, and none that will be found malformed
\* does before that is found out.
WritesFit == Len(out) <= room

\* The syntax of UTF-8 (RFC 3629, section 4), as ranges for each octet.
Syntax ==
  LET tail == 128 .. 191
  IN  {<<0 .. 127>>, <<194 .. 223, tail>>,
       <<{224}, 160 .. 191, tail>>, <<225 .. 236 \cup 238 .. 239, tail, tail>>,
       <<{237}, 128 .. 159, tail>>, <<{240}, 144 .. 191, tail, tail>>,
       <<241 .. 243, tail, tail, tail>>, <<{244}, 128 .. 143, tail, tail>>}

\* Every cut but the last has one of these ranges ahead, and the next cut behind it.
Cuts(s, cuts) ==
  /\ 0 \in cuts
  /\ \A p \in cuts \ {Len(s)} :
       \E u \in Syntax :
         /\ p + Len(u) \in cuts
         /\ \A k \in DOMAIN u : s[p + k] \in u[k]

WellFormed(s) == \E cuts \in SUBSET (0 .. Len(s)) : Cuts(s, cuts)

\* Exactly the well-formed texts are accepted, although the code knows ranges of
\* code points only and none of octets; and exactly the strings of code points that
\* have a form in UTF-8.  What one conversion accepts the other gives back.
AcceptsUtf8 ==
  /\ pc = "decoded" => (Accepted <=> input # <<>> /\ WellFormed(input))
  /\ pc = "encoded" => (Accepted <=> \A k \in DOMAIN input : IsScalar(input[k]))
  /\ pc \in {"decoded", "encoded"} /\ origin # <<>> => out = origin
=============================================================================
