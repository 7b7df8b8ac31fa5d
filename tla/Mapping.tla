------------------------------ MODULE Mapping ------------------------------
(***************************************************************************)
(* src/mapping.cpp: map(), which counts in a first pass over its input     *)
(* what it writes in a second, and ascii_map(), which works on words.      *)
(***************************************************************************)
EXTENDS Integers, Sequences, SequencesExt

CONSTANTS
  IDNA_BLOCK_SIZE, IDNA_LOW_RANGE_END,
  IDNA_VALID, IDNA_DISALLOWED, IDNA_IGNORED, IDNA_BOOL_FLAG,
  IDNA_HIGH_IGNORED_START, IDNA_HIGH_IGNORED_END,
  idna_stage1, idna_stage2, idna_bool_blocks, idna_utf8_mappings,   \* the tables
  Lanes,                \* octets in a word: 8
  Valid, MapsTo         \* not code: what the tables say, see MappingTables

VARIABLES
  pc,        \* "idle", "count", "write", "copy", "mapped", or "words", "lowered"
  input, pos,
  out, out_size,
  ptr,       \* where in the mappings the code point written next begins
  granted,   \* did ensure_tables() answer true?
  ok

vars == <<pc, input, pos, out, out_size, ptr, granted, ok>>

Init ==
  /\ pc = "idle" /\ input = <<>> /\ pos = 0 /\ out = <<>> /\ out_size = 0
  /\ ptr = 0 /\ granted = FALSE /\ ok = FALSE

-----------------------------------------------------------------------------
\* Above the table there is one range of ignored code points.
AboveTable(c) ==
  IF c >= IDNA_HIGH_IGNORED_START /\ c < IDNA_HIGH_IGNORED_END
  THEN IDNA_IGNORED ELSE IDNA_DISALLOWED

idna_lookup(c) ==
  IF c >= IDNA_LOW_RANGE_END THEN AboveTable(c)
  ELSE LET ref   == idna_stage1[c \div IDNA_BLOCK_SIZE]
           place == c % IDNA_BLOCK_SIZE
       IN  IF ref < IDNA_BOOL_FLAG THEN idna_stage2[ref + place]
           ELSE IF (ref - IDNA_BOOL_FLAG) * IDNA_BLOCK_SIZE + place \in idna_bool_blocks
                THEN IDNA_VALID ELSE IDNA_DISALLOWED

Octet(at) == idna_utf8_mappings[at + 1]

\* How many octets the code point has that begins with this one.
Width(o) == IF o < 128 THEN 1 ELSE IF o < 224 THEN 2 ELSE IF o < 240 THEN 3 ELSE 4

\* utf8_next(), which does the same with its own comparisons.
CodePointAt(at) ==
  LET o == Octet(at)
      Bits(k) == Octet(at + k) % 64
  IN  CASE o < 128 -> o
        [] o \in 128 .. 223 -> 64 * (o % 32) + Bits(1)
        [] o \in 224 .. 239 -> 4096 * (o % 16) + 64 * Bits(1) + Bits(2)
        [] OTHER -> 262144 * (o % 8) + 4096 * Bits(1) + 64 * Bits(2) + Bits(3)

\* Mutant: a code point has three octets at most.
UpToThree(at) ==
  LET o == Octet(at) IN IF o < 128 THEN 1 ELSE IF o < 224 THEN 2 ELSE 3

WidthAt(at) ==
  LET o == Octet(at) IN IF o < 128 THEN 1 ELSE IF o < 224 THEN 2 ELSE IF o < 240 THEN 3 ELSE 4

\* The places in the mappings where a code point begins, or the zero is.
Begins == {at \in 0 .. Len(idna_utf8_mappings) - 1 : Octet(at) \notin 128 .. 191}

\* The code points up to the zero.
count[at \in Begins] == IF Octet(at) = 0 THEN 0 ELSE 1 + count[at + Width(Octet(at))]

utf8_count_codepoints(start) == count[start]

-----------------------------------------------------------------------------
Start(place, s) ==
  /\ pc = "idle" /\ pc' = place /\ input' = s /\ UNCHANGED <<pos, out_size, ptr, ok>>

Map(s) == Start("count", s) /\ granted' = TRUE /\ out' = <<>>
Refuse(s) == Start("mapped", s) /\ granted' = FALSE /\ out' = <<>>

Return(f) == pc' = "mapped" /\ ok' = f /\ UNCHANGED <<input, pos, out, out_size, ptr, granted>>

Status == idna_lookup(input[pos + 1])

CountTurn ==
  /\ pc = "count" /\ pos < Len(input)
  /\ \/ /\ Status = IDNA_DISALLOWED \/ (Status # IDNA_VALID /\ Status >= Len(idna_utf8_mappings))
        /\ Return(FALSE)
     \/ /\ Status = IDNA_VALID \/ (Status # IDNA_DISALLOWED /\ Status < Len(idna_utf8_mappings))
        /\ out_size' = out_size + IF Status = IDNA_VALID THEN 1 ELSE utf8_count_codepoints(Status)
        /\ pos' = pos + 1
        /\ UNCHANGED <<pc, input, out, ptr, granted, ok>>

EndCount ==
  /\ pc = "count" /\ pos = Len(input)
  /\ pc' = "write" /\ pos' = 0
  /\ UNCHANGED <<input, out, out_size, ptr, granted, ok>>

WriteTurn ==
  /\ pc = "write" /\ pos < Len(input)
  /\ IF Status = IDNA_VALID
     THEN out' = Append(out, input[pos + 1]) /\ pos' = pos + 1 /\ UNCHANGED <<pc, ptr>>
     ELSE pc' = "copy" /\ ptr' = Status /\ UNCHANGED <<out, pos>>
  /\ UNCHANGED <<input, out_size, granted, ok>>

CopyCodePoint ==
  /\ pc = "copy" /\ Octet(ptr) # 0
  /\ out' = Append(out, CodePointAt(ptr)) /\ ptr' = ptr + WidthAt(ptr)
  /\ UNCHANGED <<pc, input, pos, out_size, granted, ok>>

EndCopy ==
  /\ pc = "copy" /\ Octet(ptr) = 0
  /\ pc' = "write" /\ pos' = pos + 1
  /\ UNCHANGED <<input, out, out_size, ptr, granted, ok>>

EndWrite == pc = "write" /\ pos = Len(input) /\ Return(TRUE)

-----------------------------------------------------------------------------
(* ascii_map(): the place of a lane in a word is its weight.               *)

Weight(k) == 256^k
Lane(word, k) == (word \div Weight(k)) % 256
Broadcast(v) == FoldLeftDomain(LAMBDA sum, k : sum + v * Weight(k - 1), 0, [k \in 1 .. Lanes |-> 0])
Word(s) == FoldLeftDomain(LAMBDA sum, k : sum + s[k] * Weight(k - 1), 0, s)

HighBit(word, k) == Lane(word, k) >= 128

\* Mutant: the letter Z stays.
UpToY == 128 - 90

PastZ == 128 - 90 - 1

\* The bit by which capital and small letters differ is turned where only the first
\* sum has the high bit of its lane.
Lowered(word) ==
  LET a == (word + Broadcast(128 - 65)) % Weight(Lanes)
      z == (word + Broadcast(PastZ)) % Weight(Lanes)
      Turn(o) == IF (o \div 32) % 2 = 1 THEN o - 32 ELSE o + 32
  IN  [k \in 1 .. Lanes |->
         LET o == Lane(word, k - 1)
         IN  IF HighBit(a, k - 1) # HighBit(z, k - 1) THEN Turn(o) ELSE o]

AsciiMap(s) == Start("words", s) /\ out' = s /\ UNCHANGED granted

\* The last word may be short; the lanes it lacks are zero.
WordTurn ==
  /\ pc = "words" /\ pos < Len(input)
  /\ LET n == IF pos + Lanes <= Len(input) THEN Lanes ELSE Len(input) - pos
         word == Lowered(Word(SubSeq(out, pos + 1, pos + n)))
     IN  /\ out' = [k \in DOMAIN out |-> IF k - pos \in 1 .. n THEN word[k - pos] ELSE out[k]]
         /\ pos' = pos + n
  /\ UNCHANGED <<pc, input, out_size, ptr, granted, ok>>

EndWords ==
  /\ pc = "words" /\ pos = Len(input) /\ pc' = "lowered"
  /\ UNCHANGED <<input, pos, out, out_size, ptr, granted, ok>>

Step ==
  \/ CountTurn \/ EndCount \/ WriteTurn \/ CopyCodePoint \/ EndCopy \/ EndWrite
  \/ WordTurn \/ EndWords

-----------------------------------------------------------------------------
\* The second pass writes what the first has counted: never more, so that no write
\* goes past the buffer, and in the end not less; and it stays among the mappings.
PassesAgree ==
  /\ pc \in {"write", "copy"} => Len(out) <= out_size
  /\ pc = "mapped" /\ ok => Len(out) = out_size
  /\ pc = "copy" => ptr \in 0 .. Len(idna_utf8_mappings) - 1

\* What the two levels, the bits, the offsets and the octets amount to: nothing is
\* left of a refused string, and an accepted one is mapped code point by code point.
\* ascii_map() gives the same, as adding to all the lanes of a word at once carries
\* nothing from one to the next.
Allowed(c) ==
  \/ c \in Valid \/ c \in DOMAIN MapsTo
  \/ c \in IDNA_HIGH_IGNORED_START .. IDNA_HIGH_IGNORED_END - 1

Mapped(s) ==
  FlattenSeq([k \in DOMAIN s |->
    IF s[k] \in Valid THEN <<s[k]>> ELSE IF s[k] \in DOMAIN MapsTo THEN MapsTo[s[k]] ELSE <<>>])

MapsAsTable ==
  /\ pc = "mapped" =>
       IF granted /\ \A k \in DOMAIN input : Allowed(input[k])
       THEN ok /\ out = Mapped(input)
       ELSE ~ok /\ out = <<>>
  /\ pc = "lowered" => out = Mapped(input)
=============================================================================
