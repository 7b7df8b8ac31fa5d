------------------------------- MODULE Domain -------------------------------
(***************************************************************************)
(* What to_ascii() and to_unicode() share: the strings they work on, the   *)
(* functions they call, and the table store behind those functions.        *)
(*                                                                         *)
(* A string is a sequence of symbols.  A symbol stands for one code point, *)
(* for the four of "xn--", for a run of punycode digits, or for bytes that *)
(* are not UTF-8.  What a called function computes is a constant here; it  *)
(* has, or is to have, a module of its own.                                *)
(***************************************************************************)
EXTENDS Integers, Sequences, SequencesExt

CONSTANTS
  Threads, Caller,   \* the threads of the process, and the one of the calls
  Dot, Ace,          \* '.' and "xn--"
  Ascii(_),          \* is the symbol ASCII?
  Lower(_),          \* the ASCII symbol in lower case
  WellFormed(_),     \* is the symbol UTF-8?
  Bytes(_),          \* its length in bytes
  MaxBytes,          \* max_domain_input_bytes
  Disallowed(_),     \* does the mapping table forbid the symbol?
  MapsTo(_),         \* the string it puts in its place
  Nfc(_),            \* the normalised string
  Valid(_),          \* is_label_valid(), of a string that is not empty
  Undecodable,       \* punycode_to_utf32()'s failure
  Decode(_),         \* ... and what it decodes
  Unencodable,       \* utf32_to_punycode()'s failure
  Encode(_)          \* ... and what it encodes

ASSUME DomainAssumption ==
  /\ Caller \in Threads
  /\ MaxBytes \in Nat
  /\ Ascii(Dot) /\ Ascii(Ace) /\ Dot # Ace
  /\ Decode(<<>>) = <<>>

VARIABLES phase, intact, answer

Tables == INSTANCE TablesPromise

tableVars == <<phase, intact, answer>>

Decide == Tables!Decide(Caller)

\* Mutants: the answer of ensure_tables() is not looked at, and it may be "false"
\* to a thread that was already told "true".
GrantedAnyhow == Decide \/ Tables!Grant(Caller) \/ Tables!Refuse(Caller)
RefusedAgain ==
  /\ answer' = [answer EXCEPT ![Caller] = "false"]
  /\ UNCHANGED <<phase, intact>>

\* One call of ensure_tables() by the caller, and what it answers.
Granted == (intact /\ Decide) \/ Tables!Grant(Caller)
Refused == (~intact /\ Decide) \/ Tables!Refuse(Caller)

\* What the other threads of the process do to the tables in the meantime.
OtherThreads ==
  \E t \in Threads \ {Caller} :
    Tables!Decide(t) \/ Tables!Grant(t) \/ Tables!Refuse(t)

is_ascii(s) == \A j \in DOMAIN s : Ascii(s[j])

TooLong(s) == FoldLeft(LAMBDA sum, c : sum + Bytes(c), 0, s) > MaxBytes

from_ascii_to_ascii(s) == [j \in DOMAIN s |-> Lower(s[j])]

\* map() with the tables at hand: refused, or the concatenation of the parts.
Mappable(s) == \A j \in DOMAIN s : ~Disallowed(s[j])
map(s) == FlattenSeq([j \in DOMAIN s |-> MapsTo(s[j])])

\* The scan for the next label of what is left to scan, and what it leaves.
LabelEnd(s) ==
  IF Contains(s, Dot) THEN SelectInSeq(s, LAMBDA c : c = Dot) - 1 ELSE Len(s)
NextLabel(s) == SubSeq(s, 1, LabelEnd(s))
AfterLabel(s) == SubSeq(s, LabelEnd(s) + 2, Len(s))

\* Mutant: a dot at the end is lost.
DotBetween(s) == IF AfterLabel(s) # <<>> THEN <<Dot>> ELSE <<>>

DotAfter(s) == IF Contains(s, Dot) THEN <<Dot>> ELSE <<>>

is_ace_prefix(label) == label # <<>> /\ Head(label) = Ace

\* An ASCII label that begins with "xn--" and has something to decode.
Encoded(label) == is_ascii(label) /\ is_ace_prefix(label)
Decoded(label) == Decode(Tail(label))
Decodes(label) == Decoded(label) # Undecodable /\ ~is_ascii(Decoded(label))

MappedToItself(d) == Mappable(d) /\ map(d) = d
Normal(d) == Nfc(d) = d

\* Mutant: a decoded label need not be as map() would leave it.
NormalOnly(d) == Mappable(d) /\ Normal(d)

\* Neither mapping nor normalising changes it.
Stable(d) == MappedToItself(d) /\ Normal(d)

\* Is the ACE label the encoding of a label that may be encoded?
Accepted(label) ==
  Decodes(label) /\ Stable(Decoded(label)) /\ Valid(Decoded(label))

-----------------------------------------------------------------------------
(* Not code: strings, their dots and the labels between them, for the      *)
(* properties.                                                             *)
IsString(s) == s \in Seq(ToSet(s))

Dots(s) == Cardinality({j \in DOMAIN s : s[j] = Dot})

\* Where the label with n dots before it may begin, and where it then ends: an end
\* of s or a dot on either side, and none inside.
LabelBegins(s, n) ==
  {j \in 1 .. Len(s) + 1 : (j = 1 \/ s[j - 1] = Dot) /\ Dots(SubSeq(s, 1, j - 1)) = n}
LabelEnds(s, j) ==
  {k \in j - 1 .. Len(s) : (k = Len(s) \/ s[k + 1] = Dot) /\ \A i \in j .. k : s[i] # Dot}

LabelsAt(s, n) == UNION {{SubSeq(s, j, k) : k \in LabelEnds(s, j)} : j \in LabelBegins(s, n)}
=============================================================================
