------------------------------ MODULE Validity ------------------------------
(***************************************************************************)
(* is_label_valid() of src/validity.cpp, called for the labels of a domain *)
(* one after the other, as to_ascii() and to_unicode() call it.  A code    *)
(* point is what the tables say of it: constants.                          *)
(***************************************************************************)
EXTENDS Integers, Sequences, SequencesExt

CONSTANTS
  Zwnj, Zwj,    \* U+200C and U+200D
  Combining,    \* the code points in combining_ranges
  Virama,       \* those of combining class 9
  Joining,      \* code point -> its joining type, "U", "C", "D", "L", "R" or "T"
  Direction,    \* code point -> its Bidi class
  Inputs,       \* the labels the function is called with
  MaxLabels     \* bound: labels of a domain

ASSUME LabelAssumption ==
  /\ MaxLabels \in Nat /\ Zwnj # Zwj
  /\ Inputs \subseteq Seq(DOMAIN Direction)

VARIABLES
  pc,        \* "idle", "joiners", "bidi", "rtl" or "done"
  label,     \* the argument
  i,         \* the index of the loop that runs
  has_an, has_en,   \* the locals of those names
  granted,   \* what ensure_tables() answered
  ok,        \* the answer, once pc = "done"
  accepted   \* history: the labels of the domain that were found valid

vars == <<pc, label, i, has_an, has_en, granted, ok, accepted>>

Init ==
  /\ pc = "idle" /\ label = <<>> /\ i = 1 /\ has_an = FALSE /\ has_en = FALSE
  /\ granted = FALSE /\ ok = FALSE /\ accepted = <<>>

Return(s, answer) ==
  /\ pc' = "done"
  /\ ok' = answer
  /\ accepted' = IF answer THEN Append(accepted, s) ELSE accepted

Continue(place) == pc' = place /\ UNCHANGED <<ok, accepted>>

\* The first label, or the next one of a domain in which all were valid so far.
\* One that begins with a combining mark is not.
Call(s) ==
  /\ pc = "idle" \/ (pc = "done" /\ ok)
  /\ Len(accepted) < MaxLabels
  /\ label' = s
  /\ i' = 1 /\ has_an' = FALSE /\ has_en' = FALSE
  /\ \/ s = <<>> /\ Return(s, TRUE) /\ UNCHANGED granted
     \/ s # <<>> /\ granted' = FALSE /\ Return(s, FALSE)
     \/ /\ s # <<>> /\ granted' = TRUE
        /\ IF Head(s) \in Combining THEN Return(s, FALSE) ELSE Continue("joiners")

-----------------------------------------------------------------------------
(* is_contextj_valid(): one joiner after the other.                        *)

JoinerAt(j) == label[j] \in {Zwnj, Zwj}

AfterVirama(j) == j > 1 /\ label[j - 1] \in Virama

\* The type of the nearest code point that is not transparent; "T" if all are,
\* "U" if there is none.
JoiningBefore(j) ==
  LET p == SelectLastInSubSeq(label, 1, j - 1, LAMBDA c : Joining[c] # "T")
  IN  IF p # 0 THEN Joining[label[p]] ELSE IF j = 1 THEN "U" ELSE "T"

JoiningAfter(j) ==
  LET p == SelectInSubSeq(label, j + 1, Len(label), LAMBDA c : Joining[c] # "T")
  IN  IF p # 0 THEN Joining[label[p]] ELSE IF j = Len(label) THEN "U" ELSE "T"

JoinsBothSides(j) == JoiningBefore(j) \in {"L", "D"} /\ JoiningAfter(j) \in {"R", "D"}

\* Mutant: a virama before one joiner settles all those after it.
RestOfLabel == Len(label) + 1

NextInLabel == i + 1

Joiner ==
  /\ pc = "joiners" /\ i <= Len(label)
  /\ IF ~JoinerAt(i)
     THEN i' = i + 1 /\ Continue(pc)
     ELSE IF AfterVirama(i) THEN i' = NextInLabel /\ Continue(pc)
     ELSE IF label[i] = Zwnj /\ JoinsBothSides(i) THEN i' = i + 1 /\ Continue(pc)
     ELSE UNCHANGED i /\ Return(label, FALSE)
  /\ UNCHANGED <<label, has_an, has_en, granted>>

EndJoiners ==
  /\ pc = "joiners" /\ i > Len(label)
  /\ Continue("bidi")
  /\ UNCHANGED <<label, i, has_an, has_en, granted>>

-----------------------------------------------------------------------------
(* The Bidi rule, for a label that has a code point of class R, AL or AN.  *)

\* Mutant: a mark inside a label is forgotten.
NoMarks == {"ES", "CS", "ET", "ON", "BN"}

Neutral == {"ES", "CS", "ET", "ON", "BN", "NSM"}
InLtr   == Neutral \cup {"L", "EN"}
InRtl   == Neutral \cup {"R", "AL", "AN", "EN"}

find_last_not_of_nsm == SelectLastInSeq(label, LAMBDA c : Direction[c] # "NSM")

is_rtl_label(s) == \E j \in DOMAIN s : Direction[s[j]] \in {"R", "AL", "AN"}

\* No RTL label that begins with L passes, since it has a code point that is not
\* allowed in an LTR label.
EvalLtr ==
  /\ \A j \in 1 .. find_last_not_of_nsm : Direction[label[j]] \in InLtr
  /\ Direction[label[find_last_not_of_nsm]] \in {"L", "EN"}

Bidi ==
  /\ pc = "bidi"
  /\ LET first == Direction[label[1]]
     IN  IF find_last_not_of_nsm = 0 THEN Return(label, FALSE) /\ UNCHANGED i
         ELSE IF ~is_rtl_label(label) THEN Return(label, TRUE) /\ UNCHANGED i
         ELSE IF first = "L" THEN Return(label, EvalLtr) /\ UNCHANGED i
         ELSE IF first \notin {"R", "AL"} THEN Return(label, FALSE) /\ UNCHANGED i
         ELSE Continue("rtl") /\ i' = 1
  /\ UNCHANGED <<label, has_an, has_en, granted>>

\* Mutant: has_an says what this code point is, not what has been seen.
AnHere(d) == d = "AN"

SeenAn(d) == has_an \/ d = "AN"
SeenEn(d) == has_en \/ d = "EN"

RtlTurn ==
  /\ pc = "rtl" /\ i <= find_last_not_of_nsm
  /\ LET d     == Direction[label[i]]
         mixed == (d = "EN" /\ has_an) \/ (d = "AN" /\ has_en)
         ends  == i = find_last_not_of_nsm => d \in {"R", "AL", "AN", "EN"}
     IN  /\ has_an' = SeenAn(d) /\ has_en' = SeenEn(d)
         /\ IF ~mixed /\ d \in InRtl /\ ends THEN i' = i + 1 /\ Continue(pc)
                                             ELSE UNCHANGED i /\ Return(label, FALSE)
  /\ UNCHANGED <<label, granted>>

EndRtl ==
  /\ pc = "rtl" /\ i > find_last_not_of_nsm
  /\ Return(label, TRUE)
  /\ UNCHANGED <<label, i, has_an, has_en, granted>>

Step == Joiner \/ EndJoiners \/ Bidi \/ RtlTurn \/ EndRtl

Next == (\E s \in Inputs : Call(s)) \/ Step

Spec == Init /\ [][Next]_vars

-----------------------------------------------------------------------------
(* The rules, as RFC 5892 and RFC 5893 put them.                           *)

\* Appendix A.1 and A.2, for the joiner at j of s.
ContextJ(s, j) ==
  \/ j > 1 /\ s[j - 1] \in Virama
  \/ /\ s[j] = Zwnj
     /\ \E a \in 1 .. j - 1, b \in j + 1 .. Len(s) :
          /\ Joining[s[a]] \in {"L", "D"} /\ Joining[s[b]] \in {"R", "D"}
          /\ \A m \in (a + 1 .. b - 1) \ {j} : Joining[s[m]] = "T"

JoinersInContext(s) == \A j \in DOMAIN s : s[j] \in {Zwnj, Zwj} => ContextJ(s, j)

\* The six conditions of section 2.
BidiRule(s) ==
  LET Class(j) == Direction[s[j]]
      Has(d)   == \E j \in DOMAIN s : Class(j) = d
      EndsIn(D) == \E j \in DOMAIN s :
                     Class(j) \in D /\ \A m \in j + 1 .. Len(s) : Class(m) = "NSM"
  IN  /\ Class(1) \in {"L", "R", "AL"}
      /\ Class(1) \in {"R", "AL"} =>
           /\ \A j \in DOMAIN s :
                Class(j) \in {"R", "AL", "AN", "EN", "ES", "CS", "ET", "ON", "BN", "NSM"}
           /\ EndsIn({"R", "AL", "EN", "AN"})
           /\ ~(Has("EN") /\ Has("AN"))
      /\ Class(1) = "L" =>
           /\ \A j \in DOMAIN s :
                Class(j) \in {"L", "EN", "ES", "CS", "ET", "ON", "BN", "NSM"}
           /\ EndsIn({"L", "EN"})

\* Every joiner of a valid label has a context of its own, whatever settled the
\* joiners before it.
EveryJoinerInContext == \A n \in DOMAIN accepted : JoinersInContext(accepted[n])

\* A valid label with a code point of class R, AL or AN keeps all six conditions,
\* in whatever order its digits come.
RtlLabelsKeepRule ==
  \A n \in DOMAIN accepted : is_rtl_label(accepted[n]) => BidiRule(accepted[n])

\* Nothing else is rejected: given the tables, a label is found invalid only for a
\* combining mark in front, a joiner out of context, or a condition of the Bidi
\* rule (a label of nothing but NSM, which ends in none of its classes).
RejectsOnlyByRule ==
  pc = "done" /\ ~ok /\ granted =>
    \/ Head(label) \in Combining
    \/ ~JoinersInContext(label)
    \/ ~BidiRule(label)

\* "If the domain name is a Bidi domain name, then the label must satisfy all six":
\* one "that contains at least one RTL label" (src/validity.cpp:197-199, 232-234).
BidiDomainRule ==
  (\E n \in DOMAIN accepted : is_rtl_label(accepted[n])) =>
    \A n \in DOMAIN accepted : accepted[n] # <<>> => BidiRule(accepted[n])
=============================================================================
