--------------------------- MODULE ValidityProofs ---------------------------
(***************************************************************************)
(* Proofs about is_label_valid(): for tables of any content and labels of  *)
(* any length, it accepts a right-to-left label only by the rules of RFC   *)
(* 5892 and RFC 5893, and rejects no label but by them.                    *)
(***************************************************************************)
EXTENDS Validity, TLAPS, SequenceTheorems, WellFoundedInduction

\* What the rules say of a label that is accepted.
Valid(s) ==
  /\ JoinersInContext(s)
  /\ is_rtl_label(s) => BidiRule(s)

\* The loop over a right-to-left label has seen the first i - 1 code points.
RtlSoFar ==
  /\ find_last_not_of_nsm \in 1 .. Len(label)
  /\ Direction[label[1]] \in {"R", "AL"}
  /\ i \in 1 .. find_last_not_of_nsm + 1
  /\ \A j \in 1 .. i - 1 : Direction[label[j]] \in InRtl
  /\ has_an <=> \E j \in 1 .. i - 1 : Direction[label[j]] = "AN"
  /\ has_en <=> \E j \in 1 .. i - 1 : Direction[label[j]] = "EN"
  /\ ~(has_an /\ has_en)
  /\ i > find_last_not_of_nsm =>
       Direction[label[find_last_not_of_nsm]] \in {"R", "AL", "AN", "EN"}

IInv ==
  /\ label \in Seq(DOMAIN Direction)
  /\ accepted \in Seq(Seq(DOMAIN Direction))
  /\ i \in Nat \ {0}
  /\ \A n \in DOMAIN accepted : Valid(accepted[n])
  /\ pc \in {"joiners", "bidi", "rtl"} => label # <<>>
  /\ pc = "joiners" =>
       \A j \in 1 .. Len(label) : j < i /\ JoinerAt(j) => ContextJ(label, j)
  /\ pc \in {"joiners", "bidi"} => ~has_an /\ ~has_en
  /\ pc \in {"bidi", "rtl"} => JoinersInContext(label)
  /\ pc = "rtl" => RtlSoFar
  /\ RejectsOnlyByRule

-----------------------------------------------------------------------------
(* The searches.                                                           *)
LEMMA LeastNatural ==
  ASSUME NEW S \in SUBSET Nat, S # {}
  PROVE  \E least \in S : \A c \in S : least <= c
  <1> DEFINE R == {ss \in Nat \X Nat : ss[1] < ss[2]}
  <1>1. IsWellFoundedOn(R, Nat)
    BY NatLessThanWellFounded DEF OpToRel
  <1>2. PICK least \in S : \A c \in S : ~(<<c, least>> \in R)
    <2> HIDE DEF R
    <2> QED
      BY <1>1, WFMin
  <1>3. ASSUME NEW c \in S
        PROVE  least <= c
    <2>1. least \in Nat /\ c \in Nat /\ ~(c < least)
      BY <1>2
    <2> QED
      BY <2>1
  <1> QED
    BY <1>3

LEMMA MinIsLeast ==
  ASSUME NEW S \in SUBSET Nat, S # {}
  PROVE  Min(S) \in S /\ \A c \in S : Min(S) <= c
  <1>1. \E least \in S : \A c \in S : least <= c
    BY LeastNatural
  <1> QED
    BY <1>1 DEF Min

LEMMA MaxIsGreatest ==
  ASSUME NEW top \in Nat, NEW S \in SUBSET (0 .. top), S # {}
  PROVE  Max(S) \in S /\ \A c \in S : Max(S) >= c
  <1> DEFINE below == {top - c : c \in S}
  <1>1. below \in SUBSET Nat /\ below # {}
    <2>1. \A c \in S : top - c \in Nat
      OBVIOUS
    <2>2. below \in SUBSET Nat
      BY <2>1
    <2>3. PICK c : c \in S
      OBVIOUS
    <2>4. top - c \in below
      BY <2>3
    <2> QED
      BY <2>2, <2>4
  <1>2. PICK least \in below : \A c \in below : least <= c
    <2> HIDE DEF below
    <2> QED
      BY <1>1, LeastNatural
  <1>3. PICK greatest \in S : least = top - greatest
    BY <1>2
  <1>4. ASSUME NEW c \in S
        PROVE  greatest >= c
    <2>1. top - greatest <= top - c
      BY <1>2, <1>3
    <2>2. greatest \in Nat /\ c \in Nat
      OBVIOUS
    <2> QED
      BY <2>1, <2>2
  <1> QED
    BY <1>4 DEF Max

\* The last code point that is no mark, and nothing but marks behind it.
LEMMA FindLast ==
  ASSUME label \in Seq(DOMAIN Direction)
  PROVE  /\ find_last_not_of_nsm \in 0 .. Len(label)
         /\ find_last_not_of_nsm # 0 => Direction[label[find_last_not_of_nsm]] # "NSM"
         /\ \A j \in 1 .. Len(label) :
              j > find_last_not_of_nsm => Direction[label[j]] = "NSM"
  <1> DEFINE S == {j \in 1 .. Len(label) : Direction[label[j]] # "NSM"}
  <1>1. find_last_not_of_nsm = IF S # {} THEN Max(S) ELSE 0
    BY DEF find_last_not_of_nsm, SelectLastInSeq
  <1>2. Len(label) \in Nat /\ S \in SUBSET (0 .. Len(label))
    OBVIOUS
  <1>3. CASE S # {}
    <2>1. Max(S) \in S /\ \A c \in S : Max(S) >= c
      <3> HIDE DEF S
      <3> QED
        BY <1>2, <1>3, MaxIsGreatest
    <2>2. ASSUME NEW j \in 1 .. Len(label), j > Max(S)
          PROVE  Direction[label[j]] = "NSM"
      BY <2>1, <2>2
    <2> QED
      BY <1>1, <1>3, <2>1, <2>2
  <1>4. CASE S = {}
    BY <1>1, <1>2, <1>4
  <1> QED
    BY <1>3, <1>4

\* Seen from j, code points of other types than a's are transparent.
NearestBefore(j, a) ==
  a \in 1 .. j - 1 /\ Joining[label[a]] # "T"
    /\ \A m \in a + 1 .. j - 1 : Joining[label[m]] = "T"

NearestAfter(j, b) ==
  b \in j + 1 .. Len(label) /\ Joining[label[b]] # "T"
    /\ \A m \in j + 1 .. b - 1 : Joining[label[m]] = "T"

LEMMA SearchBefore ==
  ASSUME label \in Seq(DOMAIN Direction), NEW j \in 1 .. Len(label)
  PROVE  /\ JoiningBefore(j) \notin {"U", "T"} =>
              \E a : NearestBefore(j, a) /\ Joining[label[a]] = JoiningBefore(j)
         /\ \A a : NearestBefore(j, a) => JoiningBefore(j) = Joining[label[a]]
  <1> DEFINE S == {m \in 1 .. j - 1 : Joining[label[m]] # "T"}
             p == IF S # {} THEN Max(S) ELSE 0
  <1>1. JoiningBefore(j) = IF p # 0 THEN Joining[label[p]] ELSE IF j = 1 THEN "U" ELSE "T"
    BY DEF JoiningBefore, SelectLastInSubSeq
  <1>2. j \in Nat /\ S \in SUBSET (0 .. j)
    OBVIOUS
  <1>3. CASE S # {}
    <2>1. Max(S) \in S /\ \A c \in S : Max(S) >= c
      <3> HIDE DEF S
      <3> QED
        BY <1>2, <1>3, MaxIsGreatest
    <2>2. p \in 1 .. j - 1 /\ p = Max(S) /\ Joining[label[p]] # "T"
      BY <1>3, <2>1
    <2>3. ASSUME NEW m \in p + 1 .. j - 1
          PROVE  Joining[label[m]] = "T"
      <3>1. m \in 1 .. j - 1 /\ ~(p >= m)
        BY <2>2, SMTT(60)
      <3> QED
        BY <2>1, <2>2, <3>1
    <2>4. NearestBefore(j, p)
      BY <2>2, <2>3 DEF NearestBefore
    <2>5. ASSUME NEW a, NearestBefore(j, a)
          PROVE  a = p
      <3>1. a \in S /\ a \in Nat /\ p \in Nat
        BY <2>2, <2>5 DEF NearestBefore
      <3>2. p >= a
        BY <2>1, <2>2, <3>1
      <3>3. ~(p >= a + 1)
        BY <2>2, <2>5, <3>1, SMTT(60) DEF NearestBefore
      <3> QED
        BY <3>1, <3>2, <3>3
    <2>6. JoiningBefore(j) = Joining[label[p]]
      BY <1>1, <2>2, SMTT(60)
    <2> HIDE DEF p
    <2> QED
      BY <2>4, <2>5, <2>6
  <1>4. CASE S = {}
    BY <1>1, <1>4 DEF NearestBefore
  <1> QED
    BY <1>3, <1>4

LEMMA SearchAfter ==
  ASSUME label \in Seq(DOMAIN Direction), NEW j \in 1 .. Len(label)
  PROVE  /\ JoiningAfter(j) \notin {"U", "T"} =>
              \E b : NearestAfter(j, b) /\ Joining[label[b]] = JoiningAfter(j)
         /\ \A b : NearestAfter(j, b) => JoiningAfter(j) = Joining[label[b]]
  <1> DEFINE S == {m \in j + 1 .. Len(label) : Joining[label[m]] # "T"}
             p == IF S # {} THEN Min(S) ELSE 0
  <1>1. JoiningAfter(j) =
          IF p # 0 THEN Joining[label[p]] ELSE IF j = Len(label) THEN "U" ELSE "T"
    BY DEF JoiningAfter, SelectInSubSeq
  <1>2. j \in Nat /\ S \in SUBSET Nat
    OBVIOUS
  <1>3. CASE S # {}
    <2>1. Min(S) \in S /\ \A c \in S : Min(S) <= c
      <3> HIDE DEF S
      <3> QED
        BY <1>2, <1>3, MinIsLeast
    <2>2. p \in j + 1 .. Len(label) /\ p = Min(S) /\ Joining[label[p]] # "T" /\ p # 0
      BY <1>3, <2>1
    <2>3. ASSUME NEW m \in j + 1 .. p - 1
          PROVE  Joining[label[m]] = "T"
      <3>1. m \in j + 1 .. Len(label) /\ ~(p <= m)
        BY <2>2, SMTT(60)
      <3> QED
        BY <2>1, <2>2, <3>1
    <2>4. NearestAfter(j, p)
      BY <2>2, <2>3 DEF NearestAfter
    <2>5. ASSUME NEW b, NearestAfter(j, b)
          PROVE  b = p
      <3>1. b \in S /\ b \in Nat /\ p \in Nat
        BY <2>2, <2>5, SMTT(60) DEF NearestAfter
      <3>2. p <= b
        BY <2>1, <2>2, <3>1
      <3>3. ~(p <= b - 1)
        BY <2>2, <2>5, <3>1, SMTT(60) DEF NearestAfter
      <3> QED
        BY <3>1, <3>2, <3>3
    <2>6. JoiningAfter(j) = Joining[label[p]]
      BY <1>1, <2>2
    <2> HIDE DEF p
    <2> QED
      BY <2>4, <2>5, <2>6
  <1>4. CASE S = {}
    BY <1>1, <1>4 DEF NearestAfter
  <1> QED
    BY <1>3, <1>4

\* The two searches of is_contextj_valid() find the regular expression of RFC 5892,
\* appendix A.1.
LEMMA JoinsIsContext ==
  ASSUME label \in Seq(DOMAIN Direction), NEW j \in 1 .. Len(label)
  PROVE  ContextJ(label, j) <=> AfterVirama(j) \/ (label[j] = Zwnj /\ JoinsBothSides(j))
  <1> DEFINE Between(a, b) == \A m \in (a + 1 .. b - 1) \ {j} : Joining[label[m]] = "T"
  <1>1. ASSUME JoinsBothSides(j)
        PROVE  \E a \in 1 .. j - 1, b \in j + 1 .. Len(label) :
                 /\ Joining[label[a]] \in {"L", "D"} /\ Joining[label[b]] \in {"R", "D"}
                 /\ Between(a, b)
    <2>1. PICK a : NearestBefore(j, a) /\ Joining[label[a]] \in {"L", "D"}
      BY <1>1, SearchBefore DEF JoinsBothSides
    <2>2. PICK b : NearestAfter(j, b) /\ Joining[label[b]] \in {"R", "D"}
      BY <1>1, SearchAfter DEF JoinsBothSides
    <2>3. a \in 1 .. j - 1 /\ b \in j + 1 .. Len(label)
      BY <2>1, <2>2 DEF NearestBefore, NearestAfter
    <2>4. ASSUME NEW m \in (a + 1 .. b - 1) \ {j}
          PROVE  Joining[label[m]] = "T"
      <3>1. m \in a + 1 .. j - 1 \/ m \in j + 1 .. b - 1
        BY <2>3
      <3> QED
        BY <2>1, <2>2, <3>1 DEF NearestBefore, NearestAfter
    <2> QED
      BY <2>1, <2>2, <2>3, <2>4
  <1>2. ASSUME NEW a \in 1 .. j - 1, NEW b \in j + 1 .. Len(label),
               Joining[label[a]] \in {"L", "D"}, Joining[label[b]] \in {"R", "D"},
               Between(a, b)
        PROVE  JoinsBothSides(j)
    <2>1. NearestBefore(j, a)
      <3>1. \A m \in a + 1 .. j - 1 : m \in (a + 1 .. b - 1) \ {j}
        OBVIOUS
      <3> QED
        BY <1>2, <3>1 DEF NearestBefore
    <2>2. NearestAfter(j, b)
      <3>1. \A m \in j + 1 .. b - 1 : m \in (a + 1 .. b - 1) \ {j}
        OBVIOUS
      <3> QED
        BY <1>2, <3>1 DEF NearestAfter
    <2> QED
      BY <1>2, <2>1, <2>2, SearchBefore, SearchAfter DEF JoinsBothSides
  <1> QED
    BY <1>1, <1>2 DEF ContextJ, AfterVirama

-----------------------------------------------------------------------------
(* The ends of a call.                                                     *)

\* A label that keeps the rules is accepted, or is one that breaks one rejected.
LEMMA ReturnKeeps ==
  ASSUME IInv, NEW s \in Seq(DOMAIN Direction), NEW answer \in BOOLEAN,
         Return(s, answer), label' = s, i' \in Nat \ {0},
         answer => Valid(s),
         ~answer => \/ ~granted'
                    \/ Head(s) \in Combining
                    \/ ~JoinersInContext(s)
                    \/ ~BidiRule(s)
  PROVE  IInv'
  <1>1. pc' = "done" /\ ok' = answer
        /\ accepted' = IF answer THEN Append(accepted, s) ELSE accepted
    BY DEF Return
  <1>2. accepted \in Seq(Seq(DOMAIN Direction))
    BY DEF IInv
  <1>3. accepted' \in Seq(Seq(DOMAIN Direction))
    BY <1>1, <1>2, AppendProperties
  <1>4. ASSUME NEW n \in DOMAIN accepted'
        PROVE  Valid(accepted'[n])
    <2>1. CASE answer
      <3>1. accepted' = Append(accepted, s) /\ Valid(s)
        BY <1>1, <2>1
      <3>2. \/ n \in DOMAIN accepted /\ accepted'[n] = accepted[n]
            \/ accepted'[n] = s
        BY <1>2, <3>1, AppendProperties
      <3> QED
        BY <3>1, <3>2 DEF IInv
    <2>2. CASE ~answer
      BY <1>1, <2>2 DEF IInv
    <2> QED
      BY <2>1, <2>2
  <1>5. (\A n \in DOMAIN accepted : Valid(accepted[n]))'
    BY <1>4
  <1>6. RejectsOnlyByRule'
    BY <1>1 DEF RejectsOnlyByRule
  <1> QED
    BY <1>1, <1>3, <1>5, <1>6 DEF IInv

\* What is said of label and accepted only.
LEMMA Unaccepted ==
  ASSUME IInv, UNCHANGED <<label, accepted>>
  PROVE  /\ (label \in Seq(DOMAIN Direction))'
         /\ (accepted \in Seq(Seq(DOMAIN Direction)))'
         /\ (\A n \in DOMAIN accepted : Valid(accepted[n]))'
  BY DEF IInv

LEMMA EmptyIsValid == Valid(<<>>)
  BY DEF Valid, JoinersInContext, is_rtl_label

LEMMA CallKeeps ==
  ASSUME IInv, NEW s \in Inputs, Call(s)
  PROVE  IInv'
  <1>1. /\ s \in Seq(DOMAIN Direction) /\ label' = s
        /\ i' = 1 /\ i' \in Nat \ {0} /\ has_an' = FALSE /\ has_en' = FALSE
    BY LabelAssumption DEF Call
  <1>2. CASE s = <<>> /\ Return(s, TRUE)
    BY <1>1, <1>2, EmptyIsValid, ReturnKeeps
  <1>3. CASE s # <<>> /\ granted' = FALSE /\ Return(s, FALSE)
    BY <1>1, <1>3, ReturnKeeps
  <1>4. CASE Head(s) \in Combining /\ Return(s, FALSE)
    BY <1>1, <1>4, ReturnKeeps
  <1>5. CASE s # <<>> /\ Continue("joiners")
    <2>1. pc' = "joiners" /\ UNCHANGED accepted
      BY <1>5 DEF Continue
    <2>2. \A j \in 1 .. Len(label') : ~(j < i')
      BY <1>1
    <2>3. /\ (accepted \in Seq(Seq(DOMAIN Direction)))'
          /\ (\A n \in DOMAIN accepted : Valid(accepted[n]))'
      BY <2>1 DEF IInv
    <2> QED
      BY <1>1, <1>5, <2>1, <2>2, <2>3 DEF IInv, RejectsOnlyByRule
  <1> QED
    BY <1>2, <1>3, <1>4, <1>5 DEF Call

-----------------------------------------------------------------------------
(* Joiners.                                                                *)
LEMMA JoinerKeeps ==
  ASSUME IInv, Joiner
  PROVE  IInv'
  <1>1. /\ pc = "joiners" /\ i \in Nat \ {0} /\ i <= Len(label)
        /\ UNCHANGED <<label, has_an, has_en, granted>>
        /\ label \in Seq(DOMAIN Direction) /\ label # <<>>
        /\ \A j \in 1 .. Len(label) : j < i /\ JoinerAt(j) => ContextJ(label, j)
    BY DEF Joiner, IInv
  <1>2. ASSUME i' = i + 1, Continue(pc),
               i \in 1 .. Len(label) /\ JoinerAt(i) => ContextJ(label, i)
        PROVE  IInv'
    <2>1. pc' = "joiners" /\ UNCHANGED <<label, accepted>>
      BY <1>1, <1>2 DEF Continue
    <2>2. ASSUME NEW j \in 1 .. Len(label), j < i + 1, JoinerAt(j)
          PROVE  ContextJ(label, j)
      <3>1. j < i \/ j = i
        BY <1>1, <2>2
      <3> QED
        BY <1>1, <1>2, <2>2, <3>1
    <2>3. (\A j \in 1 .. Len(label) : j < i /\ JoinerAt(j) => ContextJ(label, j))'
      BY <1>2, <2>1, <2>2 DEF JoinerAt
    <2>4. i' \in Nat \ {0}
      BY <1>1, <1>2
    <2> QED
      BY <1>1, <2>1, <2>3, <2>4, Unaccepted DEF IInv, RejectsOnlyByRule
  <1>3. CASE ~JoinerAt(i) /\ i' = i + 1 /\ Continue(pc)
    BY <1>2, <1>3
  <1>4. CASE AfterVirama(i) /\ i' = i + 1 /\ Continue(pc)
    BY <1>1, <1>2, <1>4, JoinsIsContext
  <1>5. CASE label[i] = Zwnj /\ JoinsBothSides(i) /\ i' = i + 1 /\ Continue(pc)
    BY <1>1, <1>2, <1>5, JoinsIsContext
  <1>6. CASE /\ JoinerAt(i) /\ ~AfterVirama(i)
             /\ ~(label[i] = Zwnj /\ JoinsBothSides(i))
             /\ UNCHANGED i /\ Return(label, FALSE)
    <2>1. i \in 1 .. Len(label)
      BY <1>1
    <2>2. ~ContextJ(label, i)
      BY <1>1, <1>6, <2>1, JoinsIsContext
    <2>3. ~JoinersInContext(label)
      BY <1>1, <1>6, <2>1, <2>2 DEF JoinersInContext, JoinerAt
    <2> QED
      BY <1>1, <1>6, <2>3, ReturnKeeps
  <1> QED
    BY <1>3, <1>4, <1>5, <1>6 DEF Joiner, NextInLabel

LEMMA EndJoinersKeeps ==
  ASSUME IInv, EndJoiners
  PROVE  IInv'
  <1>1. /\ pc = "joiners" /\ i \in Nat \ {0} /\ i > Len(label) /\ pc' = "bidi"
        /\ UNCHANGED <<label, i, has_an, has_en, accepted>>
        /\ label \in Seq(DOMAIN Direction) /\ label # <<>>
        /\ \A j \in 1 .. Len(label) : j < i /\ JoinerAt(j) => ContextJ(label, j)
    BY DEF EndJoiners, Continue, IInv
  <1>2. JoinersInContext(label)
    <2>1. \A j \in 1 .. Len(label) : j < i
      BY <1>1
    <2>2. DOMAIN label = 1 .. Len(label)
      BY <1>1
    <2> QED
      BY <1>1, <2>1, <2>2 DEF JoinersInContext, JoinerAt
  <1> QED
    BY <1>1, <1>2, Unaccepted DEF IInv, RejectsOnlyByRule

-----------------------------------------------------------------------------
(* The Bidi rule.                                                          *)
LEMMA Neutrals ==
  /\ Neutral = {"ES", "CS", "ET", "ON", "BN", "NSM"}
  /\ InLtr = {"L", "EN", "ES", "CS", "ET", "ON", "BN", "NSM"}
  /\ InRtl = {"R", "AL", "AN", "EN", "ES", "CS", "ET", "ON", "BN", "NSM"}
  BY DEF Neutral, InLtr, InRtl

\* What the six conditions say of a label that begins with L, and of one that
\* begins with R or AL.
LEMMA BidiConditions ==
  ASSUME NEW s \in Seq(DOMAIN Direction), BidiRule(s)
  PROVE  /\ Direction[s[1]] \in {"L", "R", "AL"}
         /\ Direction[s[1]] \in {"R", "AL"} =>
              /\ \A j \in 1 .. Len(s) : Direction[s[j]] \in InRtl
              /\ \E j \in 1 .. Len(s) :
                   /\ Direction[s[j]] \in {"R", "AL", "EN", "AN"}
                   /\ \A m \in j + 1 .. Len(s) : Direction[s[m]] = "NSM"
              /\ \A j, m \in 1 .. Len(s) :
                   ~(Direction[s[j]] = "EN" /\ Direction[s[m]] = "AN")
         /\ Direction[s[1]] = "L" =>
              /\ \A j \in 1 .. Len(s) : Direction[s[j]] \in InLtr
              /\ \E j \in 1 .. Len(s) :
                   /\ Direction[s[j]] \in {"L", "EN"}
                   /\ \A m \in j + 1 .. Len(s) : Direction[s[m]] = "NSM"
  <1>0. DOMAIN s = 1 .. Len(s)
    OBVIOUS
  <1>1. Direction[s[1]] \in {"L", "R", "AL"}
    BY DEF BidiRule
  <1>2. ASSUME Direction[s[1]] \in {"R", "AL"}
        PROVE  /\ \A j \in 1 .. Len(s) : Direction[s[j]] \in InRtl
               /\ \E j \in 1 .. Len(s) :
                    /\ Direction[s[j]] \in {"R", "AL", "EN", "AN"}
                    /\ \A m \in j + 1 .. Len(s) : Direction[s[m]] = "NSM"
               /\ \A j, m \in 1 .. Len(s) :
                    ~(Direction[s[j]] = "EN" /\ Direction[s[m]] = "AN")
    <2>1. \A j \in 1 .. Len(s) : Direction[s[j]] \in InRtl
      BY <1>0, <1>2, Neutrals DEF BidiRule
    <2>2. \E j \in 1 .. Len(s) :
            /\ Direction[s[j]] \in {"R", "AL", "EN", "AN"}
            /\ \A m \in j + 1 .. Len(s) : Direction[s[m]] = "NSM"
      BY <1>0, <1>2 DEF BidiRule
    <2>3. \A j, m \in 1 .. Len(s) :
            ~(Direction[s[j]] = "EN" /\ Direction[s[m]] = "AN")
      BY <1>0, <1>2 DEF BidiRule
    <2> QED
      BY <2>1, <2>2, <2>3
  <1>3. ASSUME Direction[s[1]] = "L"
        PROVE  /\ \A j \in 1 .. Len(s) : Direction[s[j]] \in InLtr
               /\ \E j \in 1 .. Len(s) :
                    /\ Direction[s[j]] \in {"L", "EN"}
                    /\ \A m \in j + 1 .. Len(s) : Direction[s[m]] = "NSM"
    <2>1. \A j \in 1 .. Len(s) : Direction[s[j]] \in InLtr
      BY <1>0, <1>3, Neutrals DEF BidiRule
    <2>2. \E j \in 1 .. Len(s) :
            /\ Direction[s[j]] \in {"L", "EN"}
            /\ \A m \in j + 1 .. Len(s) : Direction[s[m]] = "NSM"
      BY <1>0, <1>3 DEF BidiRule
    <2> QED
      BY <2>1, <2>2
  <1> QED
    BY <1>1, <1>2, <1>3, Zenon

LEMMA LastIsFound ==
  ASSUME label \in Seq(DOMAIN Direction), NEW j \in 1 .. Len(label),
         Direction[label[j]] # "NSM",
         \A m \in j + 1 .. Len(label) : Direction[label[m]] = "NSM"
  PROVE  find_last_not_of_nsm = j
  <1> DEFINE f == find_last_not_of_nsm
  <1>1. /\ f \in 0 .. Len(label)
        /\ f # 0 => Direction[label[f]] # "NSM"
        /\ \A m \in 1 .. Len(label) : m > f => Direction[label[m]] = "NSM"
    BY FindLast
  <1> HIDE DEF f
  <1>2. ~(j > f)
    BY <1>1
  <1>3. ~(f > j)
    BY <1>1
  <1>4. f = j
    BY <1>1, <1>2, <1>3
  <1> QED
    BY <1>4 DEF f

LEMMA BidiKeeps ==
  ASSUME IInv, Bidi
  PROVE  IInv'
  <1> DEFINE first == Direction[label[1]]
             f == find_last_not_of_nsm
  <1>1. /\ pc = "bidi" /\ UNCHANGED <<label, has_an, has_en, granted>>
        /\ label \in Seq(DOMAIN Direction) /\ label # <<>> /\ i \in Nat \ {0}
        /\ JoinersInContext(label) /\ ~has_an /\ ~has_en
    BY DEF Bidi, IInv
  <1>2. /\ f \in 0 .. Len(label)
        /\ f # 0 => Direction[label[f]] # "NSM"
        /\ \A m \in 1 .. Len(label) : m > f => Direction[label[m]] = "NSM"
    BY <1>1, FindLast
  <1>3. Len(label) \in Nat /\ 1 \in 1 .. Len(label) /\ DOMAIN label = 1 .. Len(label)
    BY <1>1
  <1> HIDE DEF f
  <1>4. CASE f = 0 /\ Return(label, FALSE) /\ UNCHANGED i
    <2>1. Direction[label[1]] = "NSM"
      BY <1>2, <1>3, <1>4
    <2>2. ~BidiRule(label)
      BY <1>1, <2>1, BidiConditions
    <2> QED
      BY <1>1, <1>4, <2>2, ReturnKeeps
  <1>5. CASE ~is_rtl_label(label) /\ Return(label, TRUE) /\ UNCHANGED i
    <2>1. Valid(label)
      BY <1>1, <1>5 DEF Valid
    <2> QED
      BY <1>1, <1>5, <2>1, ReturnKeeps
  <1>6. CASE f # 0 /\ is_rtl_label(label) /\ first = "L"
             /\ Return(label, EvalLtr) /\ UNCHANGED i
    <2>1. ~EvalLtr
      <3>1. PICK j \in 1 .. Len(label) : Direction[label[j]] \in {"R", "AL", "AN"}
        BY <1>3, <1>6 DEF is_rtl_label
      <3>2. j \in 1 .. f
        BY <1>2, <3>1
      <3>3. Direction[label[j]] \notin InLtr
        BY <3>1, Neutrals
      <3> QED
        BY <3>2, <3>3 DEF EvalLtr, f
    <2>2. Return(label, FALSE)
      BY <1>6, <2>1 DEF Return
    <2>3. ~BidiRule(label)
      <3>1. PICK j \in 1 .. Len(label) : Direction[label[j]] \in {"R", "AL", "AN"}
        BY <1>3, <1>6 DEF is_rtl_label
      <3>2. Direction[label[j]] \notin InLtr
        BY <3>1, Neutrals
      <3> QED
        BY <1>1, <1>6, <3>2, BidiConditions
    <2> QED
      BY <1>1, <1>6, <2>2, <2>3, ReturnKeeps
  <1>7. CASE first \notin {"L", "R", "AL"} /\ Return(label, FALSE) /\ UNCHANGED i
    <2>1. ~BidiRule(label)
      BY <1>1, <1>7, BidiConditions
    <2> QED
      BY <1>1, <1>7, <2>1, ReturnKeeps
  <1>8. CASE f # 0 /\ first \in {"R", "AL"} /\ Continue("rtl") /\ i' = 1
    <2>1. pc' = "rtl" /\ UNCHANGED <<label, accepted>>
      BY <1>1, <1>8 DEF Continue
    <2>2. f' = f
      BY <2>1 DEF f, find_last_not_of_nsm, SelectLastInSeq
    <2>3. RtlSoFar'
      <3>1. f \in 1 .. Len(label) /\ i' \in 1 .. f + 1 /\ ~(i' > f) /\ 1 .. i' - 1 = {}
        BY <1>2, <1>3, <1>8
      <3>2. ~has_an' /\ ~has_en'
        BY <1>1
      <3> QED
        BY <1>8, <2>1, <2>2, <3>1, <3>2 DEF RtlSoFar, f
    <2>4. i' \in Nat \ {0}
      BY <1>8
    <2> QED
      BY <1>1, <2>1, <2>3, <2>4, Unaccepted DEF IInv, RejectsOnlyByRule
  <1> QED
    BY <1>4, <1>5, <1>6, <1>7, <1>8 DEF Bidi, f

LEMMA RtlTurnKeeps ==
  ASSUME IInv, RtlTurn
  PROVE  IInv'
  <1> DEFINE f == find_last_not_of_nsm
             d == Direction[label[i]]
             mixed == (d = "EN" /\ has_an) \/ (d = "AN" /\ has_en)
             ends == i = f => d \in {"R", "AL", "AN", "EN"}
  <1>1. /\ pc = "rtl" /\ i <= f /\ i \in Nat \ {0}
        /\ has_an' = (has_an \/ d = "AN") /\ has_en' = (has_en \/ d = "EN")
        /\ UNCHANGED <<label, granted>>
        /\ label \in Seq(DOMAIN Direction) /\ label # <<>>
        /\ JoinersInContext(label) /\ RtlSoFar
    BY DEF RtlTurn, IInv, SeenAn, SeenEn
  <1>2. /\ f \in 1 .. Len(label) /\ i \in 1 .. f /\ i \in 1 .. Len(label)
        /\ Direction[label[1]] \in {"R", "AL"}
        /\ \A j \in 1 .. i - 1 : Direction[label[j]] \in InRtl
        /\ has_an <=> \E j \in 1 .. i - 1 : Direction[label[j]] = "AN"
        /\ has_en <=> \E j \in 1 .. i - 1 : Direction[label[j]] = "EN"
        /\ ~(has_an /\ has_en)
        /\ Direction[label[f]] # "NSM"
    <2>1. f \in 1 .. Len(label) /\ i \in 1 .. f + 1
      BY <1>1 DEF RtlSoFar
    <2>2. Direction[label[f]] # "NSM"
      BY <1>1, <2>1, FindLast
    <2>3. i \in 1 .. f /\ i \in 1 .. Len(label)
      <3> HIDE DEF f
      <3> QED
        BY <1>1, <2>1
    <2> QED
      BY <1>1, <2>1, <2>2, <2>3 DEF RtlSoFar
  <1>3. f' = f
    BY <1>1 DEF f, find_last_not_of_nsm, SelectLastInSeq
  <1> HIDE DEF f
  <1>4. CASE ~mixed /\ d \in InRtl /\ ends /\ i' = i + 1 /\ Continue(pc)
    <2>1. pc' = "rtl" /\ UNCHANGED <<label, accepted>>
      BY <1>1, <1>4 DEF Continue
    <2>2. \A j \in 1 .. i' - 1 : j \in 1 .. i - 1 \/ j = i
      BY <1>1, <1>4
    <2>3. 1 .. i - 1 \subseteq 1 .. i' - 1 /\ i \in 1 .. i' - 1
      BY <1>1, <1>4
    <2>4. /\ i' \in 1 .. f + 1
          /\ i' > f => Direction[label[f]] \in {"R", "AL", "AN", "EN"}
      <3>1. i' > f => i = f
        BY <1>1, <1>2, <1>4
      <3> QED
        BY <1>1, <1>2, <1>4, <3>1
    <2>5. \A j \in 1 .. i' - 1 : Direction[label[j]] \in InRtl
      BY <1>2, <1>4, <2>2
    <2>6. /\ has_an' <=> \E j \in 1 .. i' - 1 : Direction[label[j]] = "AN"
          /\ has_en' <=> \E j \in 1 .. i' - 1 : Direction[label[j]] = "EN"
      BY <1>1, <1>2, <2>2, <2>3
    <2>7. ~(has_an' /\ has_en')
      BY <1>1, <1>2, <1>4
    <2>8. RtlSoFar'
      BY <1>2, <1>3, <2>1, <2>4, <2>5, <2>6, <2>7 DEF RtlSoFar, f
    <2>9. i' \in Nat \ {0}
      BY <1>1, <1>4
    <2> QED
      BY <1>1, <2>1, <2>8, <2>9, Unaccepted DEF IInv, RejectsOnlyByRule
  <1>5. CASE ~(~mixed /\ d \in InRtl /\ ends) /\ UNCHANGED i /\ Return(label, FALSE)
    <2>1. ~BidiRule(label)
      <3> SUFFICES ASSUME BidiRule(label) PROVE FALSE
        OBVIOUS
      <3>1. /\ \A j \in 1 .. Len(label) : Direction[label[j]] \in InRtl
            /\ \A j, m \in 1 .. Len(label) :
                 ~(Direction[label[j]] = "EN" /\ Direction[label[m]] = "AN")
        BY <1>1, <1>2, BidiConditions
      <3>2. PICK last \in 1 .. Len(label) :
              /\ Direction[label[last]] \in {"R", "AL", "EN", "AN"}
              /\ \A m \in last + 1 .. Len(label) : Direction[label[m]] = "NSM"
        BY <1>1, <1>2, BidiConditions
      <3>3. f = last
        BY <1>1, <3>2, LastIsFound DEF f
      <3>4. d \in InRtl /\ ends
        BY <1>2, <3>1, <3>2, <3>3
      <3>5. 1 .. i - 1 \subseteq 1 .. Len(label)
        BY <1>1, <1>2
      <3>6. ~mixed
        BY <1>2, <3>1, <3>5
      <3> QED
        BY <1>5, <3>4, <3>6
    <2> QED
      BY <1>1, <1>5, <2>1, ReturnKeeps
  <1> QED
    BY <1>4, <1>5 DEF RtlTurn, f

LEMMA EndRtlKeeps ==
  ASSUME IInv, EndRtl
  PROVE  IInv'
  <1> DEFINE f == find_last_not_of_nsm
             s == label
  <1>1. /\ pc = "rtl" /\ i > f /\ i \in Nat \ {0} /\ Return(label, TRUE)
        /\ UNCHANGED <<label, i, has_an, has_en, granted>>
        /\ label \in Seq(DOMAIN Direction)
        /\ JoinersInContext(label) /\ RtlSoFar
    BY DEF EndRtl, IInv
  <1>2. /\ f \in 1 .. Len(label) /\ i = f + 1
        /\ Direction[label[1]] \in {"R", "AL"}
        /\ \A j \in 1 .. i - 1 : Direction[label[j]] \in InRtl
        /\ has_an <=> \E j \in 1 .. i - 1 : Direction[label[j]] = "AN"
        /\ has_en <=> \E j \in 1 .. i - 1 : Direction[label[j]] = "EN"
        /\ ~(has_an /\ has_en)
        /\ Direction[label[f]] \in {"R", "AL", "AN", "EN"}
    <2>1. f \in 1 .. Len(label) /\ i \in 1 .. f + 1
      BY <1>1 DEF RtlSoFar
    <2>2. i = f + 1
      <3> HIDE DEF f
      <3> QED
        BY <1>1, <2>1
    <2> QED
      BY <1>1, <2>1, <2>2 DEF RtlSoFar
  <1>3. \A m \in 1 .. Len(label) : m > f => Direction[label[m]] = "NSM"
    BY <1>1, FindLast
  <1> HIDE DEF f
  <1>4. \A j \in 1 .. Len(label) : j \in 1 .. i - 1 \/ (j > f /\ Direction[label[j]] = "NSM")
    BY <1>1, <1>2, <1>3, SMTT(60)
  <1>5. BidiRule(label)
    <2>0. DOMAIN label = 1 .. Len(label) /\ Direction[label[1]] # "L"
      BY <1>1, <1>2
    <2>1. \A j \in DOMAIN label :
            Direction[label[j]] \in {"R", "AL", "AN", "EN", "ES", "CS", "ET", "ON", "BN", "NSM"}
      BY <1>2, <1>4, <2>0, Neutrals
    <2>2. \E j \in DOMAIN label :
            /\ Direction[label[j]] \in {"R", "AL", "EN", "AN"}
            /\ \A m \in j + 1 .. Len(label) : Direction[label[m]] = "NSM"
      <3>1. \A m \in f + 1 .. Len(label) : Direction[label[m]] = "NSM"
        BY <1>2, <1>3
      <3> QED
        BY <1>2, <2>0, <3>1
    <2>3. ~((\E j \in DOMAIN label : Direction[label[j]] = "EN")
              /\ (\E j \in DOMAIN label : Direction[label[j]] = "AN"))
      BY <1>2, <1>4, <2>0
    <2> QED
      BY <1>2, <2>0, <2>1, <2>2, <2>3, Zenon DEF BidiRule
  <1>6. Valid(label)
    BY <1>1, <1>5 DEF Valid
  <1> QED
    BY <1>1, <1>6, ReturnKeeps

-----------------------------------------------------------------------------
LEMMA InitIInv == Init => IInv
  BY DEF Init, IInv, RejectsOnlyByRule

LEMMA NextIInv == IInv /\ [Next]_vars => IInv'
  <1> SUFFICES ASSUME IInv, [Next]_vars
               PROVE  IInv'
    OBVIOUS
  <1>1. CASE UNCHANGED vars
    <2>1. find_last_not_of_nsm' = find_last_not_of_nsm
      BY <1>1 DEF vars, find_last_not_of_nsm, SelectLastInSeq
    <2>2. RtlSoFar <=> RtlSoFar'
      BY <1>1, <2>1 DEF vars, RtlSoFar
    <2>3. \A j : JoinerAt(j) <=> JoinerAt(j)'
      BY <1>1 DEF vars, JoinerAt
    <2> QED
      BY <1>1, <2>2, <2>3, Unaccepted DEF vars, IInv, RejectsOnlyByRule
  <1>2. CASE Next
    BY <1>2, CallKeeps, JoinerKeeps, EndJoinersKeeps, BidiKeeps, RtlTurnKeeps, EndRtlKeeps
    DEF Next, Step
  <1> QED
    BY <1>1, <1>2

\* Every joiner of a label that is_label_valid() accepts has a context of its own.
THEOREM JoinersAlwaysInContext == Spec => []EveryJoinerInContext
  <1>1. IInv => EveryJoinerInContext
    BY DEF IInv, Valid, EveryJoinerInContext
  <1> QED
    BY <1>1, InitIInv, NextIInv, PTL DEF Spec

\* A label with right-to-left code points is accepted only if it keeps all six
\* conditions of the Bidi rule.
THEOREM RtlLabelsAlwaysKeepRule == Spec => []RtlLabelsKeepRule
  <1>1. IInv => RtlLabelsKeepRule
    BY DEF IInv, Valid, RtlLabelsKeepRule
  <1> QED
    BY <1>1, InitIInv, NextIInv, PTL DEF Spec

\* And no label is rejected that starts with no combining mark and keeps both.
THEOREM RejectsOnlyByRuleAlways == Spec => []RejectsOnlyByRule
  <1>1. IInv => RejectsOnlyByRule
    BY DEF IInv
  <1> QED
    BY <1>1, InitIInv, NextIInv, PTL DEF Spec
=============================================================================
