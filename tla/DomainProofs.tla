---------------------------- MODULE DomainProofs ----------------------------
(***************************************************************************)
(* to_ascii() and to_unicode(), for every choice of the functions they     *)
(* call that the assumptions of Domain, ToUnicode and DomainRoundTrip      *)
(* allow, every number of threads and every input.                         *)
(*                                                                         *)
(* The scan is the same in both, and what it does to a string is said by   *)
(* Scan: label, dot, rest.  What is out so far is then a string that has   *)
(* the labels of what the scan has passed, and it ends, unless that is     *)
(* all, where the next label begins; so a label written next becomes one   *)
(* label of the answer, and the one in its place (LabelsExtended).         *)
(*                                                                         *)
(* The store's side, that ensure_tables() keeps TablesPromise, is the      *)
(* theorem Implements of TableStoreProofs.                                 *)
(***************************************************************************)
EXTENDS DomainRoundTrip, TLAPS, SequenceTheorems, FiniteSetTheorems, WellFoundedInduction

-----------------------------------------------------------------------------
(* Strings: their dots and their labels.                                   *)
LEMMA LeastNatural ==
  ASSUME NEW S \in SUBSET Nat, S # {}
  PROVE  Min(S) \in S /\ \A c \in S : Min(S) <= c
  <1> DEFINE R == {ss \in Nat \X Nat : ss[1] < ss[2]}
  <1>1. IsWellFoundedOn(R, Nat)
    BY NatLessThanWellFounded DEF OpToRel
  <1>2. PICK least \in S : \A c \in S : ~(<<c, least>> \in R)
    <2> HIDE DEF R
    <2> QED
      BY <1>1, WFMin
  <1>3. ASSUME NEW c \in S
        PROVE  least <= c
    <2>1. least \in Nat /\ c \in Nat /\ ~(c < least)
      BY <1>2
    <2> QED
      BY <2>1
  <1> QED
    BY <1>3 DEF Min

\* Strings over different symbols are strings over one alphabet.
LEMMA StringIsSeq == ASSUME NEW S, NEW s \in Seq(S) PROVE IsString(s)
  <1>1. \A j \in DOMAIN s : s[j] \in ToSet(s)
    BY DEF ToSet
  <1>2. Len(s) \in Nat /\ s = [j \in 1 .. Len(s) |-> s[j]]
    OBVIOUS
  <1>3. s \in Seq(ToSet(s))
    BY <1>1, <1>2, IsASeq
  <1> QED
    BY <1>3 DEF IsString

LEMMA OneAlphabet ==
  ASSUME NEW s, NEW t, NEW u, IsString(s), IsString(t), IsString(u)
  PROVE  \E S : s \in Seq(S) /\ t \in Seq(S) /\ u \in Seq(S)
  <1> DEFINE S == ToSet(s) \cup ToSet(t) \cup ToSet(u)
  <1>1. s \in Seq(ToSet(s)) /\ t \in Seq(ToSet(t)) /\ u \in Seq(ToSet(u))
    BY DEF IsString
  <1>2. s \in Seq(S) /\ t \in Seq(S) /\ u \in Seq(S)
    BY <1>1, SeqMonotonic
  <1> QED
    BY <1>2

LEMMA Concatenated ==
  ASSUME NEW s, NEW t, IsString(s), IsString(t)
  PROVE  IsString(s \o t)
  <1>1. PICK S : s \in Seq(S) /\ t \in Seq(S)
    BY OneAlphabet
  <1>2. s \o t \in Seq(S)
    BY <1>1, ConcatProperties
  <1> QED
    BY <1>2, StringIsSeq

LEMMA ShortStrings == IsString(<<>>) /\ IsString(<<Dot>>) /\ IsString(<<Ace>>)
  <1>1. <<>> \in Seq({Dot}) /\ <<Dot>> \in Seq({Dot}) /\ <<Ace>> \in Seq({Ace})
    OBVIOUS
  <1> QED
    BY <1>1, StringIsSeq

LEMMA DotsType ==
  ASSUME NEW S, NEW s \in Seq(S)
  PROVE  /\ IsFiniteSet({j \in DOMAIN s : s[j] = Dot})
         /\ Dots(s) \in 0 .. Len(s)
  <1> DEFINE D == {j \in DOMAIN s : s[j] = Dot}
  <1>1. IsFiniteSet(1 .. Len(s)) /\ Cardinality(1 .. Len(s)) = Len(s)
    <2>1. Len(s) \in Nat
      OBVIOUS
    <2> QED
      BY <2>1, FS_Interval, SMTT(60)
  <1>2. D \subseteq 1 .. Len(s)
    OBVIOUS
  <1>3. IsFiniteSet(D) /\ Cardinality(D) <= Len(s)
    <2> HIDE DEF D
    <2> QED
      BY <1>1, <1>2, FS_Subset, ZenonT(60)
  <1>4. Cardinality(D) \in Nat
    BY <1>3, FS_CardinalityType
  <1> QED
    BY <1>3, <1>4 DEF Dots

LEMMA NoDots ==
  ASSUME NEW s, IsString(s)
  PROVE  /\ Dots(s) \in Nat
         /\ Dots(s) = 0 <=> ~Contains(s, Dot)
         /\ Contains(s, Dot) => Dots(s) >= 1
  <1> SUFFICES ASSUME NEW S, s \in Seq(S)
               PROVE  /\ Dots(s) \in Nat
                      /\ Dots(s) = 0 <=> ~Contains(s, Dot)
                      /\ Contains(s, Dot) => Dots(s) >= 1
    BY DEF IsString
  <1> DEFINE D == {j \in DOMAIN s : s[j] = Dot}
  <1>1. IsFiniteSet(D) /\ Dots(s) = Cardinality(D) /\ Dots(s) \in Nat
    <2>1. IsFiniteSet(D) /\ Dots(s) \in 0 .. Len(s) /\ Len(s) \in Nat
      BY DotsType
    <2>2. Dots(s) = Cardinality(D)
      BY DEF Dots
    <2> QED
      BY <2>1, <2>2
  <1>2. Cardinality(D) = 0 <=> D = {}
    <2> HIDE DEF D
    <2> QED
      BY <1>1, FS_EmptySet
  <1>3. D = {} <=> ~Contains(s, Dot)
    BY DEF Contains
  <1> QED
    BY <1>1, <1>2, <1>3

\* The dots of two strings one after the other.
LEMMA DotsConcat ==
  ASSUME NEW s, NEW t, IsString(s), IsString(t)
  PROVE  Dots(s \o t) = Dots(s) + Dots(t)
  <1> SUFFICES ASSUME NEW S, s \in Seq(S), t \in Seq(S)
               PROVE  Dots(s \o t) = Dots(s) + Dots(t)
    BY OneAlphabet
  <1> DEFINE D == {j \in DOMAIN s : s[j] = Dot}
             E == {j \in DOMAIN t : t[j] = Dot}
             F == {Len(s) + j : j \in E}
             move == [j \in E |-> Len(s) + j]
             C == {j \in DOMAIN (s \o t) : (s \o t)[j] = Dot}
  <1>1. IsFiniteSet(D) /\ IsFiniteSet(E)
    BY DotsType
  <1>2. move \in Bijection(E, F)
    <2>1. move \in [E -> F]
      OBVIOUS
    <2>2. ASSUME NEW a \in E, NEW b \in E, move[a] = move[b]
          PROVE  a = b
      <3>1. a \in Nat /\ b \in Nat /\ Len(s) \in Nat /\ Len(s) + a = Len(s) + b
        BY <2>2
      <3> QED
        BY <3>1
    <2>3. \A f \in F : \E a \in E : move[a] = f
      OBVIOUS
    <2> QED
      <3> HIDE DEF E, F, move
      <3> QED
        BY <2>1, <2>2, <2>3 DEF Bijection, Injection, Surjection, IsInjective
  <1>3. IsFiniteSet(F) /\ Cardinality(F) = Cardinality(E)
    <2> HIDE DEF E, F, move
    <2> QED
      BY <1>1, <1>2, FS_Bijection DEF ExistsBijection
  <1>4. C = D \cup F
    <2>1. /\ Len(s \o t) = Len(s) + Len(t)
          /\ \A j \in 1 .. Len(s) : (s \o t)[j] = s[j]
          /\ \A j \in 1 .. Len(t) : (s \o t)[Len(s) + j] = t[j]
      BY ConcatProperties
    <2>2. DOMAIN (s \o t) = 1 .. Len(s) + Len(t)
      BY <2>1, ConcatProperties
    <2>3. ASSUME NEW j \in C
          PROVE  j \in D \cup F
      <3>1. CASE j <= Len(s)
        BY <2>1, <2>2, <3>1
      <3>2. CASE j > Len(s)
        <4>1. j - Len(s) \in 1 .. Len(t) /\ j = Len(s) + (j - Len(s))
          BY <2>2, <3>2
        <4>2. t[j - Len(s)] = Dot
          BY <2>1, <4>1
        <4> QED
          BY <4>1, <4>2
      <3> QED
        BY <2>2, <3>1, <3>2
    <2>4. D \subseteq C
      BY <2>1, <2>2
    <2>5. F \subseteq C
      BY <2>1, <2>2
    <2> QED
      BY <2>3, <2>4, <2>5
  <1>5. D \cap F = {}
    OBVIOUS
  <1>6. Cardinality(C) = Cardinality(D) + Cardinality(F)
    <2> HIDE DEF C, D, F
    <2>1. Cardinality(D \cap F) = 0
      BY <1>5, FS_EmptySet
    <2>2. Cardinality(D) \in Nat /\ Cardinality(F) \in Nat
      BY <1>1, <1>3, FS_CardinalityType
    <2>3. Cardinality(D \cup F) = Cardinality(D) + Cardinality(F) - Cardinality(D \cap F)
      BY <1>1, <1>3, FS_Union
    <2> QED
      BY <1>4, <2>1, <2>2, <2>3
  <1> QED
    BY <1>3, <1>6 DEF Dots

\* Three strings, one behind the other.
Joined(s, t, u) == s \o t \o u

LEMMA DotsJoined ==
  ASSUME NEW s, NEW t, NEW u, IsString(s), IsString(t), IsString(u)
  PROVE  Dots(Joined(s, t, u)) = Dots(s) + Dots(t) + Dots(u)
  <1>1. IsString(s \o t)
    BY Concatenated
  <1>2. Dots(s \o t) = Dots(s) + Dots(t)
    BY DotsConcat
  <1>3. Dots((s \o t) \o u) = Dots(s \o t) + Dots(u)
    BY <1>1, DotsConcat
  <1> QED
    BY <1>2, <1>3 DEF Joined

LEMMA SubSeqOf ==
  ASSUME NEW S, NEW s \in Seq(S), NEW j \in 1 .. Len(s) + 1, NEW k \in j - 1 .. Len(s)
  PROVE  /\ SubSeq(s, j, k) \in Seq(S)
         /\ Len(SubSeq(s, j, k)) = k - j + 1
         /\ \A i \in 1 .. k - j + 1 : SubSeq(s, j, k)[i] = s[j + i - 1]
  <1>1. Len(s) \in Nat /\ j \in Int /\ k \in Int
    OBVIOUS
  <1>2. \A i \in j .. k : s[i] \in S
    BY <1>1, ElementOfSeq
  <1>3. k - j + 1 = IF j <= k THEN k - j + 1 ELSE 0
    BY <1>1
  <1> QED
    BY <1>1, <1>2, <1>3, SubSeqProperties

\* The scan: a string is its next label, the dot behind that one, and the rest.
LEMMA ScanSeq ==
  ASSUME NEW S, NEW s \in Seq(S)
  PROVE  /\ LabelEnd(s) \in 0 .. Len(s)
         /\ NextLabel(s) \in Seq(S) /\ AfterLabel(s) \in Seq(S)
         /\ ~Contains(NextLabel(s), Dot)
         /\ \E p \in 1 .. Len(s) + 1 : AfterLabel(s) = SubSeq(s, p, Len(s))
         /\ DotAfter(s) = <<>> => AfterLabel(s) = <<>>
         /\ DotAfter(s) \in Seq({Dot})
         /\ s = NextLabel(s) \o DotAfter(s) \o AfterLabel(s)
  <1> DEFINE D == {j \in 1 .. Len(s) : s[j] = Dot}
  <1>0. Len(s) \in Nat
    OBVIOUS
  <1>1. Contains(s, Dot) <=> D # {}
    BY DEF Contains
  <1>2. LabelEnd(s) = IF D # {} THEN Min(D) - 1 ELSE Len(s)
    BY <1>1 DEF LabelEnd, SelectInSeq
  <1>3. CASE D = {}
    <2>1. LabelEnd(s) = Len(s) /\ ~Contains(s, Dot)
      BY <1>1, <1>2, <1>3
    <2>2. NextLabel(s) = s
      BY <2>1 DEF NextLabel
    <2>3. AfterLabel(s) = <<>>
      BY <1>0, <2>1 DEF AfterLabel
    <2>4. SubSeq(s, Len(s) + 1, Len(s)) = <<>> /\ Len(s) + 1 \in 1 .. Len(s) + 1
      BY <1>0
    <2>5. DotAfter(s) = <<>>
      BY <2>1 DEF DotAfter
    <2>6. s = s \o <<>> \o <<>>
      OBVIOUS
    <2>7. <<>> \in Seq(S) /\ <<>> \in Seq({Dot})
      OBVIOUS
    <2> QED
      BY <1>0, <2>1, <2>2, <2>3, <2>4, <2>5, <2>6, <2>7
  <1>4. CASE D # {}
    <2> DEFINE m == Min(D)
    <2>1. m \in D /\ \A c \in D : m <= c
      <3>1. D \in SUBSET Nat
        OBVIOUS
      <3> HIDE DEF D
      <3> QED
        BY <1>4, <3>1, LeastNatural
    <2>2. m \in 1 .. Len(s) /\ s[m] = Dot /\ \A j \in 1 .. m - 1 : s[j] # Dot
      BY <2>1
    <2>3. LabelEnd(s) = m - 1 /\ Contains(s, Dot)
      BY <1>1, <1>2, <1>4
    <2> HIDE DEF D, m
    <2>4. NextLabel(s) = SubSeq(s, 1, m - 1) /\ AfterLabel(s) = SubSeq(s, m + 1, Len(s))
      <3>1. m - 1 + 2 = m + 1
        BY <2>2
      <3> QED
        BY <2>3, <3>1 DEF NextLabel, AfterLabel
    <2>5. DotAfter(s) = <<Dot>>
      BY <2>3 DEF DotAfter
    <2>6. /\ NextLabel(s) \in Seq(S) /\ Len(NextLabel(s)) = m - 1
          /\ \A j \in 1 .. m - 1 : NextLabel(s)[j] = s[j]
      BY <1>0, <2>2, <2>4, SubSeqProperties
    <2>7. ~Contains(NextLabel(s), Dot)
      BY <2>2, <2>6 DEF Contains
    <2>8. /\ AfterLabel(s) \in Seq(S) /\ Len(AfterLabel(s)) = Len(s) - m
          /\ \A j \in 1 .. Len(s) - m : AfterLabel(s)[j] = s[m + j]
      <3>1. m + 1 \in 1 .. Len(s) + 1 /\ Len(s) \in m + 1 - 1 .. Len(s)
        BY <1>0, <2>2
      <3>2. AfterLabel(s) \in Seq(S) /\ Len(AfterLabel(s)) = Len(s) - m
        BY <1>0, <2>2, <2>4, <3>1, SubSeqProperties
      <3>3. ASSUME NEW j \in 1 .. Len(s) - m
            PROVE  AfterLabel(s)[j] = s[m + j]
        <4>1. AfterLabel(s)[j] = s[m + 1 + j - 1]
          BY <1>0, <2>2, <2>4, <3>1, <3>2, SubSeqProperties
        <4> QED
          BY <1>0, <2>2, <4>1
      <3> QED
        BY <3>2, <3>3
    <2>9. s = NextLabel(s) \o DotAfter(s) \o AfterLabel(s)
      <3> DEFINE whole == NextLabel(s) \o <<Dot>> \o AfterLabel(s)
      <3>0. <<Dot>> \in Seq(S)
        <4>1. Dot \in S
          BY <2>2, ElementOfSeq
        <4> QED
          BY <4>1
      <3>1. /\ NextLabel(s) \o <<Dot>> \in Seq(S) /\ Len(NextLabel(s) \o <<Dot>>) = m
            /\ \A j \in 1 .. m - 1 : (NextLabel(s) \o <<Dot>>)[j] = s[j]
            /\ (NextLabel(s) \o <<Dot>>)[m] = s[m]
        BY <1>0, <2>2, <2>6, <3>0
      <3>2. /\ whole \in Seq(S) /\ Len(whole) = Len(s)
            /\ \A j \in 1 .. m : whole[j] = s[j]
            /\ \A j \in 1 .. Len(s) - m : whole[m + j] = s[m + j]
        <4> DEFINE front == NextLabel(s) \o <<Dot>>
        <4>1. front \in Seq(S) /\ Len(front) = m /\ \A j \in 1 .. m : front[j] = s[j]
          BY <2>2, <3>1
        <4>2. whole = front \o AfterLabel(s)
          OBVIOUS
        <4> HIDE DEF whole, front
        <4>3. /\ whole \in Seq(S) /\ Len(whole) = Len(front) + Len(AfterLabel(s))
              /\ \A j \in 1 .. Len(whole) :
                   whole[j] = IF j <= Len(front) THEN front[j] ELSE AfterLabel(s)[j - Len(front)]
          <5>1. front \in Seq(S) /\ AfterLabel(s) \in Seq(S)
            BY <2>8, <4>1
          <5>2. /\ front \o AfterLabel(s) \in Seq(S)
                /\ Len(front \o AfterLabel(s)) = Len(front) + Len(AfterLabel(s))
                /\ \A j \in 1 .. Len(front \o AfterLabel(s)) :
                     (front \o AfterLabel(s))[j]
                       = IF j <= Len(front) THEN front[j] ELSE AfterLabel(s)[j - Len(front)]
            BY ONLY <5>1, ConcatProperties
          <5> QED
            BY <4>2, <5>2
        <4>4. Len(whole) = Len(s) /\ m \in 1 .. Len(s)
          BY <1>0, <2>2, <2>8, <4>1, <4>3
        <4>5. \A j \in 1 .. m : whole[j] = front[j]
          BY <1>0, <4>1, <4>3, <4>4
        <4>6. ASSUME NEW j \in 1 .. Len(s) - m
              PROVE  whole[m + j] = AfterLabel(s)[j]
          <5>1. m + j \in 1 .. Len(whole) /\ ~(m + j <= m) /\ m + j - m = j
            BY <1>0, <4>4
          <5> QED
            BY <4>1, <4>3, <5>1, SMTT(60)
        <4> QED
          BY <2>8, <4>1, <4>3, <4>4, <4>5, <4>6
      <3>3. ASSUME NEW j \in 1 .. Len(s)
            PROVE  whole[j] = s[j]
        <4> HIDE DEF whole
        <4>1. CASE j <= m
          BY <2>2, <3>2, <4>1
        <4>2. CASE j > m
          <5>1. j - m \in 1 .. Len(s) - m /\ m + (j - m) = j
            BY <1>0, <2>2, <4>2
          <5> QED
            BY <3>2, <5>1
        <4> QED
          BY <1>0, <2>2, <4>1, <4>2
      <3>4. whole = s
        <4> HIDE DEF whole
        <4> QED
          BY <3>2, <3>3, SeqEqual
      <3> QED
        BY <2>5, <3>4
    <2>10. m + 1 \in 1 .. Len(s) + 1 /\ LabelEnd(s) \in 0 .. Len(s)
      BY <1>0, <2>2, <2>3
    <2>11. <<Dot>> \in Seq({Dot}) /\ <<Dot>> # <<>>
      OBVIOUS
    <2> QED
      BY <2>4, <2>5, <2>6, <2>7, <2>8, <2>9, <2>10, <2>11
  <1> QED
    BY <1>3, <1>4

LEMMA Scan ==
  ASSUME NEW s, IsString(s)
  PROVE  /\ IsString(NextLabel(s)) /\ IsString(DotAfter(s)) /\ IsString(AfterLabel(s))
         /\ ~Contains(NextLabel(s), Dot)
         /\ \E p \in 1 .. Len(s) + 1 : AfterLabel(s) = SubSeq(s, p, Len(s))
         /\ NextLabel(s) = SubSeq(s, 1, LabelEnd(s)) /\ LabelEnd(s) \in 0 .. Len(s)
         /\ DotAfter(s) \in {<<>>, <<Dot>>}
         /\ DotAfter(s) = <<>> => AfterLabel(s) = <<>>
         /\ s = Joined(NextLabel(s), DotAfter(s), AfterLabel(s))
  BY ScanSeq, StringIsSeq DEF IsString, NextLabel, DotAfter, Joined

\* What the scan writes for a label has the label's dots: the one behind it.
LEMMA ScanDots ==
  ASSUME NEW s, IsString(s)
  PROVE  Dots(s) = Dots(DotAfter(s)) + Dots(AfterLabel(s))
  <1>1. /\ IsString(NextLabel(s)) /\ IsString(DotAfter(s)) /\ IsString(AfterLabel(s))
        /\ Dots(NextLabel(s)) = 0
        /\ s = Joined(NextLabel(s), DotAfter(s), AfterLabel(s))
    BY Scan, NoDots
  <1>2. Dots(Joined(NextLabel(s), DotAfter(s), AfterLabel(s)))
          = Dots(NextLabel(s)) + Dots(DotAfter(s)) + Dots(AfterLabel(s))
    BY <1>1, DotsJoined
  <1>3. Dots(DotAfter(s)) \in Nat
    BY <1>1, NoDots
  <1> QED
    BY <1>1, <1>2, <1>3

\* Begins a label: nothing before it, or a dot.
Ended(s) == s = <<>> \/ s[Len(s)] = Dot

LEMMA LabelsAre ==
  ASSUME NEW s, NEW n, NEW x
  PROVE  x \in LabelsAt(s, n) <=>
           \E j \in LabelBegins(s, n) : \E k \in LabelEnds(s, j) : x = SubSeq(s, j, k)
  <1> DEFINE labels == {{SubSeq(s, j, k) : k \in LabelEnds(s, j)} : j \in LabelBegins(s, n)}
  <1>1. LabelsAt(s, n) = UNION labels
    BY DEF LabelsAt
  <1>2. ASSUME x \in UNION labels
        PROVE  \E j \in LabelBegins(s, n) : \E k \in LabelEnds(s, j) : x = SubSeq(s, j, k)
    <2>1. PICK T \in labels : x \in T
      <3> HIDE DEF labels
      <3> QED
        BY <1>2
    <2>2. PICK j \in LabelBegins(s, n) : T = {SubSeq(s, j, k) : k \in LabelEnds(s, j)}
      BY Zenon
    <2> QED
      BY <2>1, <2>2, Zenon
  <1>3. ASSUME NEW j \in LabelBegins(s, n), NEW k \in LabelEnds(s, j), x = SubSeq(s, j, k)
        PROVE  x \in UNION labels
    <2> DEFINE T == {SubSeq(s, j, e) : e \in LabelEnds(s, j)}
    <2>1. x \in T
      BY <1>3, Zenon
    <2>2. T \in labels
      BY Zenon
    <2> HIDE DEF labels, T
    <2> QED
      BY <2>1, <2>2
  <1> QED
    BY <1>1, <1>2, <1>3

LEMMA PrefixOf ==
  ASSUME NEW s, NEW t, IsString(s), IsString(t), Len(s) <= Len(t),
         \A i \in 1 .. Len(s) : t[i] = s[i],
         NEW j \in Nat \ {0}, NEW k \in Nat, k <= Len(s), j <= k + 1
  PROVE  SubSeq(t, j, k) = SubSeq(s, j, k)
  <1> SUFFICES ASSUME NEW S, s \in Seq(S), t \in Seq(S)
               PROVE  SubSeq(t, j, k) = SubSeq(s, j, k)
    BY OneAlphabet
  <1>0. Len(s) \in Nat /\ Len(t) \in Nat
    OBVIOUS
  <1>1. /\ j \in 1 .. Len(s) + 1 /\ k \in j - 1 .. Len(s)
        /\ j \in 1 .. Len(t) + 1 /\ k \in j - 1 .. Len(t)
    BY <1>0
  <1>2. /\ SubSeq(s, j, k) \in Seq(S) /\ Len(SubSeq(s, j, k)) = k - j + 1
        /\ \A i \in 1 .. k - j + 1 : SubSeq(s, j, k)[i] = s[j + i - 1]
    BY <1>1, SubSeqOf
  <1>3. /\ SubSeq(t, j, k) \in Seq(S) /\ Len(SubSeq(t, j, k)) = k - j + 1
        /\ \A i \in 1 .. k - j + 1 : SubSeq(t, j, k)[i] = t[j + i - 1]
    BY <1>1, SubSeqOf
  <1>4. \A i \in 1 .. k - j + 1 : j + i - 1 \in 1 .. Len(s)
    BY <1>0, <1>1
  <1> QED
    BY <1>2, <1>3, <1>4, SeqEqual, ZenonT(60)

LEMMA JoinedProperties ==
  ASSUME NEW s, NEW l, NEW d, IsString(s), IsString(l), IsString(d)
  PROVE  /\ IsString(Joined(s, l, d))
         /\ Len(Joined(s, l, d)) = Len(s) + Len(l) + Len(d)
         /\ \A i \in 1 .. Len(s) : Joined(s, l, d)[i] = s[i]
         /\ \A i \in 1 .. Len(l) : Joined(s, l, d)[Len(s) + i] = l[i]
         /\ \A i \in 1 .. Len(d) : Joined(s, l, d)[Len(s) + Len(l) + i] = d[i]
  <1> DEFINE t == Joined(s, l, d)
  <1> HIDE DEF t
  <1> SUFFICES ASSUME NEW S, s \in Seq(S), l \in Seq(S), d \in Seq(S)
               PROVE  /\ t \in Seq(S)
                      /\ Len(t) = Len(s) + Len(l) + Len(d)
                      /\ \A i \in 1 .. Len(s) : t[i] = s[i]
                      /\ \A i \in 1 .. Len(l) : t[Len(s) + i] = l[i]
                      /\ \A i \in 1 .. Len(d) : t[Len(s) + Len(l) + i] = d[i]
    BY OneAlphabet, StringIsSeq DEF t
  <1> DEFINE sl == s \o l
  <1>0. Len(s) \in Nat /\ Len(l) \in Nat /\ Len(d) \in Nat
    OBVIOUS
  <1>1. /\ sl \in Seq(S) /\ Len(sl) = Len(s) + Len(l)
        /\ \A i \in 1 .. Len(s) + Len(l) :
             sl[i] = IF i <= Len(s) THEN s[i] ELSE l[i - Len(s)]
    BY ConcatProperties
  <1>a. t = sl \o d
    BY DEF Joined, t
  <1> HIDE DEF sl
  <1>2. /\ t \in Seq(S) /\ Len(t) = Len(sl) + Len(d)
        /\ \A i \in 1 .. Len(sl) + Len(d) :
             t[i] = IF i <= Len(sl) THEN sl[i] ELSE d[i - Len(sl)]
    <2>1. /\ sl \o d \in Seq(S) /\ Len(sl \o d) = Len(sl) + Len(d)
          /\ \A i \in 1 .. Len(sl) + Len(d) :
               (sl \o d)[i] = IF i <= Len(sl) THEN sl[i] ELSE d[i - Len(sl)]
      <3>1. sl \in Seq(S) /\ d \in Seq(S)
        BY <1>1
      <3> QED
        BY ONLY <3>1, ConcatProperties
    <2> QED
      BY <1>a, <2>1
  <1>3. \A i \in 1 .. Len(s) : t[i] = s[i]
    BY <1>0, <1>1, <1>2
  <1>4. ASSUME NEW i \in 1 .. Len(l)
        PROVE  t[Len(s) + i] = l[i]
    <2>1. Len(s) + i \in 1 .. Len(sl) /\ ~(Len(s) + i <= Len(s)) /\ Len(s) + i - Len(s) = i
      BY <1>0, <1>1
    <2> QED
      BY <1>0, <1>1, <1>2, <2>1
  <1>5. ASSUME NEW i \in 1 .. Len(d)
        PROVE  t[Len(s) + Len(l) + i] = d[i]
    <2>1. /\ Len(sl) + i \in 1 .. Len(sl) + Len(d) /\ ~(Len(sl) + i <= Len(sl))
          /\ Len(sl) + i - Len(sl) = i
      BY <1>0, <1>1
    <2> QED
      BY <1>1, <1>2, <2>1, SMTT(60)
  <1> QED
    BY <1>0, <1>1, <1>2, <1>3, <1>4, <1>5

\* A label and perhaps a dot are put behind a string that has ended: its labels
\* stay, and there is one more, and an empty one behind the dot.
LEMMA LabelsExtended ==
  ASSUME NEW s, NEW l, NEW d, IsString(s), IsString(l), IsString(d),
         Ended(s), ~Contains(l, Dot), d \in {<<>>, <<Dot>>},
         NEW n, NEW x \in LabelsAt(Joined(s, l, d), n)
  PROVE  \/ n < Dots(s) /\ x \in LabelsAt(s, n)
         \/ n = Dots(s) /\ x = l
         \/ n = Dots(s) + 1 /\ d = <<Dot>> /\ x = <<>>
  <1> DEFINE t == Joined(s, l, d)
  <1>0. IsString(t)
    BY JoinedProperties
  <1> SUFFICES ASSUME NEW S, s \in Seq(S), l \in Seq(S), t \in Seq(S)
               PROVE  \/ n < Dots(s) /\ x \in LabelsAt(s, n)
                      \/ n = Dots(s) /\ x = l
                      \/ n = Dots(s) + 1 /\ d = <<Dot>> /\ x = <<>>
    <2> HIDE DEF t
    <2> QED
      BY <1>0, OneAlphabet
  <1>1. /\ t \in Seq(S) /\ Len(t) = Len(s) + Len(l) + Len(d)
        /\ \A i \in 1 .. Len(s) : t[i] = s[i]
        /\ \A i \in 1 .. Len(l) : t[Len(s) + i] = l[i]
        /\ \A i \in 1 .. Len(d) : t[Len(s) + Len(l) + i] = d[i]
    <2>1. t \in Seq(S)
      OBVIOUS
    <2>2. IsString(s) /\ IsString(l) /\ IsString(d)
      OBVIOUS
    <2> QED
      BY ONLY <2>1, <2>2, JoinedProperties
  <1> HIDE DEF t
  <1>2. /\ Len(s) \in Nat /\ Len(l) \in Nat /\ Len(d) \in {0, 1}
        /\ Len(d) = 0 \/ d = <<Dot>>
    OBVIOUS
  <1>3. PICK j \in LabelBegins(t, n) : \E k \in LabelEnds(t, j) : x = SubSeq(t, j, k)
    <2>1. x \in LabelsAt(t, n) <=>
            \E j \in LabelBegins(t, n) : \E k \in LabelEnds(t, j) : x = SubSeq(t, j, k)
      BY ONLY LabelsAre
    <2>2. x \in LabelsAt(t, n)
      BY DEF t
    <2> QED
      BY ONLY <2>1, <2>2
  <1>a. PICK k \in LabelEnds(t, j) : x = SubSeq(t, j, k)
    BY <1>3
  <1>b. /\ j \in 1 .. Len(t) + 1
        /\ j = 1 \/ t[j - 1] = Dot
        /\ Dots(SubSeq(t, 1, j - 1)) = n
    BY DEF LabelBegins
  <1>c. /\ k \in j - 1 .. Len(t)
        /\ k = Len(t) \/ t[k + 1] = Dot
        /\ \A i \in j .. k : t[i] # Dot
    BY DEF LabelEnds
  <1>4. Dots(t) = Dots(s) + Dots(l) + Dots(d) /\ Dots(l) = 0
    BY DotsJoined, NoDots DEF t
  <1>5. \A i \in 1 .. Len(l) : t[Len(s) + i] # Dot
    BY <1>1 DEF Contains
  <1>6. j \in Nat \ {0} /\ k \in Nat /\ j <= k + 1
    BY <1>1, <1>2, <1>b, <1>c
  <1>7. CASE j <= Len(s)
    <2>1. s[Len(s)] = Dot /\ Len(s) > 0
      BY <1>2, <1>6, <1>7 DEF Ended
    <2>2. k < Len(s)
      <3> SUFFICES ASSUME k >= Len(s)
                   PROVE  FALSE
        BY <1>2, <1>6
      <3>1. Len(s) \in j .. k /\ Len(s) \in 1 .. Len(s)
        BY <1>2, <1>6, <1>7, <2>1
      <3> QED
        BY <1>1, <1>c, <2>1, <3>1
    <2>3. x = SubSeq(s, j, k) /\ SubSeq(t, 1, j - 1) = SubSeq(s, 1, j - 1)
      <3>1. Len(s) <= Len(t)
        BY <1>1, <1>2
      <3>3. SubSeq(t, j, k) = SubSeq(s, j, k)
        <4>1. IsString(t) /\ IsString(s) /\ \A i \in 1 .. Len(s) : t[i] = s[i]
          BY <1>0, <1>1 DEF t
        <4>2. k <= Len(s)
          BY <1>2, <1>6, <2>2
        <4> QED
          BY ONLY <1>6, <2>2, <3>1, <4>1, <4>2, PrefixOf
      <3>4. j - 1 \in Nat /\ j - 1 <= Len(s) /\ 1 <= j - 1 + 1 /\ 1 \in Nat \ {0}
        BY <1>2, <1>6, <1>7
      <3>5. SubSeq(t, 1, j - 1) = SubSeq(s, 1, j - 1)
        <4>1. IsString(t) /\ IsString(s) /\ \A i \in 1 .. Len(s) : t[i] = s[i]
          BY <1>0, <1>1 DEF t
        <4> QED
          BY ONLY <3>1, <3>4, <4>1, PrefixOf
      <3> QED
        BY <1>a, <1>b, <1>c, <3>3, <3>5
    <2>4. /\ j \in 1 .. Len(s) + 1 /\ k \in j - 1 .. Len(s)
          /\ j = 1 \/ s[j - 1] = Dot
          /\ k = Len(s) \/ s[k + 1] = Dot
          /\ \A i \in j .. k : s[i] # Dot
      <3>1. j \in 1 .. Len(s) + 1 /\ k \in j - 1 .. Len(s) /\ k # Len(t)
        BY <1>1, <1>2, <1>c, <1>6, <1>7, <2>2
      <3>2. j # 1 => j - 1 \in 1 .. Len(s)
        BY <1>2, <1>6, <1>7
      <3>3. k + 1 \in 1 .. Len(s)
        BY <1>2, <1>6, <2>2
      <3>4. ASSUME NEW i \in j .. k
            PROVE  s[i] # Dot
        <4>1. i \in 1 .. Len(s)
          BY <1>2, <1>6, <2>2
        <4> QED
          BY <1>1, <1>c, <4>1
      <3> QED
        BY <1>1, <1>b, <1>c, <3>1, <3>2, <3>3, <3>4
    <2>5. x \in LabelsAt(s, n)
      <3>1. j \in LabelBegins(s, n)
        BY <1>b, <2>3, <2>4 DEF LabelBegins
      <3>2. k \in LabelEnds(s, j)
        BY <2>4 DEF LabelEnds
      <3> QED
        BY <2>3, <3>1, <3>2, LabelsAre
    <2>6. n < Dots(s)
      <3> DEFINE front == SubSeq(s, 1, j - 1)
                 back == SubSeq(s, j, Len(s))
      <3>1. front \in Seq(S) /\ back \in Seq(S) /\ Len(back) = Len(s) - j + 1
            /\ back[Len(s) - j + 1] = s[Len(s)]
        <4>1. j \in 1 .. Len(s) + 1 /\ Len(s) \in j - 1 .. Len(s)
              /\ Len(s) - j + 1 \in 1 .. Len(s) - j + 1 /\ j + (Len(s) - j + 1) - 1 = Len(s)
          BY <1>2, <1>6, <1>7
        <4>2. back \in Seq(S) /\ Len(back) = Len(s) - j + 1
              /\ \A i \in 1 .. Len(s) - j + 1 : back[i] = s[j + i - 1]
          BY <4>1, SubSeqOf
        <4>3. front \in Seq(S)
          BY <1>2, <1>6, <1>7
        <4> HIDE DEF front, back
        <4> QED
          BY <4>1, <4>2, <4>3
      <3>2. s = front \o back
        <4>1. /\ 1 \in 1 .. Len(s) + 1 /\ j - 1 \in 1 - 1 .. Len(s)
              /\ Len(s) \in j - 1 .. Len(s) /\ j - 1 + 1 = j
          BY <1>2, <1>6, <1>7
        <4>2. SubSeq(s, 1, j - 1) \o SubSeq(s, j - 1 + 1, Len(s)) = SubSeq(s, 1, Len(s))
          BY <4>1, ConcatAdjacentSubSeq
        <4>3. SubSeq(s, 1, Len(s)) = s
          BY SubSeqFull
        <4> QED
          BY <4>1, <4>2, <4>3
      <3> HIDE DEF front, back
      <3>3. Contains(back, Dot)
        BY <1>2, <1>6, <1>7, <2>1, <3>1 DEF Contains
      <3>4. Dots(s) = Dots(front) + Dots(back)
        <4>1. Dots(front \o back) = Dots(front) + Dots(back)
          BY <3>1, StringIsSeq, DotsConcat
        <4> QED
          BY <3>2, <4>1
      <3>5. Dots(front) \in Nat /\ Dots(back) \in Nat /\ Dots(back) >= 1
        BY <3>1, <3>3, StringIsSeq, NoDots
      <3> QED
        <4>1. Dots(front) = n
          BY <1>b, <2>3 DEF front
        <4> QED
          BY <3>4, <3>5, <4>1
    <2> QED
      BY <2>5, <2>6
  <1>8. CASE j = Len(s) + 1
    <2>1. k = Len(s) + Len(l)
      <3>1. ASSUME k < Len(s) + Len(l)
            PROVE  FALSE
        <4>1. k + 1 - Len(s) \in 1 .. Len(l) /\ Len(s) + (k + 1 - Len(s)) = k + 1
          BY <1>1, <1>2, <1>a, <1>b, <1>c, <1>6, <1>8, <3>1
        <4>2. k # Len(t)
          BY <1>1, <1>2, <3>1
        <4> QED
          BY <1>a, <1>b, <1>c, <1>5, <4>1, <4>2
      <3>2. ASSUME k > Len(s) + Len(l)
            PROVE  FALSE
        <4>1. Len(d) = 1 /\ d[1] = Dot /\ k = Len(s) + Len(l) + 1 /\ k \in j .. k /\ 1 \in 1 .. Len(d)
          <5>1. k <= Len(t) /\ Len(t) = Len(s) + Len(l) + Len(d)
            BY <1>1, <1>2, <1>c, <1>6
          <5>2. Len(d) = 1
            BY <1>2, <1>6, <3>2, <5>1
          <5>3. d = <<Dot>>
            BY <1>2, <5>2
          <5>4. k = Len(s) + Len(l) + 1 /\ k \in j .. k
            BY ONLY <1>2, <1>6, <1>8, <3>2, <5>1, <5>2
          <5> QED
            BY <5>2, <5>3, <5>4
        <4>2. t[k] = Dot
          BY <1>1, <4>1
        <4> QED
          BY <1>a, <1>b, <1>c, <4>1, <4>2
      <3> QED
        <4>1. Len(s) + Len(l) \in Nat
          BY <1>2
        <4> QED
          BY ONLY <1>6, <3>1, <3>2, <4>1
    <2>2. x = l
      <3>1. j \in 1 .. Len(t) + 1 /\ k \in j - 1 .. Len(t) /\ k - j + 1 = Len(l)
        BY <1>1, <1>2, <1>a, <1>b, <1>c, <1>8, <2>1
      <3>2. /\ x \in Seq(S) /\ Len(x) = Len(l)
            /\ \A i \in 1 .. Len(l) : x[i] = t[j + i - 1]
        <4>0. t \in Seq(S)
          BY <1>1
        <4>1. /\ SubSeq(t, j, k) \in Seq(S) /\ Len(SubSeq(t, j, k)) = k - j + 1
              /\ \A i \in 1 .. k - j + 1 : SubSeq(t, j, k)[i] = t[j + i - 1]
          BY ONLY <3>1, <4>0, SubSeqOf
        <4> QED
          BY <1>a, <3>1, <4>1
      <3>3. \A i \in 1 .. Len(l) : j + i - 1 = Len(s) + i
        BY <1>2, <1>8
      <3> QED
        <4>1. \A i \in 1 .. Len(l) : x[i] = l[i]
          BY <1>1, <3>2, <3>3
        <4> QED
          BY <3>2, <4>1, SeqEqual
    <2>3. n = Dots(s)
      <3>1. SubSeq(t, 1, Len(s)) = SubSeq(s, 1, Len(s))
        <4>1. Len(s) <= Len(t) /\ Len(s) <= Len(s) /\ 1 <= Len(s) + 1 /\ 1 \in Nat \ {0}
          BY <1>1, <1>2
        <4> QED
          BY <1>1, <1>2, <4>1, PrefixOf
      <3>2. SubSeq(s, 1, Len(s)) = s /\ j - 1 = Len(s)
        BY <1>2, <1>8, SubSeqFull
      <3> QED
        BY <1>a, <1>b, <1>c, <3>1, <3>2
    <2> QED
      BY <2>2, <2>3
  <1>9. CASE j > Len(s) + 1
    <2>1. t[j - 1] = Dot
      BY <1>2, <1>a, <1>b, <1>c, <1>9
    <2>2. j - 1 > Len(s) + Len(l)
      <3> SUFFICES ASSUME j - 1 <= Len(s) + Len(l)
                   PROVE  FALSE
        BY <1>2, <1>6
      <3>1. j - 1 - Len(s) \in 1 .. Len(l) /\ Len(s) + (j - 1 - Len(s)) = j - 1
        BY <1>2, <1>6, <1>9
      <3> QED
        BY <1>5, <2>1, <3>1
    <2>3. d = <<Dot>> /\ j - 1 = Len(t) /\ k = Len(t)
      <3>1. /\ j - 1 <= Len(t) /\ k >= j - 1 /\ k <= Len(t)
            /\ Len(t) = Len(s) + Len(l) + Len(d)
        BY <1>1, <1>2, <1>b, <1>c, <1>6
      <3>2. Len(d) = 1 /\ j - 1 = Len(t) /\ k = Len(t)
        <4>1. Len(s) \in Nat /\ Len(l) \in Nat /\ Len(d) \in {0, 1}
          BY <1>2
        <4>2. j \in Int /\ k \in Int
          BY <1>6
        <4> QED
          <5>1. CASE Len(d) = 0
            BY ONLY <2>2, <3>1, <4>1, <4>2, <5>1
          <5>2. CASE Len(d) = 1
            <6>1. Len(t) = Len(s) + Len(l) + 1 /\ Len(t) \in Int
              BY ONLY <3>1, <4>1, <5>2
            <6>2. j - 1 = Len(t)
              BY ONLY <2>2, <3>1, <4>1, <4>2, <6>1
            <6> QED
              BY ONLY <3>1, <4>2, <5>2, <6>1, <6>2
          <5> QED
            BY ONLY <4>1, <5>1, <5>2
      <3> QED
        BY <1>2, <3>2
    <2>4. x = <<>>
      <3>1. SubSeq(t, Len(t) + 1, Len(t)) = <<>>
        BY <1>1, SubSeqEmpty
      <3>2. j = Len(t) + 1
        BY <1>1, <1>6, <2>3
      <3> QED
        BY <1>a, <1>b, <1>c, <2>3, <3>1, <3>2
    <2>5. n = Dots(t)
      BY <1>1, <1>a, <1>b, <1>c, <2>3, SubSeqFull
    <2>6. Dots(d) = 1
      <3>1. {i \in DOMAIN d : d[i] = Dot} = {1}
        BY <2>3
      <3> QED
        BY <3>1, FS_Singleton DEF Dots
    <2> QED
      <3>1. Dots(s) \in Nat
        BY NoDots
      <3> QED
        BY <1>4, <2>3, <2>4, <2>5, <2>6, <3>1, SMTT(60)
  <1> QED
    BY <1>2, <1>6, <1>7, <1>8, <1>9

-----------------------------------------------------------------------------
(* The tables: an answer of ensure_tables() is one, and "true" is not      *)
(* taken back.                                                             *)
Answers == answer \in [Threads -> {"none", "true", "false"}]

LEMMA GrantedTells == ASSUME Answers, Granted PROVE Answers' /\ answer'[Caller] = "true"
  BY DomainAssumption DEF Granted, Decide, Tables!Decide, Tables!Grant, Answers

LEMMA RefusedTells ==
  ASSUME Answers, Refused
  PROVE  Answers' /\ answer[Caller] # "true" /\ answer'[Caller] # "true"
  BY DomainAssumption DEF Refused, Decide, Tables!Decide, Tables!Refuse, Answers

\* The other threads' answers are their own.
LEMMA OthersTell ==
  ASSUME Answers, OtherThreads
  PROVE  Answers' /\ answer'[Caller] = answer[Caller]
  <1>1. PICK t \in Threads \ {Caller} :
          Tables!Decide(t) \/ Tables!Grant(t) \/ Tables!Refuse(t)
    BY DEF OtherThreads
  <1> QED
    BY <1>1, DomainAssumption DEF Tables!Decide, Tables!Grant, Tables!Refuse, Answers

\* Whatever any call does to the tables.
TablesMove == Granted \/ Refused \/ OtherThreads \/ UNCHANGED tableVars

LEMMA NeverTakenBack ==
  ASSUME Answers, TablesMove
  PROVE  Answers' /\ (answer[Caller] = "true" => answer'[Caller] = "true")
  <1>1. CASE UNCHANGED tableVars
    BY <1>1 DEF tableVars, Answers
  <1> QED
    BY <1>1, GrantedTells, RefusedTells, OthersTell DEF TablesMove

-----------------------------------------------------------------------------
(* to_unicode().                                                           *)

\* TypeOK lets NoGoingBack through a step.
UnicodeIInv == TypeOK /\ NoGoingBack

LEMMA UnicodeInit == ASSUME Idle, Tables!Init PROVE UnicodeIInv /\ Answers
  <1>1. kept = <<>> /\ answer = [t \in Threads |-> "none"]
    BY DEF Idle, Tables!Init
  <1>2. /\ ~Contains(kept, "decoded")
        /\ kept \in Seq({"kept", "refused", "decoded"})
        /\ DOMAIN kept = {}
    BY <1>1 DEF Contains
  <1>3. NoGoingBack
    BY <1>2, Zenon DEF NoGoingBack
  <1> QED
    BY <1>1, <1>2, <1>3 DEF Idle, UnicodeIInv, TypeOK, Answers

\* A step of something else.
LEMMA UnicodeStays ==
  ASSUME UnicodeIInv, Answers, UNCHANGED callVars, TablesMove
  PROVE  UnicodeIInv' /\ Answers'
  BY NeverTakenBack DEF callVars, UnicodeIInv, TypeOK, NoGoingBack

LEMMA UnicodeCall ==
  ASSUME UnicodeIInv, Answers, NEW s, Call(s)
  PROVE  UnicodeIInv' /\ Answers'
  BY ZenonT(60) DEF Call, tableVars, UnicodeIInv, TypeOK, NoGoingBack, Answers

\* A label is written, and nothing was refused to a thread that was granted.
LEMMA WriteKeeps ==
  ASSUME UnicodeIInv, NEW label, NEW how \in {"kept", "refused", "decoded"},
         Write(label, how),
         how = "decoded" \/ answer[Caller] = "true" => answer'[Caller] = "true",
         how = "refused" => answer[Caller] # "true"
  PROVE  UnicodeIInv'
  <1>1. kept \in Seq({"kept", "refused", "decoded"}) /\ kept' = Append(kept, how)
    BY DEF UnicodeIInv, TypeOK, Write
  <1>2. /\ kept' \in Seq({"kept", "refused", "decoded"})
        /\ Len(kept') = Len(kept) + 1
        /\ kept'[Len(kept) + 1] = how
        /\ \A j \in 1 .. Len(kept) : kept'[j] = kept[j]
    BY <1>1
  <1>3. Contains(kept', "decoded") => answer'[Caller] = "true"
    BY <1>1, <1>2 DEF Contains, UnicodeIInv, TypeOK
  <1>4. NoGoingBack'
    <2> SUFFICES ASSUME NEW j \in DOMAIN kept', NEW k \in DOMAIN kept',
                        j < k, kept'[j] = "decoded"
                 PROVE  kept'[k] # "refused"
      BY DEF NoGoingBack
    <2>1. j \in 1 .. Len(kept) /\ k \in 1 .. Len(kept) + 1
      BY <1>1, <1>2
    <2>2. kept[j] = "decoded" /\ Contains(kept, "decoded")
      BY <1>2, <2>1 DEF Contains
    <2>3. CASE k \in 1 .. Len(kept)
      BY <1>1, <1>2, <2>1, <2>2, <2>3 DEF UnicodeIInv, NoGoingBack
    <2>4. CASE k = Len(kept) + 1
      BY <1>2, <2>2, <2>4 DEF UnicodeIInv, TypeOK
    <2> QED
      BY <2>1, <2>3, <2>4
  <1> QED
    BY <1>2, <1>3, <1>4 DEF UnicodeIInv, TypeOK, Write

LEMMA UnicodeStep == ASSUME UnicodeIInv, Answers, Step PROVE UnicodeIInv' /\ Answers'
  <1>1. CASE KeepLabel
    <2>1. UNCHANGED tableVars /\ Write(NextLabel(rest), "kept")
      BY <1>1 DEF KeepLabel
    <2>2. answer' = answer /\ Answers'
      BY <2>1 DEF tableVars, Answers
    <2> QED
      BY <2>1, <2>2, WriteKeeps
  <1>2. CASE DecodeLabel
    <2> DEFINE label == NextLabel(rest)
    <2>1. CASE Granted /\ Write(Decoded(label), "decoded")
      BY <2>1, GrantedTells, WriteKeeps
    <2>2. CASE Granted /\ Write(label, "kept")
      BY <2>2, GrantedTells, WriteKeeps
    <2>3. CASE Refused /\ Write(WithoutTables(label), "refused")
      BY <2>3, RefusedTells, WriteKeeps
    <2> QED
      BY <1>2, <2>1, <2>2, <2>3 DEF DecodeLabel
  <1>3. CASE Finish
    BY <1>3 DEF Finish, tableVars, UnicodeIInv, TypeOK, NoGoingBack, Answers
  <1> QED
    BY <1>1, <1>2, <1>3 DEF Step

LEMMA UnicodeMoves == Step => TablesMove
  BY DEF Step, KeepLabel, DecodeLabel, Finish, TablesMove

-----------------------------------------------------------------------------
(* The labels of to_unicode()'s answer.                                    *)

\* A label is left as it is, or it is the encoding of one that passed every check.
MayBecome(given, answered) ==
  \/ answered = given
  \/ Encoded(given) /\ Accepted(given) /\ answered = Decoded(given)

SameLabels(s, t) ==
  /\ Dots(t) = Dots(s)
  /\ \A n \in 0 .. Dots(s) :
       \A given \in LabelsAt(s, n), answered \in LabelsAt(t, n) : MayBecome(given, answered)

\* What is out so far has the labels of what the scan has passed, and unless that is
\* all, both have ended with a dot.
LabelIInv ==
  /\ pc # "idle" => source \in Inputs
  /\ pc = "labels" =>
       \E passed :
         /\ IsString(passed) /\ IsString(rest) /\ IsString(out)
         /\ source = passed \o rest
         /\ SameLabels(passed, out)
         /\ rest # <<>> => Ended(passed) /\ Ended(out)
  /\ pc = "done" /\ ok => SameLabels(source, out)

LEMMA NoLabelsYet == SameLabels(<<>>, <<>>)
  <1>2. \A n : \A x \in LabelsAt(<<>>, n) : x = <<>>
    <2> SUFFICES ASSUME NEW n, NEW x \in LabelsAt(<<>>, n)
                 PROVE  x = <<>>
      OBVIOUS
    <2>1. x \in LabelsAt(<<>>, n) <=>
            \E j \in LabelBegins(<<>>, n) : \E k \in LabelEnds(<<>>, j) : x = SubSeq(<<>>, j, k)
      BY LabelsAre
    <2>2. PICK j \in LabelBegins(<<>>, n) : \E k \in LabelEnds(<<>>, j) : x = SubSeq(<<>>, j, k)
      BY <2>1
    <2>3. PICK k \in LabelEnds(<<>>, j) : x = SubSeq(<<>>, j, k)
      BY <2>2
    <2>4. j \in 1 .. 1 /\ k \in j - 1 .. 0
      BY DEF LabelBegins, LabelEnds
    <2>5. j = 1 /\ k = 0
      BY <2>4
    <2> QED
      BY <2>3, <2>5
  <1> QED
    BY <1>2 DEF SameLabels, MayBecome

LEMMA SameLabelsExtended ==
  ASSUME NEW p, NEW q, NEW l, NEW w, NEW d,
         IsString(p), IsString(q), IsString(l), IsString(w), d \in {<<>>, <<Dot>>},
         Ended(p), Ended(q), SameLabels(p, q), MayBecome(l, w),
         ~Contains(l, Dot), ~Contains(w, Dot),
         NEW t, t = Joined(p, l, d), NEW u, u = Joined(q, w, d)
  PROVE  /\ SameLabels(t, u)
         /\ d = <<Dot>> => Ended(t) /\ Ended(u)
  <1>0. IsString(p) /\ IsString(q) /\ IsString(l) /\ IsString(w) /\ IsString(d)
    BY ShortStrings
  <1>1. /\ IsString(t) /\ IsString(u)
        /\ Len(t) = Len(p) + Len(l) + Len(d) /\ Len(u) = Len(q) + Len(w) + Len(d)
        /\ \A i \in 1 .. Len(d) : t[Len(p) + Len(l) + i] = d[i]
        /\ \A i \in 1 .. Len(d) : u[Len(q) + Len(w) + i] = d[i]
    <2>1. t = Joined(p, l, d) /\ u = Joined(q, w, d)
      OBVIOUS
    <2> QED
      BY ONLY <1>0, <2>1, JoinedProperties
  <1>2. Dots(t) = Dots(u)
    <2>1. /\ Dots(t) = Dots(p) + Dots(l) + Dots(d)
          /\ Dots(u) = Dots(q) + Dots(w) + Dots(d)
      BY <1>0, DotsJoined
    <2>2. Dots(l) = 0 /\ Dots(w) = 0
      BY <1>0, NoDots
    <2> QED
      BY <2>1, <2>2 DEF SameLabels
  <1>3. Dots(p) = Dots(q) /\ Dots(p) \in Nat
    BY <1>0, NoDots DEF SameLabels
  <1>4. ASSUME NEW n \in 0 .. Dots(t), NEW given \in LabelsAt(t, n),
               NEW answered \in LabelsAt(u, n)
        PROVE  MayBecome(given, answered)
    <2>1. \/ n < Dots(p) /\ given \in LabelsAt(p, n)
          \/ n = Dots(p) /\ given = l
          \/ n = Dots(p) + 1 /\ d = <<Dot>> /\ given = <<>>
      <3>1. /\ IsString(p) /\ IsString(l) /\ IsString(d) /\ Ended(p) /\ ~Contains(l, Dot)
            /\ d \in {<<>>, <<Dot>>} /\ given \in LabelsAt(Joined(p, l, d), n)
        BY <1>0
      <3> QED
        BY ONLY <3>1, LabelsExtended
    <2>2. \/ n < Dots(q) /\ answered \in LabelsAt(q, n)
          \/ n = Dots(q) /\ answered = w
          \/ n = Dots(q) + 1 /\ d = <<Dot>> /\ answered = <<>>
      <3>1. /\ IsString(q) /\ IsString(w) /\ IsString(d) /\ Ended(q) /\ ~Contains(w, Dot)
            /\ d \in {<<>>, <<Dot>>} /\ answered \in LabelsAt(Joined(q, w, d), n)
        BY <1>0
      <3> QED
        BY ONLY <3>1, LabelsExtended
    <2>0. n \in Int /\ n >= 0
      <3>1. Dots(t) \in Nat
        BY <1>1, NoDots
      <3> QED
        BY <3>1
    <2>3. CASE n < Dots(p)
      <3>1. given \in LabelsAt(p, n) /\ answered \in LabelsAt(q, n) /\ n \in 0 .. Dots(p)
        BY ONLY <1>3, <2>0, <2>1, <2>2, <2>3
      <3> QED
        BY <3>1 DEF SameLabels
    <2>4. CASE n = Dots(p)
      <3>1. given = l /\ answered = w
        BY ONLY <1>3, <2>0, <2>1, <2>2, <2>4
      <3> QED
        BY <3>1
    <2>5. CASE n = Dots(p) + 1
      <3>1. given = <<>> /\ answered = <<>>
        BY ONLY <1>3, <2>0, <2>1, <2>2, <2>5
      <3> QED
        BY <3>1 DEF MayBecome
    <2> QED
      BY <2>1, <2>3, <2>4, <2>5
  <1>5. ASSUME d = <<Dot>>
        PROVE  Ended(t) /\ Ended(u)
    <2>1. Len(d) = 1 /\ d[1] = Dot
      BY <1>5
    <2>2. t[Len(t)] = Dot /\ u[Len(u)] = Dot
      BY <1>1, <2>1
    <2> QED
      BY <2>2 DEF Ended
  <1>6. SameLabels(t, u)
    BY <1>2, <1>4 DEF SameLabels
  <1> QED
    BY <1>5, <1>6

LEMMA JoinedMoves ==
  ASSUME NEW s, NEW t, NEW u, NEW v,
         IsString(s), IsString(t), IsString(u), IsString(v),
         NEW back, back = Joined(t, u, v), NEW front, front = Joined(s, t, u)
  PROVE  s \o back = front \o v
  <1>1. PICK S : s \in Seq(S) /\ t \in Seq(S) /\ u \in Seq(S)
    BY OneAlphabet
  <1>2. IsString(s \o t) /\ IsString(t \o u) /\ IsString(t)
    BY Concatenated
  <1>3. s \o (t \o u) = (s \o t) \o u
    BY <1>1, ConcatAssociative, SMTT(60)
  <1>5. s \o ((t \o u) \o v) = (s \o (t \o u)) \o v
    <2> DEFINE tu == t \o u
    <2>1. IsString(tu)
      BY <1>2
    <2> HIDE DEF tu
    <2>2. PICK R : s \in Seq(R) /\ tu \in Seq(R) /\ v \in Seq(R)
      BY <2>1, OneAlphabet
    <2>3. s \o (tu \o v) = (s \o tu) \o v
      BY ONLY <2>2, ConcatAssociative, SMTT(60)
    <2> QED
      BY <2>3 DEF tu
  <1> QED
    BY <1>3, <1>5 DEF Joined

\* What the scan passes is a part of the string.
LEMMA SubSeqOfJoined ==
  ASSUME NEW s, NEW t, NEW u, IsString(s), IsString(t), IsString(u), t # <<>>
  PROVE  \E j, k \in DOMAIN Joined(s, t, u) : t = SubSeq(Joined(s, t, u), j, k)
  <1> DEFINE w == Joined(s, t, u)
             j == Len(s) + 1
             k == Len(s) + Len(t)
  <1>1. /\ IsString(w) /\ Len(w) = Len(s) + Len(t) + Len(u)
        /\ \A i \in 1 .. Len(t) : w[Len(s) + i] = t[i]
    BY JoinedProperties
  <1> HIDE DEF w
  <1> SUFFICES ASSUME NEW S, w \in Seq(S), s \in Seq(S), t \in Seq(S)
               PROVE  \E a, b \in DOMAIN w : t = SubSeq(w, a, b)
    BY <1>1, OneAlphabet DEF w
  <1>2. Len(s) \in Nat /\ Len(t) \in Nat \ {0} /\ Len(u) \in Nat
    BY DEF IsString
  <1>3. /\ j \in DOMAIN w /\ k \in DOMAIN w
        /\ j \in 1 .. Len(w) + 1 /\ k \in j - 1 .. Len(w) /\ k - j + 1 = Len(t)
    BY <1>1, <1>2
  <1>4. \A i \in 1 .. Len(t) : j + i - 1 = Len(s) + i
    BY <1>2
  <1> HIDE DEF j, k
  <1>5. /\ SubSeq(w, j, k) \in Seq(S) /\ Len(SubSeq(w, j, k)) = Len(t)
        /\ \A i \in 1 .. Len(t) : SubSeq(w, j, k)[i] = w[j + i - 1]
    <2>1. /\ SubSeq(w, j, k) \in Seq(S) /\ Len(SubSeq(w, j, k)) = k - j + 1
          /\ \A i \in 1 .. k - j + 1 : SubSeq(w, j, k)[i] = w[j + i - 1]
      BY <1>3, SubSeqOf
    <2> QED
      BY <1>3, <2>1
  <1>6. SubSeq(w, j, k) = t
    <2>1. \A i \in 1 .. Len(t) : SubSeq(w, j, k)[i] = t[i]
      BY <1>1, <1>4, <1>5
    <2> QED
      BY <1>5, <2>1, SeqEqual
  <1> QED
    BY <1>3, <1>6

LEMMA WriteLabel ==
  ASSUME LabelIInv, pc = "labels", rest # <<>>,
         NEW written, IsString(written), ~Contains(written, Dot),
         MayBecome(NextLabel(rest), written), NEW how, Write(written, how)
  PROVE  LabelIInv'
  <1> DEFINE label == NextLabel(rest)
             d     == DotAfter(rest)
             after == AfterLabel(rest)
  <1>1. PICK passed :
          /\ IsString(passed) /\ IsString(rest) /\ IsString(out)
          /\ source = passed \o rest /\ SameLabels(passed, out)
          /\ Ended(passed) /\ Ended(out)
    BY DEF LabelIInv
  <1>2. /\ IsString(label) /\ IsString(d) /\ IsString(after)
        /\ ~Contains(label, Dot) /\ d \in {<<>>, <<Dot>>}
        /\ d = <<>> => after = <<>>
        /\ rest = Joined(label, d, after)
    BY <1>1, Scan
  <1> HIDE DEF label, d, after
  <1>3. MayBecome(label, written)
    BY DEF label
  <1>4. PICK t : t = Joined(passed, label, d)
    OBVIOUS
  <1>5. /\ out' = Joined(out, written, d) /\ rest' = after
        /\ pc' = pc /\ source' = source
    BY DEF Write, Joined, d, after
  <1>6. SameLabels(t, out') /\ (d = <<Dot>> => Ended(t) /\ Ended(out'))
    BY ONLY <1>1, <1>2, <1>3, <1>4, <1>5, IsString(written), ~Contains(written, Dot),
            SameLabelsExtended
  <1>7. source' = t \o rest'
    <2>1. IsString(passed) /\ IsString(label) /\ IsString(d) /\ IsString(after)
      BY <1>1, <1>2
    <2>2. passed \o rest = t \o after
      <3>1. rest = Joined(label, d, after) /\ t = Joined(passed, label, d)
        BY <1>2, <1>4
      <3> QED
        BY ONLY <2>1, <3>1, JoinedMoves, SMTT(60)
    <2>3. source' = passed \o rest
      BY ONLY <1>1, <1>5
    <2> QED
      BY ONLY <1>5, <2>2, <2>3
  <1>8. IsString(t) /\ IsString(out') /\ IsString(rest')
    BY <1>1, <1>2, <1>4, <1>5, JoinedProperties
  <1> QED
    BY <1>2, <1>5, <1>6, <1>7, <1>8 DEF LabelIInv

LEMMA LabelStep == ASSUME LabelIInv, Step PROVE LabelIInv'
  <1> DEFINE label == NextLabel(rest)
  <1>1. ASSUME pc = "labels", rest # <<>>
        PROVE  /\ IsString(label) /\ ~Contains(label, Dot)
               /\ Encoded(label) /\ Decodes(label) =>
                    IsString(Decoded(label)) /\ ~Contains(Decoded(label), Dot)
    <2>1. PICK passed :
            IsString(passed) /\ IsString(rest) /\ source = passed \o rest
      BY <1>1 DEF LabelIInv
    <2>2. /\ IsString(label) /\ ~Contains(label, Dot) /\ IsString(DotAfter(rest))
          /\ IsString(AfterLabel(rest))
          /\ rest = Joined(label, DotAfter(rest), AfterLabel(rest))
      BY <2>1, Scan
    <2> HIDE DEF label
    <2> SUFFICES ASSUME Encoded(label), Decodes(label)
                 PROVE  IsString(Decoded(label)) /\ ~Contains(Decoded(label), Dot)
      BY <2>2
    <2>3. label # <<>> /\ source \in Inputs
      BY <1>1 DEF Encoded, is_ace_prefix, LabelIInv
    <2>4. PICK behind : behind = DotAfter(rest) \o AfterLabel(rest) /\ IsString(behind)
      BY <2>2, Concatenated
    <2>5. source = Joined(passed, label, behind)
      <3>1. Joined(label, DotAfter(rest), AfterLabel(rest)) = label \o behind
        <4>1. PICK S : /\ label \in Seq(S) /\ DotAfter(rest) \in Seq(S)
                       /\ AfterLabel(rest) \in Seq(S)
          BY <2>2, OneAlphabet
        <4> QED
          BY <2>4, <4>1, ConcatAssociative, SMTT(60) DEF Joined
      <3>2. PICK R : passed \in Seq(R) /\ label \in Seq(R) /\ behind \in Seq(R)
        BY <2>1, <2>2, <2>4, OneAlphabet
      <3> QED
        <4>1. passed \o (label \o behind) = (passed \o label) \o behind
          BY <3>2, ConcatAssociative, SMTT(60)
        <4>2. source = passed \o (label \o behind)
          <5>1. rest = label \o behind
            BY ONLY <2>2, <3>1
          <5> QED
            BY ONLY <2>1, <5>1
        <4> QED
          BY ONLY <4>1, <4>2 DEF Joined
    <2>6. PICK j \in DOMAIN source, k \in DOMAIN source : label = SubSeq(source, j, k)
      BY <2>1, <2>2, <2>3, <2>4, <2>5, SubSeqOfJoined
    <2> QED
      BY <2>2, <2>3, <2>6, DecodeAssumption
  <1>2. CASE KeepLabel
    BY <1>1, <1>2, WriteLabel DEF KeepLabel, MayBecome
  <1>3. CASE DecodeLabel
    <2>1. CASE Accepted(label) /\ Write(Decoded(label), "decoded")
      BY <1>1, <1>3, <2>1, WriteLabel DEF DecodeLabel, MayBecome
    <2>2. CASE Write(label, "kept")
      BY <1>1, <1>3, <2>2, WriteLabel DEF DecodeLabel, MayBecome
    <2>3. CASE Write(label, "refused")
      BY <1>1, <1>3, <2>3, WriteLabel DEF DecodeLabel, MayBecome
    <2> QED
      BY <1>3, <2>1, <2>2, <2>3 DEF DecodeLabel, WithoutTables
  <1>4. CASE Finish
    <2>1. PICK passed :
            IsString(passed) /\ IsString(rest) /\ source = passed \o rest /\ SameLabels(passed, out)
      BY <1>4 DEF Finish, LabelIInv
    <2>2. source = passed
      BY <1>4, <2>1 DEF Finish, IsString
    <2> QED
      BY <1>4, <2>1, <2>2 DEF Finish, LabelIInv
  <1> QED
    BY <1>2, <1>3, <1>4 DEF Step

LEMMA LabelCall == ASSUME LabelIInv, NEW s \in Inputs, Call(s) PROVE LabelIInv'
  <1>1. IsString(s) /\ IsString(<<>>)
    BY DecodeAssumption, ShortStrings
  <1>2. s = <<>> \o s
    BY <1>1 DEF IsString
  <1>3. Ended(<<>>)
    BY DEF Ended
  <1>4. source' = s /\ out' = <<>>
    BY DEF Call
  <1>5. CASE TooLong(s)
    BY <1>4, <1>5 DEF Call, LabelIInv
  <1>6. CASE ~TooLong(s)
    <2>1. pc' = "labels" /\ rest' = s
      BY <1>6 DEF Call
    <2> QED
      BY <1>1, <1>2, <1>3, <1>4, <2>1, NoLabelsYet DEF LabelIInv
  <1> QED
    BY <1>5, <1>6

\* to_unicode() answers, whatever becomes of the tables while it runs, with the
\* labels it was given, each of them as it was or, all checks passed, decoded.
THEOREM LabelByLabelAlways == Spec => []LabelByLabel
  <1>1. Init => LabelIInv
    BY DEF Init, Idle, LabelIInv
  <1>2. LabelIInv /\ [Next]_vars => LabelIInv'
    <2> SUFFICES ASSUME LabelIInv, [Next]_vars
                 PROVE  LabelIInv'
      OBVIOUS
    <2>1. CASE \E s \in Inputs : Call(s)
      BY <2>1, LabelCall
    <2>2. CASE Step
      BY <2>2, LabelStep
    <2>3. CASE Others \/ UNCHANGED vars
      <3>1. pc' = pc /\ source' = source /\ rest' = rest /\ out' = out /\ ok' = ok
        BY <2>3 DEF Others, vars, callVars
      <3> QED
        BY <3>1 DEF LabelIInv
    <2> QED
      BY <2>1, <2>2, <2>3 DEF Next
  <1>3. LabelIInv => LabelByLabel
    BY DEF LabelIInv, LabelByLabel, SameLabels, MayBecome, Accepted, Decodes, Stable,
           MappedToItself, Normal
  <1> QED
    BY <1>1, <1>2, <1>3, PTL DEF Spec

-----------------------------------------------------------------------------
(* to_ascii().                                                             *)
LEMMA SubSeqOfSuffix ==
  ASSUME NEW m, IsString(m), NEW p \in 1 .. Len(m) + 1,
         NEW r, r = SubSeq(m, p, Len(m)),
         NEW a \in 1 .. Len(r) + 1, NEW e \in a - 1 .. Len(r)
  PROVE  /\ IsString(r) /\ Len(r) = Len(m) - p + 1
         /\ SubSeq(r, a, e) = SubSeq(m, p + a - 1, p + e - 1)
  <1> SUFFICES ASSUME NEW S, m \in Seq(S)
               PROVE  /\ r \in Seq(S) /\ Len(r) = Len(m) - p + 1
                      /\ SubSeq(r, a, e) = SubSeq(m, p + a - 1, p + e - 1)
    BY StringIsSeq DEF IsString
  <1>0. Len(m) \in Nat /\ p \in Int /\ 1 <= p /\ p <= Len(m) + 1
    OBVIOUS
  <1>1. /\ r \in Seq(S) /\ Len(r) = Len(m) - p + 1
        /\ \A i \in 1 .. Len(m) - p + 1 : r[i] = m[p + i - 1]
    <2>1. Len(m) \in p - 1 .. Len(m)
      BY <1>0
    <2> QED
      BY <2>1, SubSeqOf, SMTT(60)
  <1>2. a \in Int /\ e \in Int /\ 1 <= a /\ a <= e + 1 /\ e <= Len(r)
    BY <1>0, <1>1
  <1>3. /\ SubSeq(r, a, e) \in Seq(S) /\ Len(SubSeq(r, a, e)) = e - a + 1
        /\ \A i \in 1 .. e - a + 1 : SubSeq(r, a, e)[i] = r[a + i - 1]
    BY <1>1, SubSeqOf, SMTT(60)
  <1> DEFINE f == p + a - 1
             g == p + e - 1
  <1>4. /\ f \in 1 .. Len(m) + 1 /\ g \in f - 1 .. Len(m) /\ g - f + 1 = e - a + 1
        /\ \A i \in 1 .. e - a + 1 : /\ a + i - 1 \in 1 .. Len(m) - p + 1
                                     /\ p + (a + i - 1) - 1 = f + i - 1
    BY <1>0, <1>1, <1>2
  <1> HIDE DEF f, g
  <1>5. /\ SubSeq(m, f, g) \in Seq(S) /\ Len(SubSeq(m, f, g)) = e - a + 1
        /\ \A i \in 1 .. e - a + 1 : SubSeq(m, f, g)[i] = m[f + i - 1]
    <2>1. /\ SubSeq(m, f, g) \in Seq(S) /\ Len(SubSeq(m, f, g)) = g - f + 1
          /\ \A i \in 1 .. g - f + 1 : SubSeq(m, f, g)[i] = m[f + i - 1]
      BY <1>4, SubSeqOf
    <2> QED
      BY <1>4, <2>1
  <1>6. \A i \in 1 .. e - a + 1 : SubSeq(r, a, e)[i] = SubSeq(m, f, g)[i]
    <2> TAKE i \in 1 .. e - a + 1
    <2>1. r[a + i - 1] = m[p + (a + i - 1) - 1]
      BY <1>1, <1>4
    <2> QED
      BY <1>3, <1>4, <1>5, <2>1
  <1>7. SubSeq(r, a, e) = SubSeq(m, f, g)
    BY <1>3, <1>5, <1>6, SeqEqual
  <1> QED
    BY <1>1, <1>7 DEF f, g

LEMMA LowerJoined ==
  ASSUME NEW s, NEW t, NEW u, IsString(s), IsString(t), IsString(u),
         IsLowerAscii(s), IsLowerAscii(t), IsLowerAscii(u)
  PROVE  IsLowerAscii(Joined(s, t, u))
  <1> DEFINE w == Joined(s, t, u)
  <1>1. /\ IsString(w) /\ Len(w) = Len(s) + Len(t) + Len(u)
        /\ \A i \in 1 .. Len(s) : w[i] = s[i]
        /\ \A i \in 1 .. Len(t) : w[Len(s) + i] = t[i]
        /\ \A i \in 1 .. Len(u) : w[Len(s) + Len(t) + i] = u[i]
    BY JoinedProperties
  <1> HIDE DEF w
  <1>2. /\ Len(s) \in Nat /\ Len(t) \in Nat /\ Len(u) \in Nat
        /\ DOMAIN s = 1 .. Len(s) /\ DOMAIN t = 1 .. Len(t) /\ DOMAIN u = 1 .. Len(u)
        /\ DOMAIN w = 1 .. Len(w)
    BY <1>1 DEF IsString
  <1>3. ASSUME NEW i \in DOMAIN w
        PROVE  Ascii(w[i]) /\ Lower(w[i]) = w[i]
    <2>0. i \in Int /\ 1 <= i /\ i <= Len(s) + Len(t) + Len(u)
      BY <1>1, <1>2
    <2>1. CASE i <= Len(s)
      <3>1. i \in DOMAIN s /\ w[i] = s[i]
        BY <1>1, <1>2, <2>0, <2>1
      <3> QED
        BY <3>1 DEF IsLowerAscii, ToSet
    <2>2. CASE i > Len(s) /\ i <= Len(s) + Len(t)
      <3>1. i - Len(s) \in 1 .. Len(t) /\ Len(s) + (i - Len(s)) = i
        BY <1>2, <2>0, <2>2
      <3>2. i - Len(s) \in DOMAIN t /\ w[i] = t[i - Len(s)]
        BY <1>1, <1>2, <3>1
      <3> QED
        BY <3>2 DEF IsLowerAscii, ToSet
    <2>3. CASE i > Len(s) + Len(t)
      <3>1. /\ i - (Len(s) + Len(t)) \in 1 .. Len(u)
            /\ Len(s) + Len(t) + (i - (Len(s) + Len(t))) = i
        BY <1>2, <2>0, <2>3
      <3>2. i - (Len(s) + Len(t)) \in DOMAIN u /\ w[i] = u[i - (Len(s) + Len(t))]
        BY <1>1, <1>2, <3>1
      <3> QED
        BY <3>2 DEF IsLowerAscii, ToSet
    <2> QED
      BY <1>2, <2>0, <2>1, <2>2, <2>3
  <1>4. IsLowerAscii(w)
    BY <1>3 DEF IsLowerAscii, ToSet
  <1> QED
    BY <1>4 DEF w

LEMMA LowerStrings ==
  /\ IsLowerAscii(<<>>) /\ IsLowerAscii(<<Dot>>) /\ IsLowerAscii(<<Ace>>)
  /\ ~Contains(<<>>, Dot) /\ ~Contains(<<Ace>>, Dot)
  <1>1. ToSet(<<>>) = {}
    BY DEF ToSet
  <1>2. ASSUME NEW c
        PROVE  ToSet(<<c>>) = {c}
    <2>1. DOMAIN <<c>> = {1} /\ <<c>>[1] = c
      OBVIOUS
    <2> QED
      BY <2>1 DEF ToSet
  <1> QED
    BY <1>1, <1>2, CalledAssumption, DomainAssumption DEF IsLowerAscii, Contains

\* The operators that an instance of ToAscii has from Domain are those of Domain.
LEMMA Same ==
  /\ (A!Granted <=> Granted) /\ (A!Refused <=> Refused)
  /\ (B!Granted <=> Granted) /\ (B!Refused <=> Refused)
  /\ \A s : /\ A!is_ascii(s) <=> is_ascii(s)
            /\ B!is_ascii(s) <=> is_ascii(s)
            /\ A!from_ascii_to_ascii(s) = from_ascii_to_ascii(s)
            /\ B!from_ascii_to_ascii(s) = from_ascii_to_ascii(s)
            /\ A!Mappable(s) <=> Mappable(s)
            /\ A!map(s) = map(s)
            /\ A!NextLabel(s) = NextLabel(s)
            /\ A!AfterLabel(s) = AfterLabel(s)
            /\ A!DotAfter(s) = DotAfter(s)
            /\ A!Dots(s) = Dots(s)
  <1>1. /\ (A!Granted <=> Granted) /\ (A!Refused <=> Refused)
        /\ (B!Granted <=> Granted) /\ (B!Refused <=> Refused)
    BY DEF A!Granted, A!Refused, A!Decide, A!Tables!Decide, A!Tables!Grant, A!Tables!Refuse,
           B!Granted, B!Refused, B!Decide, B!Tables!Decide, B!Tables!Grant, B!Tables!Refuse,
           Granted, Refused, Decide, Tables!Decide, Tables!Grant, Tables!Refuse
  <1>2. ASSUME NEW s
        PROVE  /\ A!is_ascii(s) <=> is_ascii(s)
               /\ B!is_ascii(s) <=> is_ascii(s)
               /\ A!from_ascii_to_ascii(s) = from_ascii_to_ascii(s)
               /\ B!from_ascii_to_ascii(s) = from_ascii_to_ascii(s)
               /\ A!Mappable(s) <=> Mappable(s)
    BY DEF A!is_ascii, B!is_ascii, is_ascii, A!from_ascii_to_ascii, B!from_ascii_to_ascii,
           from_ascii_to_ascii, A!Mappable, Mappable
  <1>3. ASSUME NEW s
        PROVE  A!map(s) = map(s)
    BY DEF A!map, map, A!FlattenSeq, FlattenSeq
  <1>4. ASSUME NEW s
        PROVE  A!LabelEnd(s) = LabelEnd(s) /\ (A!Contains(s, Dot) <=> Contains(s, Dot))
    BY DEF A!LabelEnd, LabelEnd, A!Contains, Contains, A!SelectInSeq, SelectInSeq, A!Min, Min
  <1>5. ASSUME NEW s
        PROVE  /\ A!NextLabel(s) = NextLabel(s)
               /\ A!AfterLabel(s) = AfterLabel(s)
               /\ A!DotAfter(s) = DotAfter(s)
    BY <1>4 DEF A!NextLabel, NextLabel, A!AfterLabel, AfterLabel, A!DotAfter, DotAfter
  <1>6. ASSUME NEW s
        PROVE  A!Dots(s) = Dots(s)
    BY DEF A!Dots, Dots, A!Cardinality, Cardinality
  <1> QED
    BY <1>1, <1>2, <1>3, <1>5, <1>6

\* What is written and what the scan has not passed have together the dots of the
\* mapped string, also while a label is half written; and what is written is lower-case ASCII, as an ASCII string made lower
\* case is: to_ascii() does not change it again.
Scanning == {"labels", "ace", "puny"}

AsciiIInv ==
  /\ A!TypeOK /\ A!FailureLeavesNothing
  /\ apc # "idle" => asource \in Inputs
  /\ apc \in {"map", "nfc"} \cup Scanning => ~is_ascii(asource)
  /\ apc \in {"map", "nfc"} => aout = <<>>
  /\ apc = "nfc" => Mappable(asource) /\ amapped = map(asource)
  /\ apc \in Scanning =>
       /\ Mappable(asource)
       /\ IsString(aout) /\ IsLowerAscii(aout)
       /\ Dots(aout) + Dots(amapped) = Dots(Mapped(asource))
       /\ \E p \in 1 .. Len(Mapped(asource)) + 1 :
            amapped = SubSeq(Mapped(asource), p, Len(Mapped(asource)))
  /\ apc = "puny" => NextLabel(amapped) # <<>>
  /\ apc = "done" /\ aok =>
       /\ IsString(aout) /\ IsLowerAscii(aout)
       /\ ~is_ascii(asource) => Dots(aout) = Dots(map(asource))

LEMMA AsciiInit == ASSUME A!Idle PROVE AsciiIInv
  BY DEF A!Idle, AsciiIInv, Scanning, A!TypeOK, A!FailureLeavesNothing

LEMMA AsciiStays ==
  ASSUME AsciiIInv, Answers, UNCHANGED aVars, TablesMove
  PROVE  AsciiIInv'
  BY NeverTakenBack DEF aVars, AsciiIInv, Scanning, A!TypeOK, A!FailureLeavesNothing

LEMMA AsciiCall ==
  ASSUME AsciiIInv, NEW s \in Inputs, A!Call(s)
  PROVE  AsciiIInv'
  <1>1. /\ IsString(s)
        /\ \A c \in ToSet(s) : Ascii(c) => Ascii(Lower(c)) /\ Lower(Lower(c)) = Lower(c)
    BY DecodeAssumption, CalledAssumption
  <1>2. CASE is_ascii(s)
    <2>1. aout' = from_ascii_to_ascii(s) /\ apc' = "done" /\ aok' = TRUE /\ asource' = s
      BY <1>2, Same DEF A!Call, A!FastPath, A!Return
    <2>2. \A j \in DOMAIN s : /\ Ascii(Lower(s[j]))
                              /\ Lower(Lower(s[j])) = Lower(s[j])
      BY <1>1, <1>2 DEF is_ascii, ToSet
    <2>3. IsString(from_ascii_to_ascii(s))
      <3>1. Len(s) \in Nat /\ DOMAIN s = 1 .. Len(s)
        BY <1>1 DEF IsString
      <3>2. from_ascii_to_ascii(s) = [j \in 1 .. Len(s) |-> Lower(s[j])]
        BY <3>1 DEF from_ascii_to_ascii
      <3>3. from_ascii_to_ascii(s) \in Seq({Lower(s[j]) : j \in 1 .. Len(s)})
        BY <3>1, <3>2, IsASeq
      <3> QED
        BY <3>3, StringIsSeq
    <2>4. IsLowerAscii(from_ascii_to_ascii(s))
      BY <2>2 DEF IsLowerAscii, ToSet, from_ascii_to_ascii
    <2> QED
      BY <1>2, <2>1, <2>3, <2>4 DEF AsciiIInv, Scanning, A!TypeOK, A!FailureLeavesNothing
  <1>3. CASE ~is_ascii(s)
    <2>1. /\ asource' = s /\ aout' = <<>>
          /\ apc' = "map" \/ (apc' = "done" /\ aok' = FALSE)
          /\ aok' \in BOOLEAN
      BY <1>3, Same DEF A!Call, A!FastPath, A!Return, AsciiIInv, A!TypeOK
    <2> QED
      BY <1>3, <2>1 DEF AsciiIInv, Scanning, A!TypeOK, A!FailureLeavesNothing
  <1> QED
    BY <1>2, <1>3

\* What an exit must do, each for itself: leave out empty.
LEMMA AsciiFails ==
  ASSUME AsciiIInv, apc # "idle", A!Return(FALSE), aout' = <<>>, UNCHANGED asource
  PROVE  AsciiIInv'
  BY DEF A!Return, AsciiIInv, Scanning, A!TypeOK, A!FailureLeavesNothing

LEMMA AsciiWrite ==
  ASSUME AsciiIInv, apc \in Scanning, NEW ascii,
         IsString(ascii), IsLowerAscii(ascii), ~Contains(ascii, Dot), A!Write(ascii)
  PROVE  AsciiIInv'
  <1> DEFINE m     == Mapped(asource)
             d     == DotAfter(amapped)
             after == AfterLabel(amapped)
  <1>1. PICK p \in 1 .. Len(m) + 1 : amapped = SubSeq(m, p, Len(m))
    BY DEF AsciiIInv, Scanning
  <1>2. IsString(m) /\ Dots(aout) + Dots(amapped) = Dots(m) /\ IsString(aout) /\ IsLowerAscii(aout)
    BY CalledAssumption DEF AsciiIInv, Scanning
  <1>3. /\ aout' = Joined(aout, ascii, d) /\ amapped' = after
        /\ apc' = "labels" /\ asource' = asource /\ aok' = aok /\ answer' = answer
    BY Same DEF A!Write, A!tableVars, Joined
  <1> HIDE DEF m
  <1>4. IsString(amapped) /\ Len(amapped) = Len(m) - p + 1 /\ Len(amapped) \in Nat
    <2>1. IsString(amapped) /\ Len(amapped) = Len(m) - p + 1
      <3>1. Len(amapped) \in Nat
        <4>1. amapped \in Seq(ToSet(m))
          <5>1. m \in Seq(ToSet(m)) /\ Len(m) \in p - 1 .. Len(m)
            BY <1>2 DEF IsString
          <5> QED
            BY <1>1, <5>1, SubSeqOf
        <4> QED
          BY <4>1
      <3>2. 1 \in 1 .. Len(amapped) + 1 /\ 0 \in 1 - 1 .. Len(amapped)
        BY <3>1
      <3> QED
        BY <1>1, <1>2, <3>2, SubSeqOfSuffix
    <2> QED
      BY <2>1 DEF IsString
  <1>5. /\ IsString(d) /\ IsString(after) /\ d \in {<<>>, <<Dot>>}
        /\ Dots(amapped) = Dots(d) + Dots(after)
        /\ \E a \in 1 .. Len(amapped) + 1 : after = SubSeq(amapped, a, Len(amapped))
    BY <1>4, Scan, ScanDots
  <1> HIDE DEF d, after
  <1>6. IsString(aout') /\ IsLowerAscii(aout')
    <2>1. IsLowerAscii(d)
      BY <1>5, LowerStrings
    <2>2. IsString(aout) /\ IsString(ascii) /\ IsString(d) /\ IsLowerAscii(aout) /\ IsLowerAscii(ascii)
      BY <1>2, <1>5
    <2> QED
      BY ONLY <1>3, <2>1, <2>2, JoinedProperties, LowerJoined
  <1>7. Dots(aout') + Dots(amapped') = Dots(m)
    <2>1. Dots(aout') = Dots(aout) + Dots(ascii) + Dots(d)
      BY <1>2, <1>3, <1>5, DotsJoined
    <2>2. Dots(ascii) = 0 /\ Dots(aout) \in Nat /\ Dots(d) \in Nat /\ Dots(after) \in Nat
      BY <1>2, <1>5, NoDots
    <2> QED
      BY <1>2, <1>3, <1>5, <2>1, <2>2
  <1>8. \E q \in 1 .. Len(m) + 1 : amapped' = SubSeq(m, q, Len(m))
    <2>1. PICK a \in 1 .. Len(amapped) + 1 : after = SubSeq(amapped, a, Len(amapped))
      BY <1>5
    <2>2. Len(amapped) \in a - 1 .. Len(amapped) /\ Len(m) \in Nat
      BY <1>2, <1>4 DEF IsString
    <2>3. after = SubSeq(m, p + a - 1, p + Len(amapped) - 1)
      BY <1>1, <1>2, <2>1, <2>2, SubSeqOfSuffix
    <2>4. p + a - 1 \in 1 .. Len(m) + 1 /\ p + Len(amapped) - 1 = Len(m)
      BY <1>4, <2>2
    <2> QED
      BY <1>3, <2>3, <2>4
  <1> QED
    BY <1>3, <1>6, <1>7, <1>8 DEF AsciiIInv, Scanning, A!TypeOK, A!FailureLeavesNothing, m

\* Something without a dot is appended, and the label stays at hand.
LEMMA AsciiAppend ==
  ASSUME AsciiIInv, apc = "labels", NEW ascii, NEW where \in {"ace", "puny"},
         IsString(ascii), IsLowerAscii(ascii), ~Contains(ascii, Dot),
         where = "puny" => NextLabel(amapped) # <<>>, A!AppendAndGoTo(ascii, where)
  PROVE  AsciiIInv'
  <1>1. /\ aout' = aout \o ascii /\ amapped' = amapped /\ apc' = where
        /\ asource' = asource /\ aok' = aok /\ answer' = answer
    BY DEF A!AppendAndGoTo, A!tableVars
  <1>2. IsString(aout) /\ IsLowerAscii(aout) /\ IsString(<<>>) /\ IsLowerAscii(<<>>)
    BY ShortStrings, LowerStrings DEF AsciiIInv, Scanning
  <1>3. aout' = Joined(aout, ascii, <<>>)
    <2>1. IsString(aout \o ascii)
      BY <1>2, Concatenated
    <2>2. (aout \o ascii) \o <<>> = aout \o ascii
      BY <2>1, ConcatEmptySeq DEF IsString
    <2> QED
      BY <1>1, <2>2 DEF Joined
  <1>4. IsString(aout') /\ IsLowerAscii(aout')
    BY <1>2, <1>3, JoinedProperties, LowerJoined
  <1>5. Dots(aout') = Dots(aout)
    <2>1. Dots(aout') = Dots(aout) + Dots(ascii) /\ Dots(aout) \in Nat /\ Dots(ascii) = 0
      BY <1>1, <1>2, DotsConcat, NoDots
    <2> QED
      BY <2>1
  <1> QED
    BY <1>1, <1>4, <1>5 DEF AsciiIInv, Scanning, A!TypeOK, A!FailureLeavesNothing

\* The label at hand, and what may be written for it.
LEMMA LabelOfMapped ==
  ASSUME AsciiIInv, apc \in Scanning
  PROVE  LET label == NextLabel(amapped)
         IN  /\ IsString(label) /\ ~Contains(label, Dot)
             /\ is_ascii(label) => IsLowerAscii(label)
             /\ label # <<>> /\ Encode(label) # Unencodable =>
                  /\ IsString(Encode(label))
                  /\ IsLowerAscii(Encode(label))
                  /\ ~Contains(Encode(label), Dot)
  <1> DEFINE m     == Mapped(asource)
             label == NextLabel(amapped)
  <1>1. PICK p \in 1 .. Len(m) + 1 : amapped = SubSeq(m, p, Len(m))
    BY DEF AsciiIInv, Scanning
  <1>2. /\ IsString(m)
        /\ \A c \in ToSet(m) : Ascii(c) => Lower(c) = c
        /\ \A j, k \in DOMAIN m :
             LET part == SubSeq(m, j, k)
             IN  ~Contains(part, Dot) /\ Encode(part) # Unencodable =>
                   IsString(Encode(part)) /\ IsLowerAscii(Encode(part)) /\ ~Contains(Encode(part), Dot)
    BY CalledAssumption DEF AsciiIInv, Scanning
  <1> HIDE DEF m
  <1>3. IsString(amapped) /\ Len(amapped) = Len(m) - p + 1 /\ Len(m) \in Nat
    <2>1. m \in Seq(ToSet(m)) /\ Len(m) \in p - 1 .. Len(m) /\ Len(m) \in Nat
      BY <1>2 DEF IsString
    <2>2. amapped \in Seq(ToSet(m)) /\ Len(amapped) = Len(m) - p + 1
      BY <1>1, <2>1, SubSeqOf
    <2> QED
      BY <2>1, <2>2, StringIsSeq
  <1>4. PICK e \in 0 .. Len(amapped) : label = SubSeq(amapped, 1, e)
    BY <1>3, Scan
  <1>5. IsString(label) /\ ~Contains(label, Dot)
    BY <1>3, Scan
  <1> HIDE DEF label
  <1>6. label = SubSeq(m, p, p + e - 1) /\ (label # <<>> => p \in DOMAIN m /\ p + e - 1 \in DOMAIN m)
    <2>1. 1 \in 1 .. Len(amapped) + 1 /\ e \in 1 - 1 .. Len(amapped) /\ p + 1 - 1 = p
      BY <1>3
    <2>2. label = SubSeq(m, p + 1 - 1, p + e - 1)
      BY <1>1, <1>2, <1>4, <2>1, SubSeqOfSuffix
    <2>3. e = 0 => label = <<>>
      BY <1>3, <1>4 DEF IsString
    <2>4. e # 0 => p \in 1 .. Len(m) /\ p + e - 1 \in 1 .. Len(m)
      BY <1>3
    <2>5. DOMAIN m = 1 .. Len(m)
      BY <1>2 DEF IsString
    <2> QED
      BY <2>1, <2>2, <2>3, <2>4, <2>5
  <1>7. ASSUME NEW i \in DOMAIN label
        PROVE  label[i] \in ToSet(m)
    <2>1. label # <<>>
      OBVIOUS
    <2>2. m \in Seq(ToSet(m)) /\ p \in 1 .. Len(m) + 1 /\ p + e - 1 \in p - 1 .. Len(m)
      BY <1>2, <1>3 DEF IsString
    <2>3. label \in Seq(ToSet(m))
      BY <1>6, <2>2, SubSeqOf
    <2> QED
      BY <2>3
  <1>8. is_ascii(label) => IsLowerAscii(label)
    BY <1>2, <1>7 DEF is_ascii, IsLowerAscii, ToSet
  <1> QED
    BY <1>2, <1>5, <1>6, <1>8 DEF label

LEMMA AsciiStep == ASSUME AsciiIInv, Answers, A!Step PROVE AsciiIInv'
  <1> DEFINE label == NextLabel(amapped)
  <1>1. CASE A!Map
    <2>1. apc = "map" /\ asource \in Inputs /\ ~is_ascii(asource) /\ aout = <<>>
      BY <1>1 DEF A!Map, AsciiIInv
    <2>2. CASE A!Return(FALSE) /\ UNCHANGED asource /\ UNCHANGED aout
      BY <2>1, <2>2, AsciiFails
    <2>3. CASE A!Granted /\ A!Mappable(asource) /\ amapped' = A!map(asource) /\ apc' = "nfc"
               /\ UNCHANGED <<asource, aout, aok>>
      <3>1. answer'[Caller] = "true" /\ Mappable(asource) /\ amapped' = map(asource)
        BY <2>3, Same, GrantedTells
      <3> QED
        BY <2>1, <2>3, <3>1 DEF AsciiIInv, Scanning, A!TypeOK, A!FailureLeavesNothing
    <2> QED
      BY <1>1, <2>2, <2>3 DEF A!Map
  <1>2. CASE A!Normalize
    <2>1. /\ apc = "nfc" /\ asource \in Inputs /\ ~is_ascii(asource) /\ aout = <<>>
          /\ Mappable(asource) /\ amapped = map(asource) /\ answer[Caller] = "true"
      BY <1>2 DEF A!Normalize, AsciiIInv, A!TypeOK
    <2>2. /\ amapped' = Mapped(asource) /\ apc' = "labels"
          /\ asource' = asource /\ aout' = aout /\ aok' = aok /\ answer' = answer
      BY <1>2, <2>1, Same DEF A!Normalize, A!tableVars, Mapped
    <2>3. IsString(Mapped(asource))
      BY <2>1, CalledAssumption
    <2>4. Dots(<<>>) = 0 /\ IsString(<<>>) /\ IsLowerAscii(<<>>)
      BY ShortStrings, LowerStrings, NoDots
    <2>5. Dots(aout') + Dots(amapped') = Dots(Mapped(asource))
      <3>1. Dots(Mapped(asource)) \in Nat
        BY <2>3, NoDots
      <3> QED
        BY <2>1, <2>2, <2>4, <3>1
    <2>6. /\ 1 \in 1 .. Len(Mapped(asource)) + 1
          /\ amapped' = SubSeq(Mapped(asource), 1, Len(Mapped(asource)))
      <3>1. Mapped(asource) \in Seq(ToSet(Mapped(asource))) /\ Len(Mapped(asource)) \in Nat
        BY <2>3 DEF IsString
      <3> QED
        BY <2>2, <3>1, SubSeqFull
    <2> QED
      BY <2>1, <2>2, <2>4, <2>5, <2>6 DEF AsciiIInv, Scanning, A!TypeOK, A!FailureLeavesNothing
  <1>3. ASSUME apc \in Scanning
        PROVE  /\ IsString(label) /\ ~Contains(label, Dot)
               /\ is_ascii(label) => IsLowerAscii(label)
               /\ label # <<>> /\ Encode(label) # Unencodable =>
                    /\ IsString(Encode(label))
                    /\ IsLowerAscii(Encode(label))
                    /\ ~Contains(Encode(label), Dot)
    BY <1>3, LabelOfMapped
  <1>4. label = A!label_view /\ (is_ascii(label) <=> A!is_ascii(label))
    BY Same DEF A!label_view
  <1>5. ~is_ascii(label) => label # <<>>
    BY DEF is_ascii
  <1> HIDE DEF label
  <1>6. CASE A!NonAsciiAce \/ A!InvalidLabel
    <2>1. apc = "labels" /\ aout' = <<>> /\ A!Return(FALSE) /\ UNCHANGED asource
      BY <1>6 DEF A!NonAsciiAce, A!InvalidLabel, A!AtAceLabel, A!AtOtherLabel, A!FailHere
    <2> QED
      BY <2>1, AsciiFails
  <1>7. CASE A!UndecodableAce \/ A!AsciiAce \/ A!UnmappedAce \/ A!DenormalAce \/ A!InvalidAce
    <2>1. apc = "ace" /\ aout' = <<>> /\ A!Return(FALSE) /\ UNCHANGED asource
      BY <1>7 DEF A!UndecodableAce, A!AsciiAce, A!UnmappedAce, A!DenormalAce, A!InvalidAce,
                  A!FailHere
    <2> QED
      BY <2>1, AsciiFails
  <1>8. CASE A!UnencodableLabel
    <2>1. apc = "puny" /\ aout' = <<>> /\ A!Return(FALSE) /\ UNCHANGED asource
      BY <1>8 DEF A!UnencodableLabel, A!FailHere
    <2> QED
      BY <2>1, AsciiFails
  <1>9. CASE A!AppendAce
    <2>1. apc = "labels" /\ is_ascii(label) /\ A!AppendAndGoTo(label, "ace")
      BY <1>4, <1>9 DEF A!AppendAce, A!AtAceLabel
    <2> QED
      BY <1>3, <2>1, AsciiAppend DEF Scanning
  <1>10. CASE A!AcceptAce
    <2>1. apc = "ace" /\ A!Write(<<>>)
      BY <1>10 DEF A!AcceptAce
    <2> QED
      BY <2>1, ShortStrings, LowerStrings, AsciiWrite DEF Scanning
  <1>11. CASE A!AsciiLabel
    <2>1. apc = "labels" /\ is_ascii(label) /\ A!Write(label)
      BY <1>4, <1>11 DEF A!AsciiLabel, A!AtOtherLabel
    <2> QED
      BY <1>3, <2>1, AsciiWrite DEF Scanning
  <1>12. CASE A!AppendPrefix
    <2>1. apc = "labels" /\ ~is_ascii(label) /\ A!AppendAndGoTo(<<Ace>>, "puny")
      BY <1>4, <1>12 DEF A!AppendPrefix, A!AtOtherLabel
    <2>2. NextLabel(amapped) # <<>>
      BY <1>5, <2>1 DEF label
    <2> QED
      BY <2>1, <2>2, ShortStrings, LowerStrings, AsciiAppend
  <1>13. CASE A!EncodeLabel
    <2> DEFINE ascii == Encode(label)
    <2>1. apc = "puny" /\ ascii # Unencodable /\ A!Write(ascii)
      BY <1>4, <1>13 DEF A!EncodeLabel
    <2>2. label # <<>>
      BY <2>1 DEF AsciiIInv, label
    <2>3. IsString(ascii) /\ IsLowerAscii(ascii) /\ ~Contains(ascii, Dot)
      BY <1>3, <2>1, <2>2 DEF Scanning
    <2> HIDE DEF ascii
    <2> QED
      BY <2>1, <2>3, AsciiWrite DEF Scanning
  <1>14. CASE A!Finish
    <2>1. /\ apc = "labels" /\ amapped = <<>> /\ Mappable(asource) /\ asource \in Inputs
          /\ IsString(aout) /\ IsLowerAscii(aout)
          /\ Dots(aout) + Dots(amapped) = Dots(Mapped(asource))
      BY <1>14 DEF A!Finish, AsciiIInv, Scanning
    <2>2. Dots(aout) = Dots(map(asource))
      <3>1. Dots(<<>>) = 0 /\ Dots(aout) \in Nat
        BY <2>1, ShortStrings, LowerStrings, NoDots
      <3>2. Dots(Mapped(asource)) = Dots(map(asource))
        BY <2>1, CalledAssumption
      <3> QED
        BY <2>1, <3>1, <3>2
    <2>3. apc' = "done" /\ aok' = TRUE /\ UNCHANGED <<asource, aout>>
      BY <1>14 DEF A!Finish, A!Return
    <2> QED
      BY <2>1, <2>2, <2>3 DEF AsciiIInv, Scanning, A!TypeOK, A!FailureLeavesNothing
  <1> QED
    BY <1>1, <1>2, <1>6, <1>7, <1>8, <1>9, <1>10, <1>11, <1>12, <1>13, <1>14
       DEF A!Step, A!AceLabel, A!UnicodeLabel

LEMMA AsciiMoves == A!Step => TablesMove
  BY Same DEF A!Step, A!Map, A!Normalize, A!AceLabel, A!AsciiLabel, A!UnicodeLabel, A!Finish,
              A!NonAsciiAce, A!AppendAce, A!UndecodableAce, A!AsciiAce, A!UnmappedAce,
              A!DenormalAce, A!InvalidAce, A!AcceptAce, A!InvalidLabel, A!AppendPrefix,
              A!EncodeLabel, A!UnencodableLabel, A!FailHere, A!AppendAndGoTo,
              A!Write, A!tableVars, tableVars, TablesMove

-----------------------------------------------------------------------------
(* The second call of to_ascii(): an ASCII string is only made lower case. *)
AgainIInv ==
  /\ B!TypeOK
  /\ bpc \in {"map", "nfc"} \cup Scanning => ~is_ascii(bsource)
  /\ bpc = "done" /\ is_ascii(bsource) => bok /\ bout = from_ascii_to_ascii(bsource)

LEMMA AgainInit == ASSUME B!Idle PROVE AgainIInv
  BY DEF B!Idle, AgainIInv, Scanning, B!TypeOK

LEMMA AgainStays ==
  ASSUME AgainIInv, Answers, UNCHANGED bVars, TablesMove
  PROVE  AgainIInv'
  BY NeverTakenBack DEF bVars, AgainIInv, Scanning, B!TypeOK

LEMMA AgainCall == ASSUME AgainIInv, NEW s, B!Call(s) PROVE AgainIInv'
  <1>1. CASE is_ascii(s)
    BY <1>1, Same DEF B!Call, B!FastPath, B!Return, AgainIInv, Scanning, B!TypeOK
  <1>2. CASE ~is_ascii(s)
    BY <1>2, Same DEF B!Call, B!FastPath, B!Return, AgainIInv, Scanning, B!TypeOK
  <1> QED
    BY <1>1, <1>2

LEMMA AgainStep == ASSUME AgainIInv, Answers, B!Step PROVE AgainIInv'
  <1>1. CASE B!Map
    <2>1. CASE B!Return(FALSE) /\ UNCHANGED bsource
      BY <1>1, <2>1 DEF B!Map, B!Return, AgainIInv, Scanning, B!TypeOK
    <2>2. CASE B!Granted /\ bpc' = "nfc" /\ UNCHANGED <<bsource, bok>>
      <3>1. answer'[Caller] = "true"
        BY <2>2, Same, GrantedTells
      <3> QED
        BY <1>1, <2>2, <3>1 DEF B!Map, AgainIInv, Scanning, B!TypeOK
    <2> QED
      BY <1>1, <2>1, <2>2 DEF B!Map
  <1>2. CASE B!Normalize
    BY <1>2 DEF B!Normalize, B!tableVars, AgainIInv, Scanning, B!TypeOK
  <1>3. CASE B!AceLabel \/ B!AsciiLabel \/ B!UnicodeLabel
    <2>1. /\ bpc \in Scanning /\ UNCHANGED <<bsource, answer>>
          /\ \/ B!Return(FALSE)
             \/ bpc' \in Scanning /\ bok' = bok
      BY <1>3 DEF B!AceLabel, B!AsciiLabel, B!UnicodeLabel, B!AtAceLabel, B!AtOtherLabel,
                  B!NonAsciiAce, B!AppendAce, B!UndecodableAce, B!AsciiAce, B!UnmappedAce,
                  B!DenormalAce, B!InvalidAce, B!AcceptAce, B!InvalidLabel, B!AppendPrefix,
                  B!EncodeLabel, B!UnencodableLabel, B!FailHere, B!AppendAndGoTo, B!Write,
                  B!tableVars, Scanning
    <2> QED
      BY <2>1 DEF B!Return, AgainIInv, Scanning, B!TypeOK
  <1>4. CASE B!Finish
    BY <1>4 DEF B!Finish, B!Return, AgainIInv, Scanning, B!TypeOK
  <1> QED
    BY <1>1, <1>2, <1>3, <1>4 DEF B!Step

LEMMA AgainMoves == B!Step => TablesMove
  BY Same DEF B!Step, B!Map, B!Normalize, B!AceLabel, B!AsciiLabel, B!UnicodeLabel, B!Finish,
              B!NonAsciiAce, B!AppendAce, B!UndecodableAce, B!AsciiAce, B!UnmappedAce,
              B!DenormalAce, B!InvalidAce, B!AcceptAce, B!InvalidLabel, B!AppendPrefix,
              B!EncodeLabel, B!UnencodableLabel, B!FailHere, B!AppendAndGoTo,
              B!Write, B!tableVars, tableVars, TablesMove

-----------------------------------------------------------------------------
(* The three calls together.                                               *)
LEMMA CallMoves == ASSUME NEW s, Call(s) \/ A!Call(s) \/ B!Call(s) PROVE TablesMove
  BY DEF Call, A!Call, B!Call, A!tableVars, B!tableVars, tableVars, TablesMove

\* An answer that was given is still what it was when the next call is made of it.
AllIInv == UnicodeIInv /\ AsciiIInv /\ AgainIInv /\ Answers

LEMMA AllInitHolds == ASSUME AllInit PROVE AllIInv
  BY UnicodeInit, AsciiInit, AgainInit DEF AllInit, Init, AllIInv

LEMMA AllKept == ASSUME AllIInv, [AllNext]_allVars PROVE AllIInv'
  <1>1. CASE First
    <2>1. UNCHANGED callVars /\ UNCHANGED bVars
      BY <1>1 DEF First
    <2>2. CASE \E s \in Inputs : A!Call(s)
      BY <2>1, <2>2, CallMoves, AsciiCall, UnicodeStays, AgainStays, NeverTakenBack DEF AllIInv
    <2>3. CASE A!Step
      BY <2>1, <2>3, AsciiMoves, AsciiStep, UnicodeStays, AgainStays DEF AllIInv
    <2> QED
      BY <1>1, <2>2, <2>3 DEF First
  <1>2. CASE Second
    <2>1. UNCHANGED aVars /\ UNCHANGED bVars
      BY <1>2 DEF Second
    <2>2. CASE Call(asource) \/ Call(aout)
      BY <2>1, <2>2, CallMoves, UnicodeCall, AsciiStays, AgainStays DEF AllIInv
    <2>3. CASE Step
      BY <2>1, <2>3, UnicodeMoves, UnicodeStep, AsciiStays, AgainStays DEF AllIInv
    <2> QED
      BY <1>2, <2>2, <2>3 DEF Second
  <1>3. CASE Third
    <2>1. UNCHANGED aVars /\ UNCHANGED callVars
      BY <1>3 DEF Third
    <2>2. CASE B!Call(aout) \/ B!Call(out)
      BY <2>1, <2>2, CallMoves, AgainCall, AsciiStays, UnicodeStays DEF AllIInv
    <2>3. CASE B!Step
      BY <2>1, <2>3, AgainMoves, AgainStep, AsciiStays, UnicodeStays DEF AllIInv
    <2> QED
      BY <1>3, <2>2, <2>3 DEF Third
  <1>4. CASE AllOthers \/ UNCHANGED allVars
    <2>1. UNCHANGED callVars /\ UNCHANGED aVars /\ UNCHANGED bVars /\ TablesMove
      BY <1>4 DEF AllOthers, Others, allVars, vars, TablesMove
    <2> QED
      BY <2>1, AsciiStays, UnicodeStays, AgainStays DEF AllIInv
  <1> QED
    BY <1>1, <1>2, <1>3, <1>4 DEF AllNext

LEMMA AllAlways == AllSpec => []AllIInv
  <1> QED
    BY AllInitHolds, AllKept, PTL DEF AllSpec

\* In all three calls: no label is decoded before the tables were granted, and past
\* map() to_ascii() has them for good, so that the checks that is_already_nfc(),
\* normalize() and is_label_valid() repeat cannot fail.
THEOREM TypesCorrect == AllSpec => []AllTypeOK
  <1>1. AllIInv => AllTypeOK
    BY DEF AllIInv, UnicodeIInv, AsciiIInv, AgainIInv, AllTypeOK
  <1> QED
    BY <1>1, AllAlways, PTL

\* No call of to_unicode() decodes a label and then refuses a later one.
THEOREM NoGoingBackAlways == AllSpec => []NoGoingBack
  <1>1. AllIInv => NoGoingBack
    BY DEF AllIInv, UnicodeIInv
  <1> QED
    BY <1>1, AllAlways, PTL

\* A call of to_ascii() that fails leaves nothing of what it wrote, nor of what the
\* caller's string held: before the scan out is still as the call has cleared it, and
\* in it, where labels and perhaps part of one are written, every exit clears it.
THEOREM FailureLeavesNothingAlways == AllSpec => []FailureLeavesNothing
  <1>1. AllIInv => FailureLeavesNothing
    BY DEF AllIInv, AsciiIInv, FailureLeavesNothing
  <1> QED
    BY <1>1, AllAlways, PTL

\* An answer of to_ascii() has as many labels as the mapped string.
THEOREM LabelsAlwaysKept == AllSpec => []LabelsKept
  <1>1. AllIInv => LabelsKept
    BY Same DEF AllIInv, AsciiIInv, LabelsKept, A!LabelsKept
  <1> QED
    BY <1>1, AllAlways, PTL

\* to_ascii() of its own answer is that answer: the answer is ASCII in lower case,
\* whichever way it came about, and neither tables nor the bound on the length are
\* asked for such a string.
THEOREM IdempotentAlways == AllSpec => []Idempotent
  <1>1. ASSUME AllIInv, Answered, bsource = aout
        PROVE  bok /\ bout = aout
    <2>1. IsString(aout) /\ \A j \in DOMAIN aout : Ascii(aout[j]) /\ Lower(aout[j]) = aout[j]
      BY <1>1 DEF AllIInv, AsciiIInv, Answered, IsLowerAscii, ToSet
    <2>2. bok /\ bout = from_ascii_to_ascii(aout)
      BY <1>1, <2>1 DEF AllIInv, AgainIInv, Answered, is_ascii
    <2>3. from_ascii_to_ascii(aout) = aout
      <3>1. aout = [j \in DOMAIN aout |-> aout[j]]
        BY <2>1 DEF IsString
      <3> QED
        BY <2>1, <3>1 DEF from_ascii_to_ascii
    <2> QED
      BY <2>2, <2>3
  <1>2. AllIInv => Idempotent
    BY <1>1 DEF Idempotent
  <1> QED
    BY <1>2, AllAlways, PTL
====
