------------------------ MODULE NormalizationProofs ------------------------
(* That normalize() may work in one string: how far decompose() grows it is a   *)
(* sum over the code points, and so is the place to which each of them moves;   *)
(* sort_marks() is an insertion sort that stops at starters.                    *)
EXTENDS Normalization, TLAPS, SequenceTheorems, WellFoundedInduction

-----------------------------------------------------------------------------
(* Induction, as the least counterexample; sums and concatenations.        *)
LEMMA LeastOf ==
  ASSUME NEW S \in SUBSET Nat, S # {}
  PROVE  \E m \in S : \A c \in S : m <= c
  <1> DEFINE R == {ss \in Nat \X Nat : ss[1] < ss[2]}
  <1>1. IsWellFoundedOn(R, Nat)
    BY NatLessThanWellFounded DEF OpToRel
  <1>2. PICK least \in S : \A c \in S : ~(<<c, least>> \in R)
    <2> HIDE DEF R
    <2> QED
      BY <1>1, WFMin
  <1>3. ASSUME NEW c \in S
        PROVE  least <= c
    <2>1. least \in Nat /\ c \in Nat /\ ~(c < least)
      BY <1>2
    <2> QED
      BY <2>1
  <1> QED
    BY <1>3

\* g[n] is the sum of the first n of the numbers in more.
IsSum(g, more, N) ==
  /\ g \in [0 .. N -> Nat]
  /\ g[0] = 0
  /\ \A n \in 1 .. N : g[n] = g[n - 1] + more[n]

LEMMA SumExists ==
  ASSUME NEW N \in Nat, NEW more \in [1 .. N -> Nat]
  PROVE  \E g : IsSum(g, more, N)
  <1> DEFINE Upto(g, k) == /\ g \in [0 .. N -> Nat]
                           /\ g[0] = 0
                           /\ \A n \in 1 .. k : g[n] = g[n - 1] + more[n]
             Bad == {k \in 0 .. N : ~\E g : Upto(g, k)}
  <1>1. Bad = {}
    <2> SUFFICES ASSUME Bad # {}
                 PROVE  FALSE
      OBVIOUS
    <2>1. PICK k \in Bad : \A c \in Bad : k <= c
      <3>1. Bad \in SUBSET Nat
        OBVIOUS
      <3> HIDE DEF Bad
      <3> QED
        BY <3>1, LeastOf
    <2>2. k # 0
      <3>1. Upto([n \in 0 .. N |-> 0], 0)
        OBVIOUS
      <3> QED
        BY <3>1
    <2>3. k - 1 \in 0 .. N /\ k - 1 \notin Bad /\ k \in 1 .. N
      <3>1. k \in 0 .. N /\ k - 1 \in 0 .. N /\ ~(k <= k - 1)
        BY <2>2
      <3> HIDE DEF Bad
      <3> QED
        BY <2>1, <2>2, <3>1
    <2>4. PICK g : Upto(g, k - 1)
      BY <2>3
    <2> DEFINE h == [g EXCEPT ![k] = g[k - 1] + more[k]]
    <2>5. /\ h \in [0 .. N -> Nat] /\ h[0] = 0 /\ h[k] = g[k - 1] + more[k]
          /\ \A n \in 0 .. k - 1 : h[n] = g[n]
      <3>1. g \in [0 .. N -> Nat] /\ g[0] = 0 /\ g[k - 1] + more[k] \in Nat
        <4>1. g \in [0 .. N -> Nat] /\ g[0] = 0
          BY <2>4
        <4>2. g[k - 1] \in Nat /\ more[k] \in Nat
          BY <2>3, <4>1
        <4> QED
          BY <4>1, <4>2, SMTT(60)
      <3>2. k \in 0 .. N /\ k # 0 /\ \A n \in 0 .. k - 1 : n \in 0 .. N /\ n # k
        BY <2>3
      <3> QED
        BY ONLY <3>1, <3>2, SMTT(60)
    <2>6. \A n \in 1 .. k : h[n] = h[n - 1] + more[n]
      <3> TAKE n \in 1 .. k
      <3> HIDE DEF h
      <3>1. CASE n = k
        BY <2>5, <3>1, SMTT(60)
      <3>2. CASE n # k
        <4>1. n \in 1 .. k - 1 /\ n - 1 \in 0 .. k - 1 /\ n \in 0 .. k - 1
          BY <2>3, <3>2
        <4> QED
          BY <2>4, <2>5, <4>1
      <3> QED
        BY <3>1, <3>2
    <2>7. Upto(h, k)
      <3> HIDE DEF h
      <3> QED
        BY <2>5, <2>6
    <2> QED
      BY <2>7
  <1>2. N \in 0 .. N
    OBVIOUS
  <1>3. PICK g : Upto(g, N)
    BY <1>1, <1>2
  <1> QED
    BY <1>3 DEF IsSum

LEMMA SumGrows ==
  ASSUME NEW N \in Nat, NEW more \in [1 .. N -> Nat], NEW g, IsSum(g, more, N),
         NEW a \in 0 .. N, NEW b \in a .. N
  PROVE  g[a] <= g[b]
  <1> DEFINE Bad == {k \in a .. N : ~(g[a] <= g[k])}
  <1>1. Bad = {}
    <2> SUFFICES ASSUME Bad # {}
                 PROVE  FALSE
      OBVIOUS
    <2>1. PICK k \in Bad : \A c \in Bad : k <= c
      <3>1. Bad \in SUBSET Nat
        OBVIOUS
      <3> HIDE DEF Bad
      <3> QED
        BY <3>1, LeastOf
    <2>2. k # a /\ k \in a .. N /\ ~(g[a] <= g[k])
      BY <2>1 DEF IsSum
    <2>3. k - 1 \in a .. N /\ k - 1 \notin Bad /\ k \in 1 .. N /\ k - 1 \in 0 .. N
      BY <2>1, <2>2
    <2>4. g[a] <= g[k - 1]
      BY <2>3
    <2>5. g[k] = g[k - 1] + more[k] /\ more[k] \in Nat /\ {g[k - 1], g[a], g[k]} \subseteq Nat
      BY <2>3 DEF IsSum
    <2> QED
      BY <2>2, <2>4, <2>5, SMTT(60)
  <1> QED
    BY <1>1

-----------------------------------------------------------------------------
(* Strings, the pieces of a code point, and how far the string grows.      *)
IsString(s) == s \in Seq(ToSet(s))

LEMMA StringIsSeq == ASSUME NEW S, NEW s \in Seq(S) PROVE IsString(s)
  <1>1. \A j \in DOMAIN s : s[j] \in ToSet(s)
    BY DEF ToSet
  <1>2. Len(s) \in Nat /\ s = [j \in 1 .. Len(s) |-> s[j]]
    OBVIOUS
  <1>3. s \in Seq(ToSet(s))
    BY <1>1, <1>2, IsASeq
  <1> QED
    BY <1>3 DEF IsString

\* How many code points more than one it is decomposed to.
More(c) == IF DecompositionLength(c) = 0 THEN 0 ELSE DecompositionLength(c) - 1

LEMMA PiecesOf ==
  ASSUME NEW c \in DOMAIN Decomposition
  PROVE  IsString(Pieces(c)) /\ Len(Pieces(c)) = More(c) + 1 /\ More(c) \in Nat
  <1>1. CASE Syllable(c)
    <2>1. PICK l, v, f : Jamos(c) = IF OpenSyllable(c) THEN <<l, v>> ELSE <<l, v, f>>
      BY DEF Jamos
    <2>2. /\ <<l, v>> \in Seq({l, v, f}) /\ Len(<<l, v>>) = 2
          /\ <<l, v, f>> \in Seq({l, v, f}) /\ Len(<<l, v, f>>) = 3
      OBVIOUS
    <2>3. Pieces(c) = Jamos(c) /\ DecompositionLength(c) = IF OpenSyllable(c) THEN 2 ELSE 3
      BY <1>1 DEF Pieces, DecompositionLength
    <2>4. Jamos(c) \in Seq({l, v, f})
      BY <2>1, <2>2
    <2>5. Len(Jamos(c)) = DecompositionLength(c) /\ DecompositionLength(c) \in {2, 3}
      BY <2>1, <2>2, <2>3
    <2> QED
      BY <2>3, <2>4, <2>5, StringIsSeq DEF More
  <1>2. CASE ~Syllable(c)
    <2>1. Canonical(c) \in Seq(DOMAIN Decomposition)
      <3>1. Decomposition[c] \in Seq(DOMAIN Decomposition)
        BY TablesAssumption
      <3>2. <<>> \in Seq(DOMAIN Decomposition)
        OBVIOUS
      <3> QED
        BY ONLY <1>2, <3>1, <3>2 DEF Canonical
    <2>2. DecompositionLength(c) = Len(Canonical(c)) /\ Len(Canonical(c)) \in Nat
      BY <1>2, <2>1 DEF DecompositionLength
    <2>3. CASE Canonical(c) = <<>>
      <3>1. Pieces(c) = <<c>> /\ <<c>> \in Seq({c}) /\ Len(<<c>>) = 1
        BY <1>2, <2>3 DEF Pieces
      <3>2. More(c) = 0
        BY <2>2, <2>3 DEF More
      <3>3. IsString(<<c>>)
        BY ONLY <3>1, StringIsSeq
      <3> QED
        BY <3>1, <3>2, <3>3
    <2>4. CASE Canonical(c) # <<>>
      <3>1. Pieces(c) = Canonical(c) /\ Len(Canonical(c)) # 0
        BY <1>2, <2>1, <2>4 DEF Pieces
      <3> QED
        BY <2>1, <2>2, <3>1, StringIsSeq DEF More
    <2> QED
      BY <2>3, <2>4
  <1> QED
    BY <1>1, <1>2

\* g[n] is what the first n code points of s add to its length.
Growth(s, g) == IsSum(g, [n \in 1 .. Len(s) |-> More(s[n])], Len(s))

LEMMA GrowthIs ==
  ASSUME NEW s \in Seq(DOMAIN Decomposition), NEW g, Growth(s, g)
  PROVE  /\ g \in [0 .. Len(s) -> Nat] /\ g[0] = 0
         /\ \A n \in 1 .. Len(s) : g[n] = g[n - 1] + Len(Pieces(s[n])) - 1
         /\ \A a \in 0 .. Len(s) : \A b \in a .. Len(s) : g[a] <= g[b]
  <1> DEFINE more == [n \in 1 .. Len(s) |-> More(s[n])]
  <1>1. Len(s) \in Nat /\ more \in [1 .. Len(s) -> Nat]
    BY PiecesOf
  <1>2. IsSum(g, more, Len(s))
    BY DEF Growth
  <1>3. ASSUME NEW n \in 1 .. Len(s)
        PROVE  g[n] = g[n - 1] + Len(Pieces(s[n])) - 1
    <2>1. /\ g[n] = g[n - 1] + More(s[n]) /\ g[n - 1] \in Nat
          /\ Len(Pieces(s[n])) = More(s[n]) + 1 /\ More(s[n]) \in Nat
      <3>1. s[n] \in DOMAIN Decomposition /\ n - 1 \in 0 .. Len(s)
        BY <1>1
      <3> QED
        BY <1>2, <3>1, PiecesOf DEF IsSum
    <2> QED
      BY <2>1
  <1> HIDE DEF more
  <1>4. \A a \in 0 .. Len(s) : \A b \in a .. Len(s) : g[a] <= g[b]
    BY <1>1, <1>2, SumGrows
  <1> QED
    BY <1>2, <1>3, <1>4 DEF IsSum

\* What compute_decomposition_length() adds up is that.
LEMMA AdditionalElements ==
  ASSUME NEW s \in Seq(DOMAIN Decomposition)
  PROVE  \E g : Growth(s, g) /\ additional_elements(s) = g[Len(s)]
  <1> DEFINE N    == Len(s)
             more == [n \in 1 .. N |-> More(s[n])]
             Sum(f) == [n \in 0 .. N |->
                          IF n = 0 THEN 0
                          ELSE f[n - 1] + (IF DecompositionLength(s[n]) = 0 THEN 0
                                           ELSE DecompositionLength(s[n]) - 1)]
             h == CHOOSE f : f = Sum(f)
  <1>1. N \in Nat /\ more \in [1 .. N -> Nat]
    BY PiecesOf
  <1>2. PICK g : IsSum(g, more, N)
    <2> HIDE DEF more, N
    <2> QED
      BY <1>1, SumExists
  <1>3. Growth(s, g)
    BY <1>2 DEF Growth
  <1>4. g = Sum(g)
    <2>1. \A n \in 0 .. N : g[n] = Sum(g)[n]
      BY <1>1, <1>2 DEF IsSum, More
    <2>2. g = [n \in 0 .. N |-> g[n]]
      BY <1>2 DEF IsSum
    <2> QED
      BY <2>1, <2>2
  <1>5. h = Sum(h)
    <2> HIDE DEF Sum
    <2> QED
      BY <1>4
  <1>6. additional_elements(s) = h[N]
    BY DEF additional_elements
  <1>7. \A n \in 0 .. N : h[n] = g[n]
    <2> DEFINE Bad == {n \in 0 .. N : h[n] # g[n]}
    <2> HIDE DEF h
    <2> SUFFICES ASSUME Bad # {}
                 PROVE  FALSE
      OBVIOUS
    <2>1. PICK k \in Bad : \A c \in Bad : k <= c
      <3>1. Bad \in SUBSET Nat
        OBVIOUS
      <3> HIDE DEF Bad
      <3> QED
        BY <3>1, LeastOf
    <2>2. h[0] = 0 /\ g[0] = 0
      BY <1>1, <1>2, <1>5 DEF IsSum
    <2>3. k \in 0 .. N /\ k # 0 /\ h[k] # g[k]
      BY <2>1, <2>2
    <2>4. h[k - 1] = g[k - 1]
      <3>1. k - 1 \in 0 .. N /\ ~(k <= k - 1)
        BY <1>1, <2>3
      <3>2. k - 1 \notin Bad
        <4> HIDE DEF Bad
        <4> QED
          BY <2>1, <3>1
      <3> QED
        BY <3>1, <3>2
    <2>5. Sum(h)[k] = h[k - 1] + More(s[k]) /\ Sum(g)[k] = g[k - 1] + More(s[k])
      BY <2>3 DEF More
    <2> QED
      <3> HIDE DEF Sum
      <3> QED
        BY <1>4, <1>5, <2>3, <2>4, <2>5
  <1> QED
    <2>1. additional_elements(s) = g[N] /\ N \in 0 .. N
      BY <1>1, <1>6, <1>7
    <2> QED
      BY <1>3, <2>1

-----------------------------------------------------------------------------
(* The decomposed string, code point by code point.                        *)

\* t has, for the code points n of s up to k, their pieces at the places that the
\* growth before them leaves.
HasPieces(t, s, g, k) ==
  \A n \in 1 .. k : \A i \in 1 .. Len(Pieces(s[n])) : t[n - 1 + g[n - 1] + i] = Pieces(s[n])[i]

IsDecomposed(t, s, g, k) ==
  IsString(t) /\ Len(t) = k + g[k] /\ HasPieces(t, s, g, k)

LEMMA PiecesFit ==
  ASSUME NEW s \in Seq(DOMAIN Decomposition), NEW g, Growth(s, g),
         NEW k \in 0 .. Len(s), NEW n \in 1 .. k, NEW i \in 1 .. Len(Pieces(s[n]))
  PROVE  n - 1 + g[n - 1] + i \in 1 .. k + g[k]
  <1>1. /\ g \in [0 .. Len(s) -> Nat]
        /\ \A m \in 1 .. Len(s) : g[m] = g[m - 1] + Len(Pieces(s[m])) - 1
        /\ \A a \in 0 .. Len(s) : \A b \in a .. Len(s) : g[a] <= g[b]
    BY GrowthIs
  <1>2. /\ n \in 1 .. Len(s) /\ n - 1 \in 0 .. Len(s) /\ k \in n .. Len(s) /\ n \in 0 .. Len(s)
        /\ Len(s) \in Nat
    OBVIOUS
  <1>3. g[n - 1] \in Nat /\ g[n] \in Nat /\ g[k] \in Nat /\ g[n] <= g[k]
    BY <1>1, <1>2
  <1>4. g[n] = g[n - 1] + Len(Pieces(s[n])) - 1
    BY <1>1, <1>2
  <1>5. Len(Pieces(s[n])) \in Nat
    <2>1. s[n] \in DOMAIN Decomposition
      BY <1>2
    <2> QED
      BY <2>1, PiecesOf
  <1> DEFINE before == g[n - 1]
             upto   == g[n]
             all    == g[k]
             len    == Len(Pieces(s[n]))
  <1>6. /\ before \in Nat /\ upto \in Nat /\ all \in Nat /\ upto <= all
        /\ upto = before + len - 1 /\ len \in Nat /\ i \in 1 .. len
        /\ n \in Nat /\ k \in Nat /\ 1 <= n /\ n <= k
    BY <1>2, <1>3, <1>4, <1>5
  <1> HIDE DEF before, upto, all, len
  <1>7. n - 1 + before + i \in 1 .. k + all
    BY ONLY <1>6
  <1> QED
    BY <1>7 DEF before, all

LEMMA AppendPieces ==
  ASSUME NEW s \in Seq(DOMAIN Decomposition), NEW g, Growth(s, g),
         NEW k \in 1 .. Len(s), NEW t, IsDecomposed(t, s, g, k - 1)
  PROVE  IsDecomposed(t \o Pieces(s[k]), s, g, k)
  <1> DEFINE u == Pieces(s[k])
             w == t \o u
  <1>1. /\ g \in [0 .. Len(s) -> Nat]
        /\ g[k] = g[k - 1] + Len(u) - 1
    BY GrowthIs
  <1>2. k \in 0 .. Len(s) /\ k - 1 \in 0 .. Len(s) /\ Len(s) \in Nat
    OBVIOUS
  <1>3. IsString(u) /\ Len(u) \in Nat
    <2>1. s[k] \in DOMAIN Decomposition
      OBVIOUS
    <2> QED
      BY <2>1, PiecesOf
  <1>4. IsString(t) /\ Len(t) = k - 1 + g[k - 1] /\ HasPieces(t, s, g, k - 1)
    BY DEF IsDecomposed
  <1> HIDE DEF u
  <1>5. PICK S : t \in Seq(S) /\ u \in Seq(S)
    <2>1. t \in Seq(ToSet(t)) /\ u \in Seq(ToSet(u))
      BY <1>3, <1>4 DEF IsString
    <2>2. t \in Seq(ToSet(t) \cup ToSet(u)) /\ u \in Seq(ToSet(t) \cup ToSet(u))
      BY ONLY <2>1, SeqMonotonic
    <2> QED
      BY <2>2
  <1>6. /\ w \in Seq(S) /\ Len(w) = Len(t) + Len(u)
        /\ \A i \in 1 .. Len(t) + Len(u) : w[i] = IF i <= Len(t) THEN t[i] ELSE u[i - Len(t)]
    BY ONLY <1>5, ConcatProperties
  <1> HIDE DEF w
  <1>7. g[k] \in Nat /\ g[k - 1] \in Nat
    BY <1>1, <1>2
  <1>8. ASSUME NEW n \in 1 .. k, NEW i \in 1 .. Len(Pieces(s[n]))
        PROVE  w[n - 1 + g[n - 1] + i] = Pieces(s[n])[i]
    <2>1. CASE n = k
      <3>1. i \in 1 .. Len(u)
        BY <2>1 DEF u
      <3>2. n - 1 + g[n - 1] + i = Len(t) + i /\ Len(t) \in Nat
        BY <1>2, <1>4, <1>7, <2>1
      <3>3. /\ Len(t) + i \in 1 .. Len(t) + Len(u) /\ ~(Len(t) + i <= Len(t))
            /\ Len(t) + i - Len(t) = i
        BY <1>3, <3>1, <3>2
      <3>4. w[Len(t) + i] = u[i]
        BY <1>6, <3>3, SMTT(60)
      <3> QED
        BY <2>1, <3>2, <3>4 DEF u
    <2>2. CASE n # k
      <3>1. n \in 1 .. k - 1
        BY <1>2, <2>2
      <3> DEFINE at == n - 1 + g[n - 1] + i
      <3>2. at \in 1 .. k - 1 + g[k - 1]
        BY <1>2, <3>1, PiecesFit
      <3>3. t[at] = Pieces(s[n])[i]
        BY <1>4, <3>1 DEF HasPieces
      <3> HIDE DEF at
      <3>4. w[at] = t[at]
        BY <1>3, <1>4, <1>6, <1>7, <3>2
      <3> QED
        BY <3>3, <3>4 DEF at
    <2> QED
      BY <2>1, <2>2
  <1>9. Len(w) = k + g[k]
    BY <1>1, <1>2, <1>3, <1>4, <1>6, <1>7, SMTT(60)
  <1>10. IsString(w)
    BY <1>6, StringIsSeq
  <1> QED
    BY <1>8, <1>9, <1>10 DEF IsDecomposed, HasPieces, w, u

LEMMA ConcatExists ==
  ASSUME NEW N \in Nat, N >= 1, NEW seqs
  PROVE  \E f : f = [i \in 1 .. N |-> IF i = 1 THEN seqs[i] ELSE f[i - 1] \o seqs[i]]
  <1> DEFINE Upto(f, k) == /\ f = [i \in 1 .. N |-> f[i]]
                           /\ f[1] = seqs[1]
                           /\ \A n \in 2 .. k : f[n] = f[n - 1] \o seqs[n]
             Bad == {k \in 1 .. N : ~\E f : Upto(f, k)}
  <1>1. Bad = {}
    <2> SUFFICES ASSUME Bad # {}
                 PROVE  FALSE
      OBVIOUS
    <2>1. PICK k \in Bad : \A c \in Bad : k <= c
      <3>1. Bad \in SUBSET Nat
        <4>1. \A b \in Bad : b \in 1 .. N
          OBVIOUS
        <4> HIDE DEF Bad
        <4> QED
          BY <4>1
      <3> HIDE DEF Bad
      <3> QED
        BY <3>1, LeastOf
    <2>2. k # 1
      <3>1. Upto([i \in 1 .. N |-> seqs[1]], 1)
        OBVIOUS
      <3> QED
        BY <3>1
    <2>3. k - 1 \in 1 .. N /\ k - 1 \notin Bad /\ k \in 2 .. N
      <3>1. k \in 1 .. N
        OBVIOUS
      <3>2. k - 1 \in 1 .. N /\ ~(k <= k - 1) /\ k \in 2 .. N
        BY <2>2, <3>1
      <3> HIDE DEF Bad
      <3> QED
        BY <2>1, <3>2
    <2>4. PICK f : Upto(f, k - 1)
      BY <2>3
    <2> DEFINE h == [i \in 1 .. N |-> IF i = k THEN f[k - 1] \o seqs[k] ELSE f[i]]
    <2>5. /\ h = [i \in 1 .. N |-> h[i]] /\ h[1] = seqs[1] /\ h[k] = f[k - 1] \o seqs[k]
          /\ \A n \in 1 .. k - 1 : h[n] = f[n]
      <3>1. f[1] = seqs[1]
        BY <2>4
      <3>2. k \in 1 .. N /\ k # 1 /\ 1 \in 1 .. N /\ \A n \in 1 .. k - 1 : n \in 1 .. N /\ n # k
        BY <2>3
      <3>3. \A i \in 1 .. N : h[i] = IF i = k THEN f[k - 1] \o seqs[k] ELSE f[i]
        OBVIOUS
      <3>4. h = [i \in 1 .. N |-> h[i]]
        BY ONLY <3>3
      <3> HIDE DEF h
      <3> QED
        BY ONLY <3>1, <3>2, <3>3, <3>4
    <2> HIDE DEF h
    <2>6. \A n \in 2 .. k : h[n] = h[n - 1] \o seqs[n]
      <3> TAKE n \in 2 .. k
      <3>1. CASE n = k
        <4>1. h[k - 1] = f[k - 1]
          <5>1. k - 1 \in 1 .. k - 1
            BY <2>3
          <5> QED
            BY ONLY <2>5, <5>1
        <4> QED
          BY <2>5, <3>1, <4>1
      <3>2. CASE n # k
        <4>1. n \in 2 .. k - 1 /\ n - 1 \in 1 .. k - 1 /\ n \in 1 .. k - 1
          BY <2>3, <3>2, SMTT(60)
        <4>2. f[n] = f[n - 1] \o seqs[n] /\ h[n] = f[n] /\ h[n - 1] = f[n - 1]
          BY <2>4, <2>5, <4>1
        <4> QED
          BY <4>2
      <3> QED
        BY <3>1, <3>2
    <2>7. Upto(h, k)
      BY <2>5, <2>6
    <2> QED
      BY <2>7
  <1>2. N \in 1 .. N
    OBVIOUS
  <1>3. PICK f : Upto(f, N)
    BY <1>1, <1>2
  <1>4. \A i \in 1 .. N : f[i] = IF i = 1 THEN seqs[i] ELSE f[i - 1] \o seqs[i]
    <2> TAKE i \in 1 .. N
    <2>1. i = 1 \/ i \in 2 .. N
      OBVIOUS
    <2> QED
      BY <1>3, <2>1
  <1>5. f = [i \in 1 .. N |-> f[i]]
    BY <1>3
  <1>6. [i \in 1 .. N |-> f[i]]
          = [i \in 1 .. N |-> IF i = 1 THEN seqs[i] ELSE f[i - 1] \o seqs[i]]
    BY <1>4
  <1> QED
    BY <1>5, <1>6

LEMMA DecomposedIs ==
  ASSUME NEW s \in Seq(DOMAIN Decomposition), NEW g, Growth(s, g)
  PROVE  /\ IsString(Decomposed(s))
         /\ Len(Decomposed(s)) = Len(s) + g[Len(s)]
         /\ HasPieces(Decomposed(s), s, g, Len(s))
  <1> DEFINE N    == Len(s)
             seqs == [j \in DOMAIN s |-> Pieces(s[j])]
             F(f) == [i \in 1 .. N |-> IF i = 1 THEN seqs[i] ELSE f[i - 1] \o seqs[i]]
             h    == CHOOSE f : f = F(f)
             Good(t, k) == IsString(t) /\ Len(t) = k + g[k] /\ HasPieces(t, s, g, k)
  <1>1. /\ N \in Nat /\ DOMAIN s = 1 .. N /\ Len(seqs) = N
        /\ \A j \in 1 .. N : seqs[j] = Pieces(s[j]) /\ s[j] \in DOMAIN Decomposition
    OBVIOUS
  <1>2. /\ g \in [0 .. N -> Nat] /\ g[0] = 0
        /\ \A n \in 1 .. N : g[n] = g[n - 1] + Len(Pieces(s[n])) - 1
    BY GrowthIs
  <1>3. CASE N = 0
    <2>1. Decomposed(s) = seqs /\ seqs = <<>>
      BY <1>1, <1>3 DEF Decomposed, FlattenSeq
    <2> QED
      <3>1. IsString(<<>>) /\ Len(<<>>) = 0
        BY DEF IsString
      <3>2. 1 .. N = {}
        BY <1>3
      <3>3. g[N] = 0
        BY <1>2, <1>3
      <3>4. HasPieces(Decomposed(s), s, g, N)
        BY <3>2, Zenon DEF HasPieces
      <3>5. Len(Decomposed(s)) = N + g[N]
        BY <1>3, <2>1, <3>1, <3>3
      <3> QED
        BY <2>1, <3>1, <3>4, <3>5
  <1>4. CASE N # 0
    <2>1. Decomposed(s) = h[N]
      BY <1>1, <1>4 DEF Decomposed, FlattenSeq
    <2>2. h = F(h)
      <3>1. \E f : f = F(f)
        <4>1. N >= 1
          <5>1. N \in Nat /\ N # 0
            BY <1>1, <1>4
          <5> HIDE DEF N
          <5> QED
            BY ONLY <5>1
        <4> HIDE DEF seqs, N
        <4> QED
          BY <1>1, <4>1, ConcatExists
      <3> HIDE DEF F
      <3> QED
        BY <3>1
    <2>3. /\ h[1] = <<>> \o Pieces(s[1])
          /\ \A n \in 2 .. N : h[n] = h[n - 1] \o Pieces(s[n])
      <3>1. \A n \in 1 .. N : h[n] = IF n = 1 THEN seqs[n] ELSE h[n - 1] \o seqs[n]
        <4> HIDE DEF h, seqs
        <4> QED
          BY <2>2
      <3>2. h[1] = Pieces(s[1]) /\ s[1] \in DOMAIN Decomposition
        <4>1. 1 \in 1 .. N
          BY <1>1, <1>4
        <4> HIDE DEF h, seqs, N
        <4> QED
          BY ONLY <1>1, <3>1, <4>1
      <3>3. h[1] = <<>> \o Pieces(s[1])
        <4>1. Pieces(s[1]) \in Seq(ToSet(Pieces(s[1])))
          BY <3>2, PiecesOf DEF IsString
        <4> HIDE DEF h
        <4> QED
          BY ONLY <3>2, <4>1, ConcatEmptySeq
      <3>4. ASSUME NEW n \in 2 .. N
            PROVE  h[n] = h[n - 1] \o Pieces(s[n])
        <4>1. n \in 1 .. N /\ n # 1
          BY <1>1
        <4>2. h[n] = h[n - 1] \o seqs[n] /\ seqs[n] = Pieces(s[n])
          <5> HIDE DEF h, seqs
          <5> QED
            BY <1>1, <3>1, <4>1
        <4> HIDE DEF h, seqs
        <4> QED
          BY <4>2
      <3> QED
        BY <3>3, <3>4
    <2> HIDE DEF h, F, seqs
    <2>4. IsDecomposed(<<>>, s, g, 0)
      <3>1. IsString(<<>>) /\ Len(<<>>) = 0
        <4>1. <<>> \in Seq({0}) /\ Len(<<>>) = 0
          OBVIOUS
        <4> QED
          BY <4>1, StringIsSeq
      <3> QED
        BY <1>2, <3>1 DEF IsDecomposed, HasPieces
    <2>5. \A n \in 1 .. N : IsDecomposed(h[n], s, g, n)
      <3> DEFINE Bad == {n \in 1 .. N : ~IsDecomposed(h[n], s, g, n)}
      <3> SUFFICES ASSUME Bad # {}
                   PROVE  FALSE
        OBVIOUS
      <3>1. PICK k \in Bad : \A c \in Bad : k <= c
        <4>1. Bad \in SUBSET Nat
          OBVIOUS
        <4> HIDE DEF Bad
        <4> QED
          BY <4>1, LeastOf
      <3>2. k \in 1 .. N /\ ~IsDecomposed(h[k], s, g, k)
        OBVIOUS
      <3>3. CASE k = 1
        <4>1. IsDecomposed(<<>>, s, g, k - 1) /\ k \in 1 .. Len(s) /\ h[k] = <<>> \o Pieces(s[k])
          BY <2>3, <2>4, <3>2, <3>3
        <4> QED
          BY <3>2, <4>1, AppendPieces
      <3>4. CASE k # 1
        <4>1. k - 1 \in 1 .. N /\ ~(k <= k - 1) /\ k \in 2 .. N /\ k \in 1 .. Len(s)
          BY <1>1, <3>2, <3>4
        <4>2. k - 1 \notin Bad
          <5> HIDE DEF Bad
          <5> QED
            BY <3>1, <4>1
        <4>3. IsDecomposed(h[k - 1], s, g, k - 1) /\ h[k] = h[k - 1] \o Pieces(s[k])
          BY <2>3, <4>1, <4>2
        <4>4. IsDecomposed(h[k - 1] \o Pieces(s[k]), s, g, k)
          BY <4>1, <4>3, AppendPieces
        <4> QED
          BY <3>2, <4>3, <4>4
      <3> QED
        BY <3>3, <3>4
    <2>6. IsDecomposed(Decomposed(s), s, g, N)
      BY <1>1, <1>4, <2>1, <2>5
    <2> QED
      BY <2>6 DEF IsDecomposed
  <1> QED
    BY <1>3, <1>4

\* Every place in the decomposed string is that of a piece.
LEMMA Covers ==
  ASSUME NEW s \in Seq(DOMAIN Decomposition), NEW g, Growth(s, g),
         NEW q \in 1 .. Len(s) + g[Len(s)]
  PROVE  \E n \in 1 .. Len(s) : \E i \in 1 .. Len(Pieces(s[n])) : q = n - 1 + g[n - 1] + i
  <1> DEFINE N == Len(s)
             Reach == {n \in 1 .. N : q <= n + g[n]}
  <1>1. /\ g \in [0 .. N -> Nat] /\ g[0] = 0
        /\ \A n \in 1 .. N : g[n] = g[n - 1] + Len(Pieces(s[n])) - 1
    BY GrowthIs
  <1>2. N \in Nat /\ N \in 0 .. N
    OBVIOUS
  <1>3. g[N] \in Nat /\ q \in 1 .. N + g[N]
    BY <1>1, <1>2
  <1>4. N \in Reach
    <2>1. N # 0
      BY <1>1, <1>3
    <2> QED
      BY <1>2, <1>3, <2>1
  <1>5. PICK n \in Reach : \A c \in Reach : n <= c
    <2>1. Reach \in SUBSET Nat
      OBVIOUS
    <2> HIDE DEF Reach
    <2> QED
      BY <1>4, <2>1, LeastOf
  <1>6. n \in 1 .. N /\ q <= n + g[n]
    OBVIOUS
  <1>7. n - 1 \in 0 .. N /\ g[n - 1] \in Nat /\ g[n] \in Nat
    BY <1>1, <1>2, <1>6, SMTT(60)
  <1>8. ~(q <= n - 1 + g[n - 1])
    <2>1. CASE n = 1
      BY <1>1, <1>3, <2>1
    <2>2. CASE n # 1
      <3>1. n - 1 \in 1 .. N /\ ~(n <= n - 1)
        BY <1>2, <1>6, <2>2
      <3>2. n - 1 \notin Reach
        <4> HIDE DEF Reach
        <4> QED
          BY <1>5, <3>1
      <3> QED
        BY <3>1, <3>2
    <2> QED
      BY <2>1, <2>2
  <1>9. Len(Pieces(s[n])) \in Nat
    <2>1. s[n] \in DOMAIN Decomposition
      BY <1>6
    <2> QED
      BY <2>1, PiecesOf
  <1> DEFINE before == g[n - 1]
             upto   == g[n]
             len    == Len(Pieces(s[n]))
             i      == q - (n - 1 + before)
  <1>10. /\ before \in Nat /\ upto \in Nat /\ len \in Nat /\ n \in Nat /\ q \in Nat
         /\ upto = before + len - 1 /\ q <= n + upto /\ ~(q <= n - 1 + before)
    BY <1>1, <1>3, <1>6, <1>7, <1>8, <1>9
  <1>11. i \in 1 .. len /\ q = n - 1 + before + i
    <2> HIDE DEF before, upto, len
    <2> QED
      BY ONLY <1>10
  <1> QED
    BY <1>6, <1>11

LEMMA MapIsString ==
  ASSUME NEW n \in Nat, NEW t, t = [j \in 1 .. n |-> t[j]]
  PROVE  IsString(t) /\ Len(t) = n /\ DOMAIN t = 1 .. n
  <1>1. \A j \in 1 .. n : t[j] \in ToSet(t)
    BY DEF ToSet
  <1>2. t \in [1 .. n -> ToSet(t)]
    BY <1>1
  <1> QED
    BY <1>2 DEF IsString

LEMMA StringIsMap ==
  ASSUME NEW t, IsString(t)
  PROVE  Len(t) \in Nat /\ DOMAIN t = 1 .. Len(t) /\ t = [j \in 1 .. Len(t) |-> t[j]]
  BY DEF IsString

\* A string that has all the pieces is the decomposition, in which every code
\* point has a combining class.
LEMMA AllPieces ==
  ASSUME NEW s \in Seq(DOMAIN Decomposition), NEW g, Growth(s, g),
         NEW t, IsDecomposed(t, s, g, Len(s))
  PROVE  t = Decomposed(s)
  <1> DEFINE d == Decomposed(s)
             L == Len(s) + g[Len(s)]
  <1>1. /\ IsString(t) /\ Len(t) = L /\ HasPieces(t, s, g, Len(s))
        /\ IsString(d) /\ Len(d) = L /\ HasPieces(d, s, g, Len(s))
    BY DecomposedIs DEF IsDecomposed
  <1>2. \A q \in 1 .. L : t[q] = d[q]
    <2> TAKE q \in 1 .. L
    <2>1. PICK n \in 1 .. Len(s) : \E i \in 1 .. Len(Pieces(s[n])) : q = n - 1 + g[n - 1] + i
      BY Covers
    <2>2. PICK i \in 1 .. Len(Pieces(s[n])) : q = n - 1 + g[n - 1] + i
      BY <2>1
    <2> HIDE DEF d
    <2> QED
      BY <1>1, <2>2 DEF HasPieces
  <1> HIDE DEF d, L
  <1>3. t = [j \in 1 .. L |-> t[j]] /\ d = [j \in 1 .. L |-> d[j]]
    BY <1>1, StringIsMap
  <1>4. t = d
    BY ONLY <1>2, <1>3
  <1> QED
    BY <1>4 DEF d

LEMMA DecomposedClasses ==
  ASSUME NEW s \in Seq(DOMAIN Decomposition)
  PROVE  /\ IsString(Decomposed(s))
         /\ \A q \in DOMAIN Decomposed(s) : get_ccc(Decomposed(s)[q]) \in Nat
  <1> DEFINE d == Decomposed(s)
  <1>1. PICK g : Growth(s, g)
    BY AdditionalElements
  <1>2. IsString(d) /\ Len(d) = Len(s) + g[Len(s)] /\ HasPieces(d, s, g, Len(s))
    BY <1>1, DecomposedIs
  <1> HIDE DEF d
  <1>3. DOMAIN d = 1 .. Len(s) + g[Len(s)]
    BY <1>2, StringIsMap
  <1>4. ASSUME NEW q \in DOMAIN d
        PROVE  get_ccc(d[q]) \in Nat
    <2>1. PICK n \in 1 .. Len(s) : \E i \in 1 .. Len(Pieces(s[n])) : q = n - 1 + g[n - 1] + i
      BY <1>1, <1>3, Covers
    <2>2. PICK i \in 1 .. Len(Pieces(s[n])) : q = n - 1 + g[n - 1] + i
      BY <2>1
    <2>3. d[q] = Pieces(s[n])[i]
      BY <1>2, <2>2 DEF HasPieces
    <2>4. s[n] \in DOMAIN Decomposition
      OBVIOUS
    <2>5. i \in DOMAIN Pieces(s[n])
      BY <2>4, PiecesOf, StringIsMap
    <2> QED
      BY <2>3, <2>4, <2>5, CccAssumption
  <1> QED
    BY <1>2, <1>4 DEF d

LEMMA NothingToDecompose ==
  ASSUME NEW s \in Seq(DOMAIN Decomposition), ~decomposition_needed(s)
  PROVE  Decomposed(s) = s
  <1>1. PICK g : Growth(s, g)
    BY AdditionalElements
  <1>2. ASSUME NEW n \in 1 .. Len(s)
        PROVE  Pieces(s[n]) = <<s[n]>> /\ Len(Pieces(s[n])) = 1 /\ More(s[n]) = 0
    <2>1. DecompositionLength(s[n]) = 0 /\ s[n] \in DOMAIN Decomposition
      BY DEF decomposition_needed
    <2>2. ~Syllable(s[n])
      BY <2>1 DEF DecompositionLength
    <2>3. Len(Canonical(s[n])) = 0
      BY <2>1, <2>2 DEF DecompositionLength
    <2>4. Canonical(s[n]) \in Seq(DOMAIN Decomposition)
      <3>1. Decomposition[s[n]] \in Seq(DOMAIN Decomposition)
        BY <2>1, TablesAssumption
      <3>2. <<>> \in Seq(DOMAIN Decomposition)
        OBVIOUS
      <3> QED
        BY ONLY <2>2, <3>1, <3>2 DEF Canonical
    <2>5. Canonical(s[n]) = <<>>
      BY <2>3, <2>4
    <2> QED
      BY <2>1, <2>2, <2>5 DEF Pieces, More
  <1>3. \A k \in 0 .. Len(s) : g[k] = 0
    <2> DEFINE Bad == {k \in 0 .. Len(s) : g[k] # 0}
    <2> SUFFICES ASSUME Bad # {}
                 PROVE  FALSE
      OBVIOUS
    <2>1. PICK k \in Bad : \A c \in Bad : k <= c
      <3>1. Bad \in SUBSET Nat
        OBVIOUS
      <3> HIDE DEF Bad
      <3> QED
        BY <3>1, LeastOf
    <2>2. k \in 0 .. Len(s) /\ g[k] # 0 /\ k # 0
      BY <1>1, GrowthIs
    <2>3. k \in 1 .. Len(s) /\ k - 1 \in 0 .. Len(s) /\ ~(k <= k - 1)
      BY <2>2
    <2>4. k - 1 \notin Bad
      <3> HIDE DEF Bad
      <3> QED
        BY <2>1, <2>3
    <2>5. g[k] = g[k - 1] + Len(Pieces(s[k])) - 1
      BY <1>1, <2>3, GrowthIs
    <2>6. g[k - 1] = 0
      BY <2>3, <2>4
    <2>7. Len(Pieces(s[k])) = 1
      BY <1>2, <2>3
    <2> QED
      BY ONLY <2>2, <2>5, <2>6, <2>7
  <1>4. HasPieces(s, s, g, Len(s))
    <2> SUFFICES ASSUME NEW n \in 1 .. Len(s), NEW i \in 1 .. Len(Pieces(s[n]))
                 PROVE  s[n - 1 + g[n - 1] + i] = Pieces(s[n])[i]
      BY DEF HasPieces
    <2>1. i = 1 /\ g[n - 1] = 0 /\ n - 1 + 0 + 1 = n
      <3>1. Len(Pieces(s[n])) = 1 /\ Len(s) \in Nat
        BY <1>2
      <3>2. n - 1 \in 0 .. Len(s) /\ n - 1 + 0 + 1 = n
        BY <3>1
      <3>3. i \in 1 .. 1
        BY <3>1
      <3> QED
        BY <1>3, <3>2, <3>3
    <2> QED
      BY <1>2, <2>1
  <1>5. IsString(s) /\ Len(s) = Len(s) + g[Len(s)]
    BY <1>3, StringIsSeq
  <1>6. IsDecomposed(s, s, g, Len(s))
    BY <1>4, <1>5 DEF IsDecomposed
  <1> QED
    BY <1>1, <1>6, AllPieces

LEMMA ExceptIsString ==
  ASSUME NEW t, IsString(t), NEW k, NEW c
  PROVE  /\ IsString([t EXCEPT ![k] = c]) /\ Len([t EXCEPT ![k] = c]) = Len(t)
         /\ DOMAIN [t EXCEPT ![k] = c] = 1 .. Len(t)
         /\ \A j \in 1 .. Len(t) : [t EXCEPT ![k] = c][j] = IF j = k THEN c ELSE t[j]
  <1> DEFINE u == [t EXCEPT ![k] = c]
  <1>1. Len(t) \in Nat /\ DOMAIN t = 1 .. Len(t)
    BY StringIsMap
  <1>2. u = [j \in 1 .. Len(t) |-> u[j]]
    BY <1>1
  <1>3. \A j \in 1 .. Len(t) : u[j] = IF j = k THEN c ELSE t[j]
    BY <1>1
  <1> HIDE DEF u
  <1>4. IsString(u) /\ Len(u) = Len(t) /\ DOMAIN u = 1 .. Len(t)
    BY ONLY <1>1, <1>2, MapIsString
  <1> QED
    BY <1>3, <1>4 DEF u

-----------------------------------------------------------------------------
(* The invariant.                                                          *)

\* decompose() has read down to input_count, and below descending_idx there is
\* exactly the room that the code points up to input_count are to grow by.
DecomposedTo(g) ==
  /\ Growth(source, g)
  /\ Len(input) = Len(source) + g[Len(source)]
  /\ input_count \in 0 .. Len(source)
  /\ descending_idx = input_count + g[input_count]
  /\ \A j \in 1 .. input_count : input[j] = source[j]
  /\ \A n \in input_count + 1 .. Len(source) : \A i \in 1 .. Len(Pieces(source[n])) :
       input[n - 1 + g[n - 1] + i] = Pieces(source[n])[i]

Decomposing == pc = "decompose" => \E g : DecomposedTo(g)

\* Strings, and what the order of marks is read from.
Strung ==
  /\ pc # "done" => IsString(input)
  /\ pc \in {"decompose", "sort", "shift"} => source \in Seq(DOMAIN Decomposition)
  /\ pc \in {"compose", "marks"} => input_count \in Nat

Classes ==
  /\ pc \in {"sort", "shift"} => \A j \in DOMAIN input : get_ccc(input[j]) \in Nat
  /\ pc = "shift" =>
       /\ get_ccc(current_character) \in Nat \ {0}
       /\ \A j \in back_idx .. idx : ~Starter(input[j])

IInv == TypeOK /\ Strung /\ Decomposing /\ Classes /\ MarksInOrder /\ StartersStay

LEMMA GrowthInPlace ==
  ASSUME IInv
  PROVE  DecomposesInPlace
  <1> SUFFICES ASSUME pc = "decompose"
               PROVE  /\ SubSeq(input, 1, input_count) = SubSeq(source, 1, input_count)
                      /\ input_count = 0 => input = Decomposed(source)
    BY DEF DecomposesInPlace
  <1>1. source \in Seq(DOMAIN Decomposition) /\ IsString(input)
    BY DEF IInv, Strung
  <1>2. PICK g : DecomposedTo(g)
    BY DEF IInv, Decomposing
  <1>3. SubSeq(input, 1, input_count) = SubSeq(source, 1, input_count)
    <2>1. /\ input_count \in Nat
          /\ \A j \in 1 .. input_count : input[j] = source[j]
      BY <1>1, <1>2 DEF DecomposedTo
    <2>2. \A j \in 1 .. input_count : 1 + j - 1 = j
      BY <2>1
    <2> QED
      BY <2>1, <2>2
  <1>4. CASE input_count = 0
    <2>1. HasPieces(input, source, g, Len(source))
      BY <1>2, <1>4 DEF DecomposedTo, HasPieces
    <2>2. Growth(source, g) /\ IsDecomposed(input, source, g, Len(source))
      BY <1>1, <1>2, <2>1 DEF DecomposedTo, IsDecomposed
    <2> QED
      BY <1>1, <1>3, <2>2, AllPieces
  <1> QED
    BY <1>3, <1>4

LEMMA CallSteps ==
  ASSUME IInv, NEW s \in Inputs, Call(s)
  PROVE  IInv'
  <1>1. s \in Seq(DOMAIN Decomposition) /\ IsString(s) /\ source' = s /\ Len(s) \in Nat
    BY TablesAssumption, StringIsSeq DEF Call
  <1>2. ok \in BOOLEAN
    BY DEF IInv, TypeOK
  <1>3. CASE \E answer \in BOOLEAN : Return(answer)
    BY <1>3 DEF Return, IInv, TypeOK, Strung, Decomposing, Classes, MarksInOrder, StartersStay
  <1>4. CASE /\ decomposition_needed(s)
             /\ input' = s \o [j \in 1 .. additional_elements(s) |-> 0]
             /\ input_count' = Len(s) /\ descending_idx' = Len(input')
             /\ pc' = "decompose" /\ ok' = ok
    <2>1. PICK g : Growth(s, g) /\ additional_elements(s) = g[Len(s)]
      BY <1>1, AdditionalElements
    <2> DEFINE zeros == [j \in 1 .. additional_elements(s) |-> 0]
    <2>2. g[Len(s)] \in Nat /\ g[0] = 0
      <3>1. Len(s) \in 0 .. Len(s)
        BY <1>1
      <3> QED
        BY <1>1, <2>1, <3>1, GrowthIs
    <2>3. zeros \in Seq({0}) /\ Len(zeros) = g[Len(s)]
      BY <2>1, <2>2
    <2>4. PICK S : s \in Seq(S) /\ zeros \in Seq(S)
      <3>1. s \in Seq(ToSet(s) \cup {0}) /\ zeros \in Seq(ToSet(s) \cup {0})
        BY ONLY <1>1, <2>3, SeqMonotonic DEF IsString
      <3> QED
        BY <3>1
    <2>5. input' = s \o zeros
      BY <1>4
    <2> HIDE DEF zeros
    <2>6. /\ input' \in Seq(S) /\ Len(input') = Len(s) + g[Len(s)]
          /\ \A j \in 1 .. Len(s) : input'[j] = s[j]
      <3>1. /\ s \o zeros \in Seq(S) /\ Len(s \o zeros) = Len(s) + Len(zeros)
            /\ \A i \in 1 .. Len(s) + Len(zeros) :
                 (s \o zeros)[i] = IF i <= Len(s) THEN s[i] ELSE zeros[i - Len(s)]
        BY ONLY <2>4, ConcatProperties
      <3>2. \A j \in 1 .. Len(s) : j \in 1 .. Len(s) + Len(zeros) /\ j <= Len(s)
        BY <1>1, <2>2, <2>3
      <3> QED
        BY <2>3, <2>5, <3>1, <3>2
    <2>7. IsString(input')
      BY <2>6, StringIsSeq
    <2>8. DecomposedTo(g)'
      <3>1. Len(s) \in 0 .. Len(s) /\ Len(s) + 1 .. Len(s) = {}
        BY <1>1
      <3> QED
        BY <1>1, <1>4, <2>1, <2>6, <3>1 DEF DecomposedTo
    <2>9. TypeOK'
      <3>1. /\ input_count' \in Nat /\ descending_idx' = input_count' + g[Len(s)]
            /\ Len(input') = descending_idx'
        BY <1>1, <1>4, <2>6
      <3>2. input_count' = 0 => descending_idx' = 0
        <4>1. input_count' = Len(s)
          BY <1>4
        <4> QED
          BY ONLY <2>2, <3>1, <4>1
      <3>3. input_count' \in 0 .. descending_idx' /\ descending_idx' <= Len(input')
        BY <2>2, <3>1
      <3> QED
        BY <1>2, <1>4, <3>2, <3>3 DEF TypeOK
    <2> QED
      BY <1>1, <1>4, <2>7, <2>8, <2>9
        DEF IInv, Strung, Decomposing, Classes, MarksInOrder, StartersStay
  <1>5. CASE /\ ~decomposition_needed(s)
             /\ input' = s /\ idx' = 2 /\ pc' = "sort" /\ ok' = ok
    <2>1. Decomposed(s) = s
      BY <1>1, <1>5, NothingToDecompose
    <2>2. \A j \in DOMAIN s : get_ccc(s[j]) \in Nat
      BY <1>1, <2>1, DecomposedClasses
    <2>3. idx' \in 2 .. Len(input') + 1 \/ (input' = <<>> /\ idx' = 2)
      BY <1>1, <1>5
    <2>4. 2 .. idx' - 1 = {}
      BY <1>5
    <2> QED
      BY <1>1, <1>2, <1>5, <2>1, <2>2, <2>3, <2>4
        DEF IInv, TypeOK, Strung, Decomposing, Classes, MarksInOrder, StartersStay
  <1> QED
    BY <1>3, <1>4, <1>5 DEF Call

LEMMA DecomposeTurns ==
  ASSUME IInv, DecomposeTurn
  PROVE  IInv'
  <1> DEFINE n      == input_count
             pieces == Pieces(input[n])
             start  == descending_idx - Len(pieces)
             N      == Len(source)
  <1>1. PICK g : DecomposedTo(g)
    BY DEF IInv, Decomposing, DecomposeTurn
  <1>2. /\ source \in Seq(DOMAIN Decomposition) /\ IsString(input) /\ pc = "decompose" /\ n > 0
        /\ input' = [j \in DOMAIN input |->
                       IF j \in start + 1 .. descending_idx THEN pieces[j - start] ELSE input[j]]
        /\ descending_idx' = start /\ n' = n - 1
        /\ pc' = pc /\ source' = source /\ ok' = ok
    BY DEF IInv, Strung, DecomposeTurn
  <1>3. /\ N \in Nat /\ n \in 1 .. N /\ n - 1 \in 0 .. N /\ n \in 0 .. N
        /\ n - 1 + 1 .. N = n .. N /\ N \in 0 .. N
    BY <1>1, <1>2 DEF DecomposedTo
  <1>4. pieces = Pieces(source[n]) /\ source[n] \in DOMAIN Decomposition
    <2>1. n \in 1 .. n
      BY <1>3
    <2> QED
      BY <1>1, <1>2, <1>3, <2>1 DEF DecomposedTo
  <1> HIDE DEF pieces
  <1>5. /\ g \in [0 .. N -> Nat] /\ g[0] = 0
        /\ \A m \in 1 .. N : g[m] = g[m - 1] + Len(Pieces(source[m])) - 1
        /\ \A a \in 0 .. N : \A b \in a .. N : g[a] <= g[b]
    BY <1>1, <1>2, GrowthIs DEF DecomposedTo
  <1>6. Len(pieces) \in Nat
    BY <1>4, PiecesOf
  <1>7. /\ g[n] \in Nat /\ g[n - 1] \in Nat /\ g[N] \in Nat /\ g[n] <= g[N]
        /\ g[n] = g[n - 1] + Len(pieces) - 1
        /\ descending_idx = n + g[n] /\ Len(input) = N + g[N]
    <2>1. N \in n .. N
      BY <1>3
    <2> QED
      BY <1>1, <1>3, <1>4, <1>5, <2>1 DEF DecomposedTo
  <1>8. start = n - 1 + g[n - 1] /\ start + Len(pieces) = descending_idx
    <2> DEFINE before == g[n - 1]  upto == g[n]  width == Len(pieces)
    <2>1. /\ n \in Nat /\ before \in Nat /\ upto \in Nat /\ width \in Nat
          /\ upto = before + width - 1 /\ descending_idx = n + upto
          /\ start = descending_idx - width
      BY <1>3, <1>6, <1>7
    <2> HIDE DEF before, upto, width, start, n
    <2>2. start = n - 1 + before /\ start + width = descending_idx
      BY ONLY <2>1
    <2> QED
      BY <2>2 DEF before, width
  <1> HIDE DEF start
  <1>9. IsString(input') /\ Len(input') = Len(input) /\ DOMAIN input = 1 .. N + g[N]
    <2>1. Len(input) \in Nat /\ DOMAIN input = 1 .. Len(input)
      BY <1>2, StringIsMap
    <2>2. input' = [j \in 1 .. Len(input) |-> input'[j]]
      BY <1>2, <2>1
    <2> QED
      BY <1>7, <2>1, <2>2, MapIsString
  <1>10. ASSUME NEW j \in 1 .. n - 1
         PROVE  input'[j] = input[j]
    <2> DEFINE upto == g[n]  before == g[n - 1]  all == g[N]
    <2>1. j \in 1 .. N + all /\ ~(j \in start + 1 .. descending_idx)
      <3>1. /\ upto \in Nat /\ before \in Nat /\ all \in Nat /\ N \in Nat /\ n \in 1 .. N
            /\ start = n - 1 + before /\ j \in 1 .. n - 1
        BY <1>3, <1>7, <1>8
      <3> HIDE DEF upto, before, all, n, N
      <3>2. j \in 1 .. N + all /\ j <= start /\ start \in Nat
        BY ONLY <3>1
      <3> QED
        BY ONLY <3>2
    <2> QED
      BY <1>2, <1>9, <2>1
  <1>11. ASSUME NEW m \in n .. N, NEW i \in 1 .. Len(Pieces(source[m]))
         PROVE  input'[m - 1 + g[m - 1] + i] = Pieces(source[m])[i]
    <2> DEFINE at == m - 1 + g[m - 1] + i
    <2>1. m \in 1 .. N /\ m - 1 \in 0 .. N
      BY <1>3
    <2>2. at \in 1 .. N + g[N]
      BY <1>1, <1>2, <1>3, <2>1, PiecesFit DEF DecomposedTo
    <2>3. CASE m = n
      <3>1. at = start + i /\ i \in 1 .. Len(pieces)
        BY <1>4, <1>8, <2>3
      <3>2. at \in start + 1 .. descending_idx /\ at - start = i
        <4>1. /\ start \in Nat /\ descending_idx = start + Len(pieces) /\ Len(pieces) \in Nat
              /\ at = start + i /\ i \in 1 .. Len(pieces)
          <5>1. start \in Nat
            <6> DEFINE before == g[n - 1]
            <6>1. before \in Nat /\ n \in Nat /\ n >= 1 /\ start = n - 1 + before
              BY <1>3, <1>7, <1>8
            <6> HIDE DEF before, n
            <6> QED
              BY ONLY <6>1
          <5> HIDE DEF at
          <5> QED
            BY ONLY <1>6, <1>8, <3>1, <5>1
        <4> HIDE DEF at
        <4> QED
          BY ONLY <4>1
      <3> HIDE DEF at
      <3>3. input'[at] = pieces[i]
        BY <1>2, <1>9, <2>2, <3>2
      <3> QED
        BY <1>4, <2>3, <3>3 DEF at
    <2>4. CASE m # n
      <3>1. m \in n + 1 .. N /\ m - 1 \in n .. N
        BY <1>3, <2>1, <2>4
      <3>2. g[m - 1] \in Nat /\ g[n] <= g[m - 1]
        BY <1>3, <1>5, <2>1, <3>1
      <3>3. i \in Nat /\ i >= 1
        OBVIOUS
      <3>4. ~(at \in start + 1 .. descending_idx)
        <4> DEFINE upto == g[n]  before == g[m - 1]
        <4>1. /\ n \in Nat /\ m \in Nat /\ upto \in Nat /\ before \in Nat /\ i \in Nat
              /\ n + 1 <= m /\ upto <= before /\ i >= 1
              /\ at = m - 1 + before + i /\ descending_idx = n + upto
          BY <1>3, <1>7, <3>1, <3>2, <3>3
        <4> HIDE DEF upto, before, at, n
        <4>2. at > descending_idx /\ at \in Nat /\ descending_idx \in Nat
          BY ONLY <4>1
        <4> HIDE DEF start
        <4> QED
          BY ONLY <4>2
      <3>5. input[at] = Pieces(source[m])[i]
        BY <1>1, <3>1 DEF DecomposedTo
      <3> HIDE DEF at
      <3>6. input'[at] = input[at]
        BY <1>2, <1>9, <2>2, <3>4
      <3> QED
        BY <3>5, <3>6 DEF at
    <2> QED
      BY <2>3, <2>4
  <1>12. DecomposedTo(g)'
    <2>1. \A j \in 1 .. n' : input'[j] = source'[j]
      <3> TAKE j \in 1 .. n'
      <3>1. j \in 1 .. n - 1 /\ j \in 1 .. n
        BY <1>2, <1>3
      <3> QED
        BY <1>1, <1>2, <1>10, <3>1 DEF DecomposedTo
    <2>2. \A m \in n' + 1 .. Len(source') : \A i \in 1 .. Len(Pieces(source'[m])) :
            input'[m - 1 + g[m - 1] + i] = Pieces(source'[m])[i]
      BY <1>2, <1>3, <1>11, SMTT(60)
    <2>3. n' \in 0 .. N /\ descending_idx' = n' + g[n'] /\ Len(input') = N + g[N]
      BY <1>2, <1>3, <1>7, <1>8, <1>9
    <2>4. Growth(source', g) /\ Len(source') = N
      BY <1>1, <1>2 DEF DecomposedTo
    <2> HIDE DEF n, N
    <2> QED
      BY <2>1, <2>2, <2>3, <2>4 DEF DecomposedTo, n, N
  <1>13. TypeOK'
    <2>1. /\ n' \in Nat /\ descending_idx' = n' + g[n - 1] /\ g[n - 1] \in Nat
          /\ descending_idx' <= Len(input')
      BY <1>2, <1>3, <1>6, <1>7, <1>8, <1>9, SMTT(60)
    <2>2. n' = 0 => descending_idx' = 0
      BY <1>2, <1>3, <1>5, <2>1
    <2>3. n' \in 0 .. descending_idx'
      BY <2>1
    <2> QED
      BY <1>2, <2>1, <2>2, <2>3 DEF IInv, TypeOK
  <1> QED
    BY <1>2, <1>9, <1>12, <1>13
      DEF IInv, Strung, Decomposing, Classes, MarksInOrder, StartersStay

LEMMA EndDecomposes ==
  ASSUME IInv, EndDecompose
  PROVE  IInv'
  <1>1. /\ source \in Seq(DOMAIN Decomposition) /\ IsString(input) /\ ok \in BOOLEAN
        /\ input = Decomposed(source)
    BY GrowthInPlace DEF IInv, TypeOK, Strung, EndDecompose, DecomposesInPlace
  <1>2. /\ pc' = "sort" /\ idx' = 2 /\ source' = source /\ input' = input /\ ok' = ok
    BY DEF EndDecompose
  <1>3. \A j \in DOMAIN input : get_ccc(input[j]) \in Nat
    BY <1>1, DecomposedClasses
  <1>4. idx' \in 2 .. Len(input') + 1 \/ (input' = <<>> /\ idx' = 2)
    <2>1. Len(input) \in Nat /\ (Len(input) = 0 => input = <<>>)
      BY <1>1 DEF IsString
    <2> QED
      BY <1>2, <2>1
  <1>5. 2 .. idx' - 1 = {}
    BY <1>2
  <1> QED
    BY <1>1, <1>2, <1>3, <1>4, <1>5
      DEF IInv, TypeOK, Strung, Decomposing, Classes, MarksInOrder, StartersStay

\* What the steps of sort_marks() start from.
LEMMA Sorting ==
  ASSUME IInv, pc \in {"sort", "shift"}
  PROVE  /\ source \in Seq(DOMAIN Decomposition) /\ IsString(input) /\ ok \in BOOLEAN
         /\ DOMAIN input = 1 .. Len(input) /\ Len(input) \in Nat
         /\ Len(input) = Len(Decomposed(source)) /\ idx \in Nat
         /\ \A j \in 1 .. Len(input) :
              /\ get_ccc(input[j]) \in Nat
              /\ Starter(input[j]) <=> Starter(Decomposed(source)[j])
              /\ Starter(input[j]) => input[j] = Decomposed(source)[j]
  <1>1. IsString(input) /\ ok \in BOOLEAN /\ source \in Seq(DOMAIN Decomposition)
    BY DEF IInv, TypeOK, Strung
  <1>2. DOMAIN input = 1 .. Len(input) /\ Len(input) \in Nat
    BY <1>1, StringIsMap
  <1>3. idx \in Nat
    <2>1. CASE pc = "sort"
      BY <1>2, <2>1 DEF IInv, TypeOK
    <2>2. CASE pc = "shift"
      BY <1>2, <2>2 DEF IInv, TypeOK
    <2> QED
      BY <2>1, <2>2
  <1> QED
    BY <1>1, <1>2, <1>3 DEF IInv, Classes, StartersStay

LEMMA PassStarters ==
  ASSUME IInv, PassStarter
  PROVE  IInv'
  <1>1. /\ pc = "sort" /\ idx <= Len(input) /\ Starter(input[idx]) /\ idx' = idx + 1
        /\ pc' = pc /\ source' = source /\ input' = input /\ ok' = ok
    BY DEF PassStarter
  <1>2. Len(input) \in Nat /\ idx \in Nat
    BY <1>1, Sorting
  <1>3. idx \in 2 .. Len(input) + 1 \/ (input = <<>> /\ idx = 2)
    BY <1>1 DEF IInv, TypeOK
  <1>4. idx' \in 2 .. Len(input') + 1
    BY <1>1, <1>2, <1>3
  <1>5. \A j \in 2 .. idx' - 1 : ~OutOfOrder(input', j)
    <2> TAKE j \in 2 .. idx' - 1
    <2>1. j = idx \/ j \in 2 .. idx - 1
      BY <1>1, <1>2
    <2>2. CASE j = idx
      BY <1>1, <2>2 DEF OutOfOrder
    <2>3. CASE j \in 2 .. idx - 1
      BY <1>1, <2>3 DEF IInv, MarksInOrder
    <2> QED
      BY <2>1, <2>2, <2>3
  <1> QED
    <2>1. TypeOK'
      BY <1>1, <1>4 DEF IInv, TypeOK
    <2>2. MarksInOrder'
      BY <1>1, <1>5 DEF MarksInOrder
    <2> QED
      BY <1>1, <2>1, <2>2 DEF IInv, Strung, Decomposing, Classes, StartersStay

LEMMA TakeMarks ==
  ASSUME IInv, TakeMark
  PROVE  IInv'
  <1>1. /\ pc = "sort" /\ idx <= Len(input) /\ ~Starter(input[idx])
        /\ current_character' = input[idx] /\ back_idx' = idx /\ pc' = "shift"
        /\ source' = source /\ input' = input /\ idx' = idx /\ ok' = ok
    BY DEF TakeMark
  <1>2. /\ Len(input) \in Nat /\ idx \in Nat
        /\ \A j \in 1 .. Len(input) : get_ccc(input[j]) \in Nat
    BY <1>1, Sorting
  <1>3. idx \in 2 .. Len(input) + 1 \/ (input = <<>> /\ idx = 2)
    BY <1>1 DEF IInv, TypeOK
  <1>4. idx \in 1 .. Len(input) /\ idx \in 1 .. idx /\ idx + 1 .. idx = {} /\ idx .. idx = {idx}
    BY <1>1, <1>2, <1>3
  <1>5. get_ccc(input[idx]) \in Nat \ {0}
    BY <1>1, <1>2, <1>4 DEF Starter
  <1>6. TypeOK'
    BY <1>1, <1>4 DEF IInv, TypeOK
  <1>7. Classes'
    BY <1>1, <1>4, <1>5 DEF IInv, Classes
  <1>8. MarksInOrder'
    <2>1. \A j \in 2 .. idx : j < idx => j \in 2 .. idx - 1
      BY <1>2
    <2>2. \A j \in 2 .. idx : j < idx => ~OutOfOrder(input, j)
      BY <1>1, <2>1 DEF IInv, MarksInOrder
    <2> QED
      BY <1>1, <1>2, <1>4, <2>2 DEF MarksInOrder
  <1> QED
    BY <1>1, <1>6, <1>7, <1>8 DEF IInv, Strung, Decomposing, StartersStay

LEMMA ShiftMarks ==
  ASSUME IInv, ShiftMark
  PROVE  IInv'
  <1> DEFINE b == back_idx
             d == Decomposed(source)
  <1>1. /\ pc = "shift" /\ b # 1 /\ MovesBehind(input[b - 1])
        /\ input' = [input EXCEPT ![b] = input[b - 1]] /\ b' = b - 1
        /\ pc' = pc /\ source' = source /\ idx' = idx
        /\ current_character' = current_character /\ ok' = ok
    BY DEF ShiftMark
  <1>2. /\ source \in Seq(DOMAIN Decomposition) /\ IsString(input) /\ ok \in BOOLEAN
        /\ DOMAIN input = 1 .. Len(input) /\ Len(input) \in Nat
        /\ Len(input) = Len(d) /\ idx \in Nat
        /\ \A j \in 1 .. Len(input) :
             /\ get_ccc(input[j]) \in Nat
             /\ Starter(input[j]) <=> Starter(d[j])
             /\ Starter(input[j]) => input[j] = d[j]
    BY <1>1, Sorting
  <1> HIDE DEF d
  <1>3. b \in 2 .. idx /\ b - 1 \in 1 .. idx /\ idx \in 1 .. Len(input) /\ b - 1 < b
    BY <1>1, <1>2 DEF IInv, TypeOK
  <1>4. b \in 1 .. Len(input) /\ b - 1 \in 1 .. Len(input) /\ b - 1 # b
    BY <1>2, <1>3
  <1>5. /\ IsString(input') /\ Len(input') = Len(input) /\ DOMAIN input' = 1 .. Len(input)
        /\ input'[b] = input[b - 1]
        /\ \A j \in 1 .. Len(input) : j # b => input'[j] = input[j]
    <2> DEFINE c == input[b - 1]
    <2>1. IsString(input) /\ input' = [input EXCEPT ![b] = c]
      BY <1>1, <1>2
    <2> HIDE DEF c, b
    <2>2. /\ IsString(input') /\ Len(input') = Len(input) /\ DOMAIN input' = 1 .. Len(input)
          /\ \A j \in 1 .. Len(input) : input'[j] = IF j = b THEN c ELSE input[j]
      BY ONLY <2>1, ExceptIsString
    <2>3. input'[b] = c /\ \A j \in 1 .. Len(input) : j # b => input'[j] = input[j]
      BY ONLY <1>4, <2>2
    <2> QED
      BY <2>2, <2>3 DEF c
  <1>6. /\ get_ccc(current_character) \in Nat \ {0}
        /\ \A j \in b .. idx : ~Starter(input[j])
    BY <1>1 DEF IInv, Classes
  <1>7. ~Starter(input[b - 1]) /\ ~Starter(input[b]) /\ get_ccc(input[b - 1]) \in Nat
    <2>1. b \in b .. idx /\ get_ccc(input[b - 1]) \in Nat
      BY <1>2, <1>3, <1>4
    <2> QED
      BY <1>1, <1>6, <2>1 DEF MovesBehind, Starter
  <1>8. /\ \A j \in 2 .. idx : (j < idx \/ b < idx) => ~OutOfOrder(input, j)
        /\ b < idx => input[b] = input[b + 1]
        /\ \A j \in b + 1 .. idx : MovesBehind(input[j])
    BY <1>1 DEF IInv, MarksInOrder
  <1>9. StartersStay'
    <2>1. ASSUME NEW j \in 1 .. Len(input)
          PROVE  /\ Starter(input'[j]) <=> Starter(d[j])
                 /\ Starter(input'[j]) => input'[j] = d[j]
      BY <1>2, <1>4, <1>5, <1>7
    <2> QED
      BY <1>1, <1>2, <1>5, <2>1 DEF StartersStay, d
  <1>10. Classes'
    <2>1. ASSUME NEW j \in 1 .. Len(input)
          PROVE  get_ccc(input'[j]) \in Nat
      BY <1>2, <1>4, <1>5, <1>7
    <2>2. ASSUME NEW j \in b - 1 .. idx
          PROVE  ~Starter(input'[j])
      <3>1. j \in 1 .. Len(input) /\ (j = b \/ j = b - 1 \/ j \in b .. idx)
        BY <1>2, <1>3
      <3> QED
        BY <1>4, <1>5, <1>6, <1>7, <3>1
    <2> QED
      BY <1>1, <1>5, <1>6, <2>1, <2>2 DEF Classes
  <1>11. MarksInOrder'
    <2>1. ASSUME NEW j \in 2 .. idx
          PROVE  ~OutOfOrder(input', j)
      <3>1. j \in 1 .. Len(input) /\ j - 1 \in 1 .. Len(input) /\ j \in Nat
        BY <1>2, <1>3
      <3>2. CASE j = b
        <4>1. input'[j] = input[b - 1] /\ input'[j - 1] = input[b - 1]
          BY <1>4, <1>5, <3>2
        <4>2. ~(get_ccc(input[b - 1]) > get_ccc(input[b - 1]))
          BY <1>7
        <4> QED
          BY <4>1, <4>2 DEF OutOfOrder
      <3>3. CASE j = b + 1
        <4>1. b < idx /\ b \in 2 .. idx /\ j - 1 = b /\ j # b
          BY <1>2, <1>3, <3>3
        <4>2. input'[j] = input[b] /\ input'[j - 1] = input[b - 1]
          BY <1>5, <1>8, <3>1, <3>3, <4>1
        <4>3. ~OutOfOrder(input, b)
          BY <1>8, <4>1
        <4> QED
          BY <4>2, <4>3 DEF OutOfOrder
      <3>4. CASE j # b /\ j # b + 1
        <4>1. input'[j] = input[j] /\ input'[j - 1] = input[j - 1]
          <5>1. j - 1 # b
            BY <1>3, <3>1, <3>4
          <5> QED
            BY <1>5, <3>1, <3>4, <5>1
        <4>2. j < idx \/ b < idx
          BY <1>2, <1>3, <3>1, <3>4
        <4>3. ~OutOfOrder(input, j)
          BY <1>8, <4>2
        <4> QED
          BY <4>1, <4>3 DEF OutOfOrder
      <3> QED
        BY <3>2, <3>3, <3>4
    <2>2. input'[b - 1] = input'[b - 1 + 1]
      <3>1. b - 1 + 1 = b
        BY <1>3
      <3> QED
        BY <1>4, <1>5, <3>1
    <2>3. ASSUME NEW j \in b - 1 + 1 .. idx
          PROVE  get_ccc(input'[j]) > get_ccc(current_character)
      <3>1. j \in 1 .. Len(input) /\ (j = b \/ (j \in b + 1 .. idx /\ j # b))
        BY <1>2, <1>3
      <3> QED
        BY <1>1, <1>5, <1>8, <3>1 DEF MovesBehind
    <2> QED
      BY <1>1, <2>1, <2>2, <2>3 DEF MarksInOrder, MovesBehind
  <1>12. TypeOK'
    BY <1>1, <1>2, <1>3, <1>5 DEF IInv, TypeOK
  <1> QED
    BY <1>1, <1>2, <1>5, <1>9, <1>10, <1>11, <1>12 DEF IInv, Strung, Decomposing

LEMMA PlaceMarks ==
  ASSUME IInv, PlaceMark
  PROVE  IInv'
  <1> DEFINE b == back_idx
             d == Decomposed(source)
             c == current_character
  <1>1. /\ pc = "shift" /\ (b # 1 => ~MovesBehind(input[b - 1]))
        /\ input' = [input EXCEPT ![b] = c] /\ idx' = idx + 1
        /\ pc' = "sort" /\ source' = source /\ ok' = ok
    BY DEF PlaceMark
  <1>2. /\ source \in Seq(DOMAIN Decomposition) /\ IsString(input) /\ ok \in BOOLEAN
        /\ DOMAIN input = 1 .. Len(input) /\ Len(input) \in Nat
        /\ Len(input) = Len(d) /\ idx \in Nat
        /\ \A j \in 1 .. Len(input) :
             /\ get_ccc(input[j]) \in Nat
             /\ Starter(input[j]) <=> Starter(d[j])
             /\ Starter(input[j]) => input[j] = d[j]
    BY <1>1, Sorting
  <1> HIDE DEF d
  <1>3. b \in 1 .. idx /\ idx \in 1 .. Len(input)
    BY <1>1, <1>2 DEF IInv, TypeOK
  <1>4. b \in 1 .. Len(input)
    BY <1>2, <1>3
  <1>5. /\ IsString(input') /\ Len(input') = Len(input) /\ DOMAIN input' = 1 .. Len(input)
        /\ input'[b] = c
        /\ \A j \in 1 .. Len(input) : j # b => input'[j] = input[j]
    BY <1>1, <1>2, <1>4, ExceptIsString
  <1>6. get_ccc(c) \in Nat \ {0} /\ ~Starter(c) /\ ~Starter(input[b])
    <2>1. b \in b .. idx
      BY <1>3
    <2> QED
      BY <1>1, <2>1 DEF IInv, Classes, Starter
  <1>7. /\ \A j \in 2 .. idx : (j < idx \/ b < idx) => ~OutOfOrder(input, j)
        /\ \A j \in b + 1 .. idx : MovesBehind(input[j])
    BY <1>1 DEF IInv, MarksInOrder
  <1>8. StartersStay'
    <2>1. ASSUME NEW j \in 1 .. Len(input)
          PROVE  /\ Starter(input'[j]) <=> Starter(d[j])
                 /\ Starter(input'[j]) => input'[j] = d[j]
      BY <1>2, <1>4, <1>5, <1>6
    <2> QED
      BY <1>1, <1>2, <1>5, <2>1 DEF StartersStay, d
  <1>9. Classes'
    <2>1. ASSUME NEW j \in 1 .. Len(input)
          PROVE  get_ccc(input'[j]) \in Nat
      BY <1>2, <1>4, <1>5, <1>6
    <2> QED
      BY <1>1, <1>5, <2>1 DEF Classes
  <1>10. MarksInOrder'
    <2>1. ASSUME NEW j \in 2 .. idx' - 1
          PROVE  ~OutOfOrder(input', j)
      <3>1. j \in 1 .. Len(input) /\ j - 1 \in 1 .. Len(input) /\ j \in 2 .. idx /\ j \in Nat
        BY <1>1, <1>2, <1>3
      <3>2. CASE j = b
        <4>1. input'[j] = c /\ input'[j - 1] = input[b - 1] /\ b # 1
          BY <1>2, <1>5, <3>1, <3>2
        <4> QED
          BY <1>1, <4>1 DEF OutOfOrder, MovesBehind
      <3>3. CASE j = b + 1
        <4>1. j \in b + 1 .. idx /\ j - 1 = b /\ j # b
          BY <1>2, <1>3, <3>1, <3>3
        <4>2. input'[j] = input[j] /\ input'[j - 1] = c
          BY <1>5, <3>1, <4>1
        <4>3. /\ get_ccc(input[j]) > get_ccc(c) /\ get_ccc(input[j]) \in Nat
          BY <1>2, <1>7, <3>1, <4>1 DEF MovesBehind
        <4>4. ~(get_ccc(c) > get_ccc(input[j]))
          BY <1>6, <4>3
        <4> QED
          BY <4>2, <4>4 DEF OutOfOrder
      <3>4. CASE j # b /\ j # b + 1
        <4>1. input'[j] = input[j] /\ input'[j - 1] = input[j - 1]
          <5>1. j - 1 # b
            BY <1>3, <3>1, <3>4
          <5> QED
            BY <1>5, <3>1, <3>4, <5>1
        <4>2. j < idx \/ b < idx
          BY <1>2, <1>3, <3>1, <3>4
        <4>3. ~OutOfOrder(input, j)
          BY <1>7, <3>1, <4>2
        <4> QED
          BY <4>1, <4>3 DEF OutOfOrder
      <3> QED
        BY <3>2, <3>3, <3>4
    <2> QED
      BY <1>1, <2>1 DEF MarksInOrder
  <1>11. TypeOK'
    <2>1. idx' \in 2 .. Len(input') + 1
      BY <1>1, <1>2, <1>3, <1>5
    <2>2. pc' = "sort" /\ ok' \in BOOLEAN
      BY <1>1, <1>2
    <2> QED
      BY ONLY <2>1, <2>2 DEF TypeOK
  <1> QED
    BY <1>1, <1>2, <1>5, <1>8, <1>9, <1>10, <1>11 DEF IInv, Strung, Decomposing

LEMMA EndSorts ==
  ASSUME IInv, EndSort
  PROVE  IInv'
  BY Sorting DEF EndSort, IInv, TypeOK, Strung, Decomposing, Classes, MarksInOrder, StartersStay

\* compose() writes nothing ahead of what it has read.
KeepsAhead ==
  pc \in {"compose", "marks"} /\ pc' # "done" =>
    /\ Len(input') = Len(input)
    /\ \A j \in input_count' + 1 .. Len(input) : input'[j] = input[j]

LEMMA Composing ==
  ASSUME IInv, pc \in {"compose", "marks"}
  PROVE  /\ IsString(input) /\ ok \in BOOLEAN /\ Len(input) \in Nat
         /\ input_count \in Nat /\ composition_count \in 1 .. input_count
         /\ pc = "marks" => /\ input_count <= Len(input)
                            /\ initial_composition_count \in 1 .. composition_count
  BY StringIsMap DEF IInv, TypeOK, Strung

\* A turn of compose() that writes at or behind the place it has read.
LEMMA WritesBehind ==
  ASSUME IInv, pc \in {"compose", "marks"}, pc' \in {"compose", "marks"}, ok' = ok,
         NEW k \in Nat, NEW c, input' = [input EXCEPT ![k] = c],
         input_count' \in Nat, k <= input_count', composition_count' \in 1 .. input_count',
         pc' = "marks" => /\ input_count' <= Len(input)
                          /\ initial_composition_count' \in 1 .. composition_count'
  PROVE  IInv' /\ KeepsAhead
  <1>1. IsString(input) /\ ok \in BOOLEAN /\ Len(input) \in Nat
    BY Composing
  <1>2. /\ IsString(input') /\ Len(input') = Len(input)
        /\ \A j \in 1 .. Len(input) : input'[j] = IF j = k THEN c ELSE input[j]
    BY <1>1, ExceptIsString
  <1>3. \A j \in input_count' + 1 .. Len(input) : j \in 1 .. Len(input) /\ j # k
    <2> DEFINE n == input_count'
               l == Len(input)
    <2>1. n \in Nat /\ k \in Nat /\ k <= n /\ l \in Nat
      BY <1>1
    <2> HIDE DEF n, l
    <2>2. \A j \in n + 1 .. l : j \in 1 .. l /\ j # k
      BY ONLY <2>1
    <2> QED
      BY <2>2 DEF n, l
  <1>4. KeepsAhead
    BY <1>2, <1>3 DEF KeepsAhead
  <1>5. TypeOK'
    BY <1>1, <1>2 DEF TypeOK
  <1> QED
    BY <1>2, <1>4, <1>5 DEF IInv, Strung, Decomposing, Classes, MarksInOrder, StartersStay

LEMMA WriteStarters ==
  ASSUME IInv, pc = "compose", pc' = pc, ok' = ok,
         NEW n \in 1 .. 3, NEW c, WriteStarter(c, n)
  PROVE  IInv' /\ KeepsAhead
  <1>1. /\ input_count \in Nat /\ composition_count \in 1 .. input_count
    BY Composing
  <1>2. /\ input' = [input EXCEPT ![composition_count] = c]
        /\ input_count' = input_count + n /\ composition_count' = composition_count + 1
    BY DEF WriteStarter
  <1>3. /\ composition_count \in Nat /\ input_count' \in Nat /\ composition_count <= input_count'
        /\ composition_count' \in 1 .. input_count'
    BY <1>1, <1>2
  <1> QED
    BY <1>2, <1>3, WritesBehind

LEMMA ComposeHanguls ==
  ASSUME IInv, ComposeHangul
  PROVE  IInv' /\ KeepsAhead
  <1>1. \E n \in 1 .. 3 : \E c : WriteStarter(c, n)
    <2>1. 1 \in 1 .. 3 /\ 2 \in 1 .. 3 /\ 3 \in 1 .. 3
      OBVIOUS
    <2> QED
      BY <2>1 DEF ComposeHangul
  <1>2. pc = "compose" /\ pc' = pc /\ ok' = ok
    BY DEF ComposeHangul
  <1> QED
    BY <1>1, <1>2, WriteStarters

LEMMA BeginsMarks ==
  ASSUME IInv, BeginMarks
  PROVE  IInv' /\ KeepsAhead
  <1>1. /\ pc = "compose" /\ pc' = "marks" /\ ok' = ok /\ input_count <= Len(input)
        /\ input' = [input EXCEPT ![composition_count] = input[input_count]]
        /\ initial_composition_count' = composition_count
        /\ composition_count' = composition_count /\ input_count' = input_count
    BY DEF BeginMarks, decomposeVars
  <1>2. input_count \in Nat /\ composition_count \in 1 .. input_count
    BY <1>1, Composing
  <1>3. /\ composition_count \in Nat /\ composition_count <= input_count
        /\ composition_count \in 1 .. composition_count
    BY <1>2
  <1> QED
    BY <1>1, <1>2, <1>3, WritesBehind

LEMMA ComposeMarks ==
  ASSUME IInv, ComposeMark
  PROVE  IInv' /\ KeepsAhead
  <1>1. PICK c : input' = [input EXCEPT ![initial_composition_count] = c]
    BY DEF ComposeMark
  <1>2. /\ pc = "marks" /\ pc' = pc /\ ok' = ok /\ input_count + 1 <= Len(input)
        /\ input_count' = input_count + 1 /\ composition_count' = composition_count
        /\ initial_composition_count' = initial_composition_count
    BY DEF ComposeMark, ComposesNext, Ahead
  <1>3. /\ input_count \in Nat /\ composition_count \in 1 .. input_count
        /\ initial_composition_count \in 1 .. composition_count
    BY <1>2, Composing
  <1>4. /\ initial_composition_count \in Nat /\ input_count' \in Nat
        /\ initial_composition_count <= input_count' /\ composition_count' \in 1 .. input_count'
    BY <1>2, <1>3
  <1> QED
    BY <1>1, <1>2, <1>3, <1>4, WritesBehind

LEMMA KeepMarks ==
  ASSUME IInv, KeepMark
  PROVE  IInv' /\ KeepsAhead
  <1>1. /\ pc = "marks" /\ pc' = pc /\ ok' = ok /\ input_count + 1 <= Len(input)
        /\ input' = [input EXCEPT ![composition_count + 1] = input[input_count + 1]]
        /\ input_count' = input_count + 1 /\ composition_count' = composition_count + 1
        /\ initial_composition_count' = initial_composition_count
    BY DEF KeepMark, Ahead
  <1>2. /\ input_count \in Nat /\ composition_count \in 1 .. input_count
        /\ initial_composition_count \in 1 .. composition_count
    BY <1>1, Composing
  <1>3. /\ composition_count + 1 \in Nat /\ input_count' \in Nat
        /\ composition_count + 1 <= input_count' /\ composition_count' \in 1 .. input_count'
        /\ initial_composition_count' \in 1 .. composition_count'
    BY <1>1, <1>2
  <1> QED
    BY <1>1, <1>3, WritesBehind

LEMMA EndsMarks ==
  ASSUME IInv, EndMarks
  PROVE  IInv' /\ KeepsAhead
  <1>1. /\ pc = "marks" /\ pc' = "compose" /\ ok' = ok /\ input' = input
        /\ input_count' = input_count + 1 /\ composition_count' = composition_count + 1
    BY DEF EndMarks
  <1>2. /\ input_count \in Nat /\ composition_count \in 1 .. input_count /\ IsString(input)
        /\ ok \in BOOLEAN
    BY <1>1, Composing
  <1>3. input_count' \in Nat /\ composition_count' \in 1 .. input_count'
    BY <1>1, <1>2
  <1>4. TypeOK'
    BY <1>1, <1>2, <1>3 DEF TypeOK
  <1> QED
    BY <1>1, <1>2, <1>3, <1>4
      DEF IInv, Strung, Decomposing, Classes, MarksInOrder, StartersStay, KeepsAhead

LEMMA Finishes ==
  ASSUME IInv, Finish
  PROVE  IInv' /\ KeepsAhead
  BY DEF Finish, Return, KeepsAhead,
         IInv, TypeOK, Strung, Decomposing, Classes, MarksInOrder, StartersStay

LEMMA InvInit == Init => IInv
  <1> SUFFICES ASSUME Init
               PROVE  IInv
    OBVIOUS
  <1>1. IsString(<<>>)
    <2>1. <<>> \in Seq({0})
      OBVIOUS
    <2> QED
      BY <2>1, StringIsSeq
  <1> QED
    BY <1>1 DEF Init, IInv, TypeOK, Strung, Decomposing, Classes, MarksInOrder, StartersStay

LEMMA InvNext == IInv /\ [Next]_vars => IInv' /\ (Next => KeepsAhead)
  <1> SUFFICES ASSUME IInv, [Next]_vars
               PROVE  IInv' /\ (Next => KeepsAhead)
    OBVIOUS
  <1>1. CASE \E s \in Inputs : Call(s)
    <2>1. PICK s \in Inputs : Call(s)
      BY <1>1
    <2>2. pc = "idle"
      BY <2>1 DEF Call
    <2> QED
      BY <2>1, <2>2, CallSteps DEF KeepsAhead
  <1>2. CASE DecomposeTurn
    BY <1>2, DecomposeTurns DEF KeepsAhead, DecomposeTurn
  <1>3. CASE EndDecompose
    BY <1>3, EndDecomposes DEF KeepsAhead, EndDecompose
  <1>4. CASE PassStarter
    BY <1>4, PassStarters DEF KeepsAhead, PassStarter
  <1>5. CASE TakeMark
    BY <1>5, TakeMarks DEF KeepsAhead, TakeMark
  <1>6. CASE ShiftMark
    BY <1>6, ShiftMarks DEF KeepsAhead, ShiftMark
  <1>7. CASE PlaceMark
    BY <1>7, PlaceMarks DEF KeepsAhead, PlaceMark
  <1>8. CASE EndSort
    BY <1>8, EndSorts DEF KeepsAhead, EndSort
  <1>9. CASE ComposeHangul
    BY <1>9, ComposeHanguls
  <1>10. CASE BeginMarks
    BY <1>10, BeginsMarks
  <1>11. CASE ComposeMark
    BY <1>11, ComposeMarks
  <1>12. CASE KeepMark
    BY <1>12, KeepMarks
  <1>13. CASE EndMarks
    BY <1>13, EndsMarks
  <1>14. CASE Finish
    BY <1>14, Finishes
  <1>15. CASE UNCHANGED vars
    <2>1. IInv'
      BY <1>15
        DEF vars, decomposeVars, sortVars, composeVars, IInv, TypeOK, Strung, Decomposing,
            DecomposedTo, Classes, MarksInOrder, StartersStay, MovesBehind
    <2>2. KeepsAhead
      BY <1>15 DEF vars, KeepsAhead
    <2> QED
      BY <2>1, <2>2
  <1> QED
    BY <1>1, <1>2, <1>3, <1>4, <1>5, <1>6, <1>7, <1>8, <1>9, <1>10, <1>11, <1>12, <1>13,
       <1>14, <1>15 DEF Next, Step

LEMMA InvAlways == Spec => []IInv
  BY InvInit, InvNext, PTL DEF Spec

-----------------------------------------------------------------------------
(* Theorems.                                                               *)

\* Each pass of normalize() writes at or behind (compose) or beyond (decompose)
\* the place it reads, and inside the string: for every table and every input.
THEOREM TypeCorrect == Spec => []TypeOK
  <1>1. IInv => TypeOK
    BY DEF IInv
  <1> QED
    BY <1>1, InvAlways, PTL

\* The loop of decompose(), which goes through the string it has grown from the
\* back, finds every given code point and leaves exactly the decomposition.
THEOREM DecomposesInPlaceAlways == Spec => []DecomposesInPlace
  BY InvAlways, GrowthInPlace, PTL

\* The insertion sort of sort_marks() keeps what it has passed in the order of the
\* combining classes, and moves no starter and nothing past one.
THEOREM SortsMarks == Spec => [](MarksInOrder /\ StartersStay)
  <1>1. IInv => MarksInOrder /\ StartersStay
    BY DEF IInv
  <1> QED
    BY <1>1, InvAlways, PTL

\* The loops of compose() never write what they have not read yet.
THEOREM ComposeKeepsAhead == Spec => [][KeepsAhead]_vars
  <1>1. IInv /\ [Next]_vars => [KeepsAhead]_vars
    BY InvNext
  <1> QED
    BY <1>1, InvAlways, PTL DEF Spec
=============================================================================
