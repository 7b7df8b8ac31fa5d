-------------------------- MODULE NormalFormProofs --------------------------
(* That what normalize() leaves is Unicode's: sort_marks() sorts, that is, the  *)
(* string is always a permutation of the decomposed one, no mark of which has   *)
(* passed a starter; and what compose() has written is what composing the code  *)
(* points one by one gives.  And that the shortcut around the three passes is   *)
(* right, both in what it accepts and in what it rejects.                       *)
EXTENDS NormalizationProofs, FiniteSetTheorems

-----------------------------------------------------------------------------
(* The canonical order.                                                    *)

\* The combining classes of s are numbers.
Classed(s) == \A j \in 1 .. Len(s) : get_ccc(s[j]) \in Nat

Bijective(p, N) ==
  /\ p \in [1 .. N -> 1 .. N]
  /\ \A k \in 1 .. N : \E j \in 1 .. N : p[j] = k
  /\ \A j \in 1 .. N : \A k \in 1 .. N : p[j] = p[k] => j = k

LEMMA BeforeOneWay ==
  ASSUME NEW s, Classed(s), NEW j \in 1 .. Len(s), NEW k \in 1 .. Len(s), Before(s, j, k)
  PROVE  ~Before(s, k, j)
  <1>1. get_ccc(s[j]) \in Nat
    BY DEF Classed
  <1>2. CASE j < k
    <2>1. ~(k < j)
      BY <1>2
    <2> QED
      BY <1>2, <2>1, Zenon DEF Before
  <1>3. CASE k < j
    <2>1. ~(j < k)
      BY <1>3
    <2> QED
      BY <1>3, <2>1, Zenon DEF Before
  <1>4. CASE j = k
    BY <1>1, <1>4 DEF Before, Passes
  <1> QED
    BY <1>2, <1>3, <1>4

\* A mark that does not pass the last before it in the order passes none of them.
LEMMA PassesNone ==
  ASSUME NEW s, Classed(s), NEW x \in 1 .. Len(s), NEW i \in 1 .. x - 1, NEW j \in 1 .. x - 1,
         Len(s) \in Nat, Before(s, i, j), ~Passes(s, j, x)
  PROVE  ~Passes(s, i, x)
  <1>1. /\ get_ccc(s[i]) \in Nat /\ get_ccc(s[j]) \in Nat /\ get_ccc(s[x]) \in Nat
        /\ x \in Nat /\ i \in Nat /\ j \in Nat /\ i < x /\ j < x
    <2>1. i \in 1 .. Len(s) /\ j \in 1 .. Len(s)
      OBVIOUS
    <2> QED
      BY <2>1 DEF Classed
  <1> SUFFICES ASSUME Passes(s, i, x)
               PROVE  FALSE
    OBVIOUS
  <1>2. (\A m \in i + 1 .. x : ~Starter(s[m])) /\ get_ccc(s[x]) < get_ccc(s[i])
    BY DEF Passes
  <1>3. CASE i < j
    <2>1. \A m \in j + 1 .. x : m \in i + 1 .. x
      BY <1>1, <1>3
    <2>2. \A m \in i + 1 .. j : m \in i + 1 .. x
      BY <1>1, <1>3
    <2>3. ~(get_ccc(s[x]) < get_ccc(s[j]))
      BY <1>2, <2>1, Zenon DEF Passes
    <2>4. get_ccc(s[j]) < get_ccc(s[i])
      BY <1>1, <1>2, <2>3
    <2>5. Passes(s, i, j)
      BY <1>2, <2>2, <2>4, Zenon DEF Passes
    <2> QED
      BY <1>3, <2>5 DEF Before
  <1>4. CASE ~(i < j)
    <2>1. Passes(s, j, i)
      BY <1>4 DEF Before
    <2>2. \A m \in j + 1 .. x : m \in j + 1 .. i \/ m \in i + 1 .. x
      BY <1>1
    <2>3. /\ \A m \in j + 1 .. x : ~Starter(s[m])
          /\ get_ccc(s[i]) < get_ccc(s[j])
      BY <1>2, <2>1, <2>2, Zenon DEF Passes
    <2>4. ~(get_ccc(s[x]) < get_ccc(s[j]))
      BY <2>3, Zenon DEF Passes
    <2> QED
      BY <1>1, <1>2, <2>3, <2>4
  <1> QED
    BY <1>3, <1>4

\* A permutation that sorts gives the string in order: it takes to place i the
\* code point that i - 1 others come before.
LEMMA SortedIsOrdered ==
  ASSUME NEW d, IsString(d), Classed(d), NEW p, Bijective(p, Len(d)),
         \A k \in 1 .. Len(d) : \A j \in 1 .. k - 1 : Before(d, p[j], p[k])
  PROVE  /\ IsString(Ordered(d)) /\ Len(Ordered(d)) = Len(d)
         /\ \A i \in 1 .. Len(d) : Ordered(d)[i] = d[p[i]]
  <1> DEFINE N == Len(d)
             Behind(j) == Cardinality({k \in DOMAIN d : Before(d, k, j)})
  <1>1. N \in Nat /\ DOMAIN d = 1 .. N
    BY StringIsMap
  <1>2. /\ p \in [1 .. N -> 1 .. N]
        /\ \A k \in 1 .. N : \E j \in 1 .. N : p[j] = k
        /\ \A j \in 1 .. N : \A k \in 1 .. N : p[j] = p[k] => j = k
    BY DEF Bijective
  <1>3. ASSUME NEW i \in 1 .. N
        PROVE  Behind(p[i]) = i - 1
    <2> DEFINE S == 1 .. i - 1
               T == {k \in DOMAIN d : Before(d, k, p[i])}
               f == [m \in S |-> p[m]]
    <2>1. \A m \in S : m \in 1 .. N
      BY <1>1
    <2>2. ASSUME NEW m \in S
          PROVE  p[m] \in T
      <3>1. m \in 1 .. N /\ Before(d, p[m], p[i])
        BY <2>1
      <3> QED
        BY <1>1, <1>2, <3>1
    <2>3. ASSUME NEW k \in T
          PROVE  \E m \in S : p[m] = k
      <3>1. k \in 1 .. N /\ Before(d, k, p[i]) /\ p[i] \in 1 .. N
        BY <1>1, <1>2
      <3>2. PICK m \in 1 .. N : p[m] = k
        BY <1>2, <3>1
      <3>3. m # i
        BY <3>1, <3>2, BeforeOneWay
      <3>4. ~(i < m)
        <4>1. ~Before(d, p[i], p[m])
          BY <3>1, <3>2, BeforeOneWay
        <4>2. i < m => i \in 1 .. m - 1
          BY <1>1
        <4> QED
          BY <4>1, <4>2
      <3>5. m \in S
        BY <1>1, <3>3, <3>4
      <3> QED
        BY <3>2, <3>5
    <2>4. f \in Bijection(S, T)
      <3>1. f \in [S -> T] /\ DOMAIN f = S
        BY <2>2
      <3>2. \A a, b \in S : f[a] = f[b] => a = b
        BY <1>2, <2>1
      <3>3. \A t \in T : \E m \in S : f[m] = t
        BY <2>3
      <3> HIDE DEF f, S, T
      <3> QED
        BY <3>1, <3>2, <3>3 DEF Bijection, Injection, Surjection, IsInjective
    <2>5. IsFiniteSet(S) /\ Cardinality(S) = i - 1
      <3> DEFINE n == i - 1
      <3>1. n \in Nat /\ 1 \in Int /\ n \in Int
        BY <1>1
      <3> HIDE DEF n
      <3>2. IsFiniteSet(1 .. n) /\ Cardinality(1 .. n) = IF 1 > n THEN 0 ELSE n - 1 + 1
        BY ONLY <3>1, FS_Interval, Zenon
      <3>3. IsFiniteSet(1 .. n) /\ Cardinality(1 .. n) = n
        BY ONLY <3>1, <3>2
      <3> QED
        BY <3>3 DEF n
    <2>6. Cardinality(T) = Cardinality(S)
      <3> HIDE DEF f, S, T
      <3> QED
        BY <2>4, <2>5, FS_Bijection DEF ExistsBijection
    <2> QED
      BY <2>5, <2>6
  <1>4. Ordered(d) = [i \in DOMAIN d |-> d[CHOOSE j \in DOMAIN d : Behind(j) = i - 1]]
    BY Zenon DEF Ordered
  <1> HIDE DEF Behind
  <1>5. ASSUME NEW i \in 1 .. N
        PROVE  (CHOOSE j \in DOMAIN d : Behind(j) = i - 1) = p[i]
    <2>1. p[i] \in DOMAIN d /\ Behind(p[i]) = i - 1
      BY <1>1, <1>2, <1>3
    <2>2. ASSUME NEW j \in DOMAIN d, Behind(j) = i - 1
          PROVE  j = p[i]
      <3>1. PICK m \in 1 .. N : p[m] = j
        BY <1>1, <1>2
      <3>2. m - 1 = i - 1
        BY <1>3, <2>2, <3>1
      <3>3. m = i
        BY <1>1, <3>2
      <3> QED
        BY <3>1, <3>3
    <2> QED
      BY <2>1, <2>2
  <1>6. DOMAIN Ordered(d) = 1 .. N /\ \A i \in 1 .. N : Ordered(d)[i] = d[p[i]]
    BY <1>1, <1>4, <1>5
  <1>7. Ordered(d) = [i \in 1 .. N |-> Ordered(d)[i]]
    BY <1>1, <1>4, <1>6
  <1> QED
    BY <1>1, <1>6, <1>7, MapIsString

-----------------------------------------------------------------------------
(* sort_marks() sorts.                                                     *)

\* Marks are moved between starters only.
KeepsBlocks(p, d) ==
  \A m \in 1 .. Len(d) : Starter(d[m]) => \A j \in 1 .. Len(d) : j < m <=> p[j] < m

\* Where each code point of the string in place was in the decomposition d: up to
\* idx they are in order, from there on nothing has moved.
Passed(p, d) ==
  /\ Bijective(p, Len(d)) /\ KeepsBlocks(p, d)
  /\ \A j \in 1 .. Len(d) : input[j] = d[p[j]] /\ (idx <= j => p[j] = j)
  /\ \A k \in 1 .. idx - 1 : \A j \in 1 .. k - 1 : Before(d, p[j], p[k])

\* While a mark is moved, the place that is there twice is its own, and it comes
\* before what is behind it.
Shifting(p, d) ==
  /\ Bijective(p, Len(d)) /\ KeepsBlocks(p, d)
  /\ \A j \in 1 .. Len(d) : (j # back_idx => input[j] = d[p[j]]) /\ (idx < j => p[j] = j)
  /\ \A k \in 1 .. idx : \A j \in 1 .. k - 1 :
       j # back_idx /\ k # back_idx => Before(d, p[j], p[k])
  /\ p[back_idx] = idx /\ current_character = d[idx]
  /\ \A k \in back_idx + 1 .. idx : Before(d, idx, p[k])

Moving ==
  /\ pc = "sort" => \E p : Passed(p, Decomposed(source))
  /\ pc = "shift" => \E p : Shifting(p, Decomposed(source))

\* What compose() has not read yet is in order.
Sorted ==
  pc \in {"compose", "marks"} =>
    /\ Len(input) = Len(Ordered(Decomposed(source)))
    /\ \A j \in input_count + 1 .. Len(input) : input[j] = Ordered(Decomposed(source))[j]

LEMMA NothingMoved ==
  ASSUME NEW d, IsString(d), input' = d, idx' = 2
  PROVE  \E p : Passed(p, d)'
  <1> DEFINE N == Len(d)
             p == [j \in 1 .. N |-> j]
  <1>1. Bijective(p, N)
    BY DEF Bijective
  <1>2. KeepsBlocks(p, d)
    BY DEF KeepsBlocks
  <1>3. \A j \in 1 .. N : input'[j] = d[p[j]] /\ p[j] = j
    OBVIOUS
  <1>4. \A k \in 1 .. idx' - 1 : \A j \in 1 .. k - 1 : Before(d, p[j], p[k])
    OBVIOUS
  <1> HIDE DEF p
  <1> QED
    BY <1>1, <1>2, <1>3, <1>4, Zenon DEF Passed

\* What is known of the decomposition while it is sorted.
LEMMA SortingFrom ==
  ASSUME IInv, pc \in {"sort", "shift"}, NEW d, d = Decomposed(source)
  PROVE  /\ IsString(d) /\ Classed(d) /\ DOMAIN d = 1 .. Len(d) /\ Len(d) \in Nat
         /\ IsString(input) /\ DOMAIN input = 1 .. Len(d) /\ Len(input) = Len(d) /\ idx \in Nat
         /\ \A j \in 1 .. Len(d) : Starter(input[j]) <=> Starter(d[j])
  <1>1. /\ source \in Seq(DOMAIN Decomposition)
        /\ IsString(input) /\ DOMAIN input = 1 .. Len(input) /\ Len(input) = Len(d)
        /\ idx \in Nat
        /\ \A j \in 1 .. Len(input) : Starter(input[j]) <=> Starter(d[j])
    BY Sorting
  <1>2. IsString(d) /\ \A q \in DOMAIN d : get_ccc(d[q]) \in Nat
    BY <1>1, DecomposedClasses
  <1>3. Len(d) \in Nat /\ DOMAIN d = 1 .. Len(d)
    BY <1>2, StringIsMap
  <1> QED
    BY <1>1, <1>2, <1>3 DEF Classed

LEMMA PassStarterMoves ==
  ASSUME IInv, Moving, PassStarter
  PROVE  Moving'
  <1>1. PICK d : d = Decomposed(source)
    OBVIOUS
  <1>2. /\ pc = "sort" /\ pc' = "sort" /\ idx <= Len(input) /\ Starter(input[idx])
        /\ idx' = idx + 1 /\ source' = source /\ input' = input
    BY DEF PassStarter
  <1>3. /\ Len(d) \in Nat /\ Len(input) = Len(d) /\ idx \in Nat
        /\ \A j \in 1 .. Len(d) : Starter(input[j]) <=> Starter(d[j])
    BY <1>1, <1>2, SortingFrom
  <1>4. PICK p : Passed(p, d)
    BY <1>1, <1>2 DEF Moving
  <1>5. idx \in 2 .. Len(input) + 1 \/ (input = <<>> /\ idx = 2)
    BY <1>2 DEF IInv, TypeOK
  <1>6. idx \in 1 .. Len(d) /\ Starter(d[idx])
    BY <1>2, <1>3, <1>5
  <1>7. p[idx] = idx /\ p \in [1 .. Len(d) -> 1 .. Len(d)]
    BY <1>3, <1>4, <1>6 DEF Passed, Bijective
  <1>8. ASSUME NEW k \in 1 .. idx' - 1, NEW j \in 1 .. k - 1
        PROVE  Before(d, p[j], p[k])
    <2>1. CASE k = idx
      <3>1. j \in 1 .. Len(d) /\ j < idx
        BY <1>3, <1>6, <2>1
      <3>2. p[j] < idx /\ p[j] \in Nat
        BY <1>4, <1>6, <1>7, <3>1 DEF Passed, KeepsBlocks
      <3>3. idx \in p[j] + 1 .. idx
        BY <1>3, <3>2
      <3>4. ~Passes(d, p[j], idx)
        BY <1>6, <3>3, Zenon DEF Passes
      <3> QED
        BY <1>7, <2>1, <3>2, <3>4, Zenon DEF Before
    <2>2. CASE k # idx
      <3>1. k \in 1 .. idx - 1
        BY <1>2, <1>3, <2>2
      <3> QED
        BY <1>4, <3>1, Zenon DEF Passed
    <2> QED
      BY <2>1, <2>2
  <1>9. \A j \in 1 .. Len(d) : idx' <= j => idx <= j
    BY <1>2, <1>3
  <1>10. Passed(p, d)'
    BY <1>2, <1>4, <1>8, <1>9, Zenon DEF Passed
  <1> QED
    BY <1>1, <1>2, <1>10 DEF Moving

LEMMA TakeMarkMoves ==
  ASSUME IInv, Moving, TakeMark
  PROVE  Moving'
  <1>1. PICK d : d = Decomposed(source)
    OBVIOUS
  <1>2. /\ pc = "sort" /\ pc' = "shift" /\ idx <= Len(input)
        /\ current_character' = input[idx] /\ back_idx' = idx
        /\ idx' = idx /\ source' = source /\ input' = input
    BY DEF TakeMark
  <1>3. Len(d) \in Nat /\ Len(input) = Len(d) /\ idx \in Nat
    BY <1>1, <1>2, SortingFrom
  <1>4. PICK p : Passed(p, d)
    BY <1>1, <1>2 DEF Moving
  <1>5. idx \in 2 .. Len(input) + 1 \/ (input = <<>> /\ idx = 2)
    BY <1>2 DEF IInv, TypeOK
  <1>6. idx \in 1 .. Len(d) /\ idx <= idx
    BY <1>2, <1>3, <1>5
  <1>7. p[idx] = idx /\ input[idx] = d[idx]
    BY <1>4, <1>6 DEF Passed
  <1>8. \A j \in 1 .. Len(d) : idx < j => idx <= j
    BY <1>3
  <1>9. \A k \in 1 .. idx : k # idx => k \in 1 .. idx - 1
    BY <1>3
  <1>10. \A k \in idx + 1 .. idx : Before(d, idx, p[k])
    BY <1>3
  <1>11. Shifting(p, d)'
    BY <1>2, <1>4, <1>7, <1>8, <1>9, <1>10, Zenon DEF Passed, Shifting
  <1> QED
    BY <1>1, <1>2, <1>11 DEF Moving

\* Two places change their code points.
Swapped(p, a, b) == [p EXCEPT ![a] = p[b], ![b] = p[a]]

LEMMA SwappedBijective ==
  ASSUME NEW N, NEW p, Bijective(p, N), NEW a \in DOMAIN p, NEW b \in DOMAIN p, a # b
  PROVE  /\ Bijective(Swapped(p, a, b), N)
         /\ Swapped(p, a, b)[a] = p[b] /\ Swapped(p, a, b)[b] = p[a]
         /\ \A j \in DOMAIN p : j # a /\ j # b => Swapped(p, a, b)[j] = p[j]
  <1> DEFINE S == 1 .. N
             q == Swapped(p, a, b)
  <1>1. /\ p \in [S -> S]
        /\ \A k \in S : \E j \in S : p[j] = k
        /\ \A j \in S : \A k \in S : p[j] = p[k] => j = k
        /\ a \in S /\ b \in S
    BY DEF Bijective
  <1> HIDE DEF S
  <1>2. /\ q \in [S -> S] /\ q[a] = p[b] /\ q[b] = p[a]
        /\ \A j \in S : j # a /\ j # b => q[j] = p[j]
    BY <1>1 DEF Swapped
  <1> HIDE DEF q
  <1>3. ASSUME NEW k \in S
        PROVE  \E j \in S : q[j] = k
    <2>1. PICK j \in S : p[j] = k
      BY <1>1
    <2> QED
      BY <1>1, <1>2, <2>1
  <1>4. ASSUME NEW j \in S, NEW k \in S, q[j] = q[k]
        PROVE  j = k
    BY <1>1, <1>2, <1>4
  <1> QED
    BY <1>2, <1>3, <1>4, Zenon DEF Bijective, S, q

\* What sort_marks() knows of the places up to idx while it moves a mark.
LEMMA ShiftingPlaces ==
  ASSUME NEW d, Len(d) \in Nat, NEW p, Shifting(p, d), idx \in 1 .. Len(d),
         back_idx \in 1 .. idx, NEW j \in 1 .. idx, j # back_idx
  PROVE  p[j] \in 1 .. idx - 1
  <1>1. /\ p \in [1 .. Len(d) -> 1 .. Len(d)] /\ p[back_idx] = idx
        /\ \A a \in 1 .. Len(d) : \A b \in 1 .. Len(d) : p[a] = p[b] => a = b
        /\ \A a \in 1 .. Len(d) : idx < a => p[a] = a
    BY DEF Shifting, Bijective
  <1>2. j \in 1 .. Len(d) /\ back_idx \in 1 .. Len(d)
    OBVIOUS
  <1>3. p[j] \in 1 .. Len(d) /\ p[j] # idx
    BY <1>1, <1>2
  <1>4. ~(idx < p[j])
    <2> SUFFICES ASSUME idx < p[j]
                 PROVE  FALSE
      OBVIOUS
    <2>1. p[p[j]] = p[j]
      BY <1>1, <1>3
    <2>2. p[j] = j
      BY <1>1, <1>2, <1>3, <2>1
    <2> QED
      BY <2>2
  <1> QED
    BY <1>3, <1>4

LEMMA ShiftMarkMoves ==
  ASSUME IInv, Moving, ShiftMark
  PROVE  Moving'
  <1> DEFINE b == back_idx
  <1>1. PICK d : d = Decomposed(source)
    OBVIOUS
  <1>2. /\ pc = "shift" /\ pc' = "shift" /\ b # 1 /\ MovesBehind(input[b - 1])
        /\ input' = [input EXCEPT ![b] = input[b - 1]] /\ b' = b - 1
        /\ source' = source /\ idx' = idx /\ current_character' = current_character
    BY DEF ShiftMark
  <1>3. /\ Len(d) \in Nat /\ Classed(d) /\ IsString(input) /\ Len(input) = Len(d) /\ idx \in Nat
        /\ \A j \in 1 .. Len(d) : Starter(input[j]) <=> Starter(d[j])
    BY <1>1, <1>2, SortingFrom
  <1>4. PICK p : Shifting(p, d)
    BY <1>1, <1>2 DEF Moving
  <1>5. idx \in 1 .. Len(d) /\ b \in 1 .. idx
    BY <1>2, <1>3 DEF IInv, TypeOK
  <1>6. /\ b \in 1 .. Len(d) /\ b - 1 \in 1 .. Len(d) /\ b - 1 \in 1 .. idx /\ b - 1 < b
        /\ b \in Nat /\ b - 1 # b
    BY <1>2, <1>3, <1>5
  <1>7. \A j \in 1 .. Len(d) : input'[j] = IF j = b THEN input[b - 1] ELSE input[j]
    BY <1>2, <1>3, ExceptIsString
  <1>8. /\ Bijective(p, Len(d)) /\ KeepsBlocks(p, d)
        /\ \A j \in 1 .. Len(d) : (j # b => input[j] = d[p[j]]) /\ (idx < j => p[j] = j)
        /\ \A k \in 1 .. idx : \A j \in 1 .. k - 1 : j # b /\ k # b => Before(d, p[j], p[k])
        /\ p[b] = idx /\ current_character = d[idx]
        /\ \A k \in b + 1 .. idx : Before(d, idx, p[k])
    BY <1>4, Zenon DEF Shifting
  <1>9. PICK q : q = Swapped(p, b - 1, b)
    OBVIOUS
  <1>10. /\ Bijective(q, Len(d)) /\ q[b - 1] = idx /\ q[b] = p[b - 1]
         /\ \A j \in 1 .. Len(d) : j # b - 1 /\ j # b => q[j] = p[j]
    <2> DEFINE a == b - 1
    <2>1. a \in 1 .. Len(d) /\ b \in 1 .. Len(d) /\ a # b /\ q = Swapped(p, a, b)
      BY <1>6, <1>9
    <2> HIDE DEF a, b
    <2>2. /\ Bijective(q, Len(d)) /\ q[a] = p[b] /\ q[b] = p[a]
          /\ \A j \in 1 .. Len(d) : j # a /\ j # b => q[j] = p[j]
      <3>1. DOMAIN p = 1 .. Len(d)
        BY <1>8 DEF Bijective
      <3> QED
        BY ONLY <1>8, <2>1, <3>1, SwappedBijective, SMTT(60)
    <2> QED
      BY <1>8, <2>2 DEF a
  <1>11. p[b - 1] \in 1 .. idx - 1
    BY <1>3, <1>4, <1>5, <1>6, ShiftingPlaces
  <1>12. \A m \in b .. idx : m \in 1 .. Len(d) /\ ~Starter(d[m])
    <2>1. \A m \in b .. idx : m \in 1 .. Len(d)
      BY <1>3, <1>5
    <2>2. \A m \in b .. idx : ~Starter(input[m])
      BY <1>2 DEF IInv, Classes
    <2> QED
      BY <1>3, <2>1, <2>2
  <1>13. KeepsBlocks(q, d)
    <2> SUFFICES ASSUME NEW m \in 1 .. Len(d), Starter(d[m]), NEW j \in 1 .. Len(d)
                 PROVE  j < m <=> q[j] < m
      BY DEF KeepsBlocks
    <2>1. \A i \in 1 .. Len(d) : i < m <=> p[i] < m
      BY <1>8 DEF KeepsBlocks
    <2>2. b < m <=> idx < m
      BY <1>6, <1>8, <2>1
    <2>3. b - 1 < m <=> b < m
      <3>1. m # b
        BY <1>5, <1>6, <1>12
      <3> QED
        BY <1>6, <3>1
    <2>4. CASE j = b - 1
      BY <1>10, <2>2, <2>3, <2>4
    <2>5. CASE j = b
      <3>1. b - 1 < m <=> p[b - 1] < m
        BY <1>6, <2>1
      <3> QED
        BY <1>10, <2>3, <2>5, <3>1
    <2>6. CASE j # b - 1 /\ j # b
      BY <1>10, <2>1, <2>6
    <2> QED
      BY <2>4, <2>5, <2>6
  <1>14. ASSUME NEW j \in 1 .. Len(d)
         PROVE  (j # b - 1 => input'[j] = d[q[j]]) /\ (idx < j => q[j] = j)
    <2>1. CASE j = b
      <3>1. input'[j] = input[b - 1] /\ input[b - 1] = d[p[b - 1]] /\ ~(idx < j)
        BY <1>3, <1>5, <1>6, <1>7, <1>8, <2>1
      <3> QED
        BY <1>10, <2>1, <3>1
    <2>2. CASE j = b - 1
      BY <1>3, <1>5, <1>6, <2>2
    <2>3. CASE j # b - 1 /\ j # b
      BY <1>7, <1>8, <1>10, <2>3
    <2> QED
      BY <2>1, <2>2, <2>3
  <1>15. ASSUME NEW k \in 1 .. idx, NEW j \in 1 .. k - 1, j # b - 1, k # b - 1
         PROVE  Before(d, q[j], q[k])
    <2>1. /\ j \in 1 .. Len(d) /\ k \in 1 .. Len(d) /\ j \in 1 .. idx /\ j \in Nat /\ k \in Nat
          /\ j < k
      BY <1>3, <1>5
    <2>2. CASE j = b
      <3>1. b - 1 \in 1 .. k - 1 /\ k # b
        BY <1>6, <2>1, <2>2
      <3>2. Before(d, p[b - 1], p[k])
        BY <1>6, <1>8, <3>1
      <3> QED
        BY <1>10, <1>15, <2>1, <2>2, <3>1, <3>2
    <2>3. CASE k = b
      <3>1. j \in 1 .. b - 1 - 1 /\ j # b
        BY <1>6, <1>15, <2>1, <2>3
      <3>2. Before(d, p[j], p[b - 1])
        BY <1>6, <1>8, <3>1
      <3> QED
        BY <1>10, <1>15, <2>1, <2>3, <3>1, <3>2
    <2>4. CASE j # b /\ k # b
      BY <1>8, <1>10, <1>15, <2>1, <2>4
    <2> QED
      BY <2>2, <2>3, <2>4
  <1>16. ASSUME NEW k \in b - 1 + 1 .. idx
         PROVE  Before(d, idx, q[k])
    <2>1. CASE k = b
      <3>1. \A m \in p[b - 1] + 1 .. idx : ~Starter(d[m])
        <4> SUFFICES ASSUME NEW m \in p[b - 1] + 1 .. idx, Starter(d[m])
                     PROVE  FALSE
          OBVIOUS
        <4>1. m \in 1 .. Len(d) /\ m \in Nat /\ p[b - 1] < m /\ m <= idx
          BY <1>3, <1>5, <1>11
        <4>2. b - 1 < m
          BY <1>6, <1>8, <4>1 DEF KeepsBlocks
        <4>3. m \in b .. idx
          BY <1>6, <4>1, <4>2
        <4> QED
          BY <1>12, <4>3
      <3>2. get_ccc(d[idx]) < get_ccc(d[p[b - 1]])
        <4>1. get_ccc(d[p[b - 1]]) > get_ccc(d[idx])
          BY <1>2, <1>6, <1>8 DEF MovesBehind
        <4>2. get_ccc(d[p[b - 1]]) \in Nat /\ get_ccc(d[idx]) \in Nat
          <5>1. p[b - 1] \in 1 .. Len(d)
            BY <1>3, <1>5, <1>11
          <5> QED
            BY <1>3, <1>5, <5>1 DEF Classed
        <4> QED
          BY <4>1, <4>2
      <3>3. Passes(d, p[b - 1], idx)
        BY <3>1, <3>2, Zenon DEF Passes
      <3>4. ~(idx < p[b - 1])
        BY <1>3, <1>11
      <3> QED
        BY <1>10, <2>1, <3>3, <3>4, Zenon DEF Before
    <2>2. CASE k # b
      <3>1. k \in b + 1 .. idx /\ k # b - 1 /\ k \in 1 .. Len(d)
        BY <1>3, <1>5, <1>6, <2>2
      <3> QED
        BY <1>8, <1>10, <2>2, <3>1
    <2> QED
      BY <2>1, <2>2
  <1> HIDE DEF b
  <1>17. Shifting(q, d)'
    <2>1. back_idx' = b - 1
      BY <1>2 DEF b
    <2> QED
      BY <1>2, <1>8, <1>10, <1>13, <1>14, <1>15, <1>16, <2>1, Zenon DEF Shifting
  <1> QED
    BY <1>1, <1>2, <1>17 DEF Moving

LEMMA PlaceMarkMoves ==
  ASSUME IInv, Moving, PlaceMark
  PROVE  Moving'
  <1> DEFINE b == back_idx
  <1>1. PICK d : d = Decomposed(source)
    OBVIOUS
  <1>2. /\ pc = "shift" /\ pc' = "sort" /\ (b # 1 => ~MovesBehind(input[b - 1]))
        /\ input' = [input EXCEPT ![b] = current_character] /\ idx' = idx + 1
        /\ source' = source
    BY DEF PlaceMark
  <1>3. /\ Len(d) \in Nat /\ Classed(d) /\ IsString(input) /\ Len(input) = Len(d) /\ idx \in Nat
    BY <1>1, <1>2, SortingFrom
  <1>4. PICK p : Shifting(p, d)
    BY <1>1, <1>2 DEF Moving
  <1>5. idx \in 1 .. Len(d) /\ b \in 1 .. idx
    BY <1>2, <1>3 DEF IInv, TypeOK
  <1>6. b \in 1 .. Len(d) /\ b \in Nat
    BY <1>3, <1>5
  <1>7. \A j \in 1 .. Len(d) : input'[j] = IF j = b THEN current_character ELSE input[j]
    BY <1>2, <1>3, ExceptIsString
  <1>8. /\ Bijective(p, Len(d)) /\ KeepsBlocks(p, d)
        /\ \A j \in 1 .. Len(d) : (j # b => input[j] = d[p[j]]) /\ (idx < j => p[j] = j)
        /\ \A k \in 1 .. idx : \A j \in 1 .. k - 1 : j # b /\ k # b => Before(d, p[j], p[k])
        /\ p[b] = idx /\ current_character = d[idx]
        /\ \A k \in b + 1 .. idx : Before(d, idx, p[k])
    BY <1>4, Zenon DEF Shifting
  <1>9. ASSUME NEW j \in 1 .. b - 1
        PROVE  Before(d, p[j], idx)
    <2>1. /\ b # 1 /\ b - 1 \in 1 .. idx /\ b - 1 # b /\ j \in 1 .. idx /\ j # b
          /\ b - 1 \in 1 .. Len(d)
      BY <1>3, <1>5, <1>6
    <2>2. p[b - 1] \in 1 .. idx - 1 /\ p[j] \in 1 .. idx - 1
      BY <1>3, <1>4, <1>5, <2>1, ShiftingPlaces
    <2>3. ~Passes(d, p[b - 1], idx)
      <3>1. ~(get_ccc(d[p[b - 1]]) > get_ccc(d[idx]))
        BY <1>2, <1>8, <2>1 DEF MovesBehind
      <3>2. get_ccc(d[p[b - 1]]) \in Nat /\ get_ccc(d[idx]) \in Nat
        <4>1. p[b - 1] \in 1 .. Len(d)
          BY <1>3, <1>5, <2>2
        <4> QED
          BY <1>3, <1>5, <4>1 DEF Classed
      <3>3. ~(get_ccc(d[idx]) < get_ccc(d[p[b - 1]]))
        BY <3>1, <3>2
      <3> QED
        BY <3>3, Zenon DEF Passes
    <2>4. ~Passes(d, p[j], idx)
      <3>1. CASE j = b - 1
        BY <2>3, <3>1
      <3>2. CASE j # b - 1
        <4>1. j \in 1 .. b - 1 - 1
          BY <1>6, <3>2
        <4>2. Before(d, p[j], p[b - 1])
          BY <1>8, <2>1, <4>1
        <4> QED
          BY <1>3, <1>5, <2>2, <2>3, <4>2, PassesNone
      <3> QED
        BY <3>1, <3>2
    <2>5. p[j] < idx
      BY <1>3, <2>2
    <2> QED
      BY <2>4, <2>5, Zenon DEF Before
  <1>10. ASSUME NEW k \in 1 .. idx' - 1, NEW j \in 1 .. k - 1
         PROVE  Before(d, p[j], p[k])
    <2>1. k \in 1 .. idx /\ j \in 1 .. idx
      BY <1>2, <1>3
    <2>2. CASE k = b
      BY <1>8, <1>9, <2>2
    <2>3. CASE j = b
      <3>1. k \in b + 1 .. idx
        BY <1>6, <2>1, <2>3
      <3> QED
        BY <1>8, <2>3, <3>1
    <2>4. CASE k # b /\ j # b
      BY <1>8, <2>1, <2>4
    <2> QED
      BY <2>2, <2>3, <2>4
  <1>11. ASSUME NEW j \in 1 .. Len(d)
         PROVE  input'[j] = d[p[j]] /\ (idx' <= j => p[j] = j)
    <2>1. input'[j] = d[p[j]]
      BY <1>7, <1>8
    <2>2. idx' <= j => idx < j
      BY <1>2, <1>3
    <2> QED
      BY <1>8, <2>1, <2>2
  <1> HIDE DEF b
  <1>12. Passed(p, d)'
    BY <1>8, <1>10, <1>11, Zenon DEF Passed
  <1> QED
    BY <1>1, <1>2, <1>12 DEF Moving

\* What compose() is given is the decomposition in canonical order.
LEMMA EndSortOrders ==
  ASSUME IInv, Moving, EndSort, NEW o, o = Ordered(Decomposed(source))
  PROVE  /\ IsString(input) /\ Len(o) = Len(input) /\ Classed(o)
         /\ \A j \in 1 .. Len(o) : input[j] = o[j]
  <1>1. PICK d : d = Decomposed(source)
    OBVIOUS
  <1>2. pc = "sort" /\ idx > Len(input)
    BY DEF EndSort
  <1>3. /\ Len(d) \in Nat /\ Classed(d) /\ IsString(d) /\ Len(input) = Len(d) /\ idx \in Nat
        /\ IsString(input)
    BY <1>1, <1>2, SortingFrom
  <1>4. PICK p : Passed(p, d)
    BY <1>1, <1>2 DEF Moving
  <1>5. \A k \in 1 .. Len(d) : k \in 1 .. idx - 1
    BY <1>2, <1>3
  <1>6. \A k \in 1 .. Len(d) : \A j \in 1 .. k - 1 : Before(d, p[j], p[k])
    BY <1>4, <1>5, Zenon DEF Passed
  <1>7. Bijective(p, Len(d)) /\ \A j \in 1 .. Len(d) : input[j] = d[p[j]]
    BY <1>4, Zenon DEF Passed
  <1>8. Len(o) = Len(d) /\ \A j \in 1 .. Len(d) : o[j] = d[p[j]]
    BY <1>1, <1>3, <1>6, <1>7, SortedIsOrdered
  <1>9. \A j \in 1 .. Len(d) : get_ccc(d[p[j]]) \in Nat
    BY <1>3, <1>7 DEF Classed, Bijective
  <1> QED
    BY <1>3, <1>7, <1>8, <1>9 DEF Classed

LEMMA EndSortSorted ==
  ASSUME IInv, Moving, EndSort
  PROVE  Sorted'
  <1>1. PICK o : o = Ordered(Decomposed(source))
    OBVIOUS
  <1>2. source' = source /\ input' = input /\ input_count' = 1
    BY DEF EndSort
  <1>3. Len(o) = Len(input) /\ \A j \in 1 .. Len(o) : input[j] = o[j]
    BY <1>1, EndSortOrders
  <1>4. \A j \in 1 + 1 .. Len(o) : j \in 1 .. Len(o)
    OBVIOUS
  <1> QED
    BY <1>1, <1>2, <1>3, <1>4 DEF Sorted

LEMMA StepsFromAhead ==
  ASSUME Sorted, KeepsAhead, pc \in {"compose", "marks"}, source' = source,
         IInv, input_count' \in Nat, input_count <= input_count'
  PROVE  Sorted'
  <1> SUFFICES ASSUME pc' \in {"compose", "marks"}
               PROVE  /\ Len(input') = Len(Ordered(Decomposed(source')))
                      /\ \A j \in input_count' + 1 .. Len(input') :
                           input'[j] = Ordered(Decomposed(source'))[j]
    BY DEF Sorted
  <1>1. /\ Len(input') = Len(input)
        /\ \A j \in input_count' + 1 .. Len(input) : input'[j] = input[j]
    BY DEF KeepsAhead
  <1>2. input_count \in Nat /\ Len(input) \in Nat
    BY Composing
  <1>3. \A j \in input_count' + 1 .. Len(input) : j \in input_count + 1 .. Len(input)
    <2> DEFINE now == input_count  next == input_count'  l == Len(input)
    <2>1. now \in Nat /\ next \in Nat /\ now <= next /\ l \in Nat
      BY <1>2
    <2> HIDE DEF now, next, l
    <2>2. \A j \in next + 1 .. l : j \in now + 1 .. l
      BY ONLY <2>1
    <2> QED
      BY <2>2 DEF now, next, l
  <1> QED
    BY <1>1, <1>3 DEF Sorted

LEMMA ReadsForward ==
  ASSUME IInv, pc \in {"compose", "marks"}, Next, pc' # "done"
  PROVE  source' = source /\ input_count' \in Nat /\ input_count <= input_count'
  <1>1. input_count \in Nat
    BY Composing
  <1>2. \/ ComposeHangul \/ BeginMarks \/ ComposeMark \/ KeepMark \/ EndMarks
    BY DEF Next, Step, Call, DecomposeTurn, EndDecompose, PassStarter, TakeMark, ShiftMark,
           PlaceMark, EndSort, Finish, Return
  <1>3. source' = source /\ \E n \in 0 .. 3 : input_count' = input_count + n
    <2>1. 0 \in 0 .. 3 /\ 1 \in 0 .. 3 /\ 2 \in 0 .. 3 /\ 3 \in 0 .. 3 /\ input_count + 0 = input_count
      BY <1>1
    <2>2. CASE ComposeHangul
      BY <2>1, <2>2 DEF ComposeHangul, WriteStarter
    <2>3. CASE BeginMarks
      BY <2>1, <2>3 DEF BeginMarks, decomposeVars
    <2>4. CASE ComposeMark
      BY <2>1, <2>4 DEF ComposeMark
    <2>5. CASE KeepMark
      BY <2>1, <2>5 DEF KeepMark
    <2>6. CASE EndMarks
      BY <2>1, <2>6 DEF EndMarks
    <2> QED
      BY <1>2, <2>2, <2>3, <2>4, <2>5, <2>6
  <1> QED
    BY <1>1, <1>3

LEMMA MovingNext == IInv /\ Moving /\ Sorted /\ [Next]_vars => Moving' /\ Sorted'
  <1> SUFFICES ASSUME IInv, Moving, Sorted, [Next]_vars
               PROVE  Moving' /\ Sorted'
    OBVIOUS
  <1>0. IInv' /\ (Next => KeepsAhead)
    BY InvNext
  <1>1. CASE \E s \in Inputs : Call(s)
    <2>1. PICK s \in Inputs : Call(s)
      BY <1>1
    <2>2. pc = "idle" /\ source' = s
      BY <2>1 DEF Call
    <2>3. pc' = "sort" => input' = s /\ idx' = 2 /\ ~decomposition_needed(s)
      BY <2>1, Zenon DEF Call, Return
    <2>4. pc' # "shift" /\ pc' # "compose" /\ pc' # "marks"
      BY <2>1 DEF Call, Return
    <2>5. s \in Seq(DOMAIN Decomposition)
      BY TablesAssumption
    <2>6. ASSUME pc' = "sort"
          PROVE  (\E p : Passed(p, Decomposed(source)))'
      <3>1. Decomposed(s) = s /\ IsString(s)
        BY <2>3, <2>5, <2>6, NothingToDecompose, StringIsSeq
      <3>2. \E p : Passed(p, s)'
        BY <2>3, <2>6, <3>1, NothingMoved
      <3> QED
        BY <2>2, <3>1, <3>2
    <2> QED
      BY <2>4, <2>6 DEF Moving, Sorted
  <1>2. CASE DecomposeTurn
    BY <1>2 DEF DecomposeTurn, Moving, Sorted
  <1>3. CASE EndDecompose
    <2>1. /\ pc = "decompose" /\ input_count = 0 /\ pc' = "sort" /\ idx' = 2
          /\ source' = source /\ input' = input
      BY <1>3 DEF EndDecompose
    <2>2. IsString(input) /\ input = Decomposed(source)
      BY <2>1, GrowthInPlace DEF IInv, Strung, DecomposesInPlace
    <2>3. \E p : Passed(p, input)'
      BY <2>1, <2>2, NothingMoved
    <2> QED
      BY <2>1, <2>2, <2>3 DEF Moving, Sorted
  <1>4. CASE PassStarter
    BY <1>4, PassStarterMoves DEF PassStarter, Sorted
  <1>5. CASE TakeMark
    BY <1>5, TakeMarkMoves DEF TakeMark, Sorted
  <1>6. CASE ShiftMark
    BY <1>6, ShiftMarkMoves DEF ShiftMark, Sorted
  <1>7. CASE PlaceMark
    BY <1>7, PlaceMarkMoves DEF PlaceMark, Sorted
  <1>8. CASE EndSort
    BY <1>8, EndSortSorted DEF EndSort, Moving
  <1>9. CASE Next /\ pc \in {"compose", "marks"}
    <2>1. CASE pc' = "done"
      BY <2>1 DEF Moving, Sorted
    <2>2. CASE pc' # "done"
      <3>1. Sorted'
        BY <1>0, <1>9, <2>2, ReadsForward, StepsFromAhead
      <3>2. pc' # "sort" /\ pc' # "shift"
        BY <1>9, <2>2 DEF Next, Step, Call, DecomposeTurn, EndDecompose, PassStarter, TakeMark,
              ShiftMark, PlaceMark, EndSort, Finish, Return, ComposeHangul, BeginMarks,
              ComposeMark, KeepMark, EndMarks
      <3> QED
        BY <3>1, <3>2 DEF Moving
    <2> QED
      BY <2>1, <2>2
  <1>10. CASE UNCHANGED vars
    BY <1>10, Zenon
      DEF vars, decomposeVars, sortVars, composeVars, Moving, Passed, Shifting, Sorted
  <1>11. Next => \/ \E s \in Inputs : Call(s)
                 \/ DecomposeTurn \/ EndDecompose
                 \/ PassStarter \/ TakeMark \/ ShiftMark \/ PlaceMark \/ EndSort
                 \/ pc \in {"compose", "marks"}
    BY DEF Next, Step, ComposeHangul, BeginMarks, ComposeMark, KeepMark, EndMarks, Finish
  <1> QED
    BY <1>1, <1>2, <1>3, <1>4, <1>5, <1>6, <1>7, <1>8, <1>9, <1>10, <1>11

LEMMA MovingAlways == Spec => [](IInv /\ Moving /\ Sorted)
  <1>1. Init => Moving /\ Sorted
    BY DEF Init, Moving, Sorted
  <1> QED
    BY <1>1, InvInit, InvNext, MovingNext, PTL DEF Spec

\* Working in place never damages what is still to be read, in any of the three
\* passes: decompose() finds what was given and leaves its decomposition,
\* sort_marks() leaves exactly its canonical order, in which marks of one class keep
\* their places, and compose() finds that.
THEOREM UnreadAlwaysKept == Spec => []UnreadKept
  <1>1. IInv /\ Moving /\ Sorted => UnreadKept
    BY GrowthInPlace DEF IInv, Sorted, UnreadKept
  <1> QED
    BY <1>1, MovingAlways, PTL

-----------------------------------------------------------------------------
(* Composing code point by code point, as Composed does.                   *)

Folds(u, s) ==
  u[0] = <<>> /\ \A n \in 1 .. Len(s) : u[n] = ComposeWith(u[n - 1], s[n])

LEMMA FoldExists ==
  ASSUME NEW s, NEW N \in Nat
  PROVE  \E u : u = [n \in 0 .. N |-> IF n = 0 THEN <<>> ELSE ComposeWith(u[n - 1], s[n])]
  <1> DEFINE Upto(u, k) == /\ u = [n \in 0 .. N |-> u[n]]
                           /\ u[0] = <<>>
                           /\ \A n \in 1 .. k : u[n] = ComposeWith(u[n - 1], s[n])
             Bad == {k \in 0 .. N : ~\E u : Upto(u, k)}
  <1>1. Bad = {}
    <2> SUFFICES ASSUME Bad # {}
                 PROVE  FALSE
      OBVIOUS
    <2>1. PICK k \in Bad : \A c \in Bad : k <= c
      <3>1. Bad \in SUBSET Nat
        <4>1. \A b \in Bad : b \in 0 .. N
          OBVIOUS
        <4> HIDE DEF Bad
        <4> QED
          BY <4>1
      <3> HIDE DEF Bad
      <3> QED
        BY <3>1, LeastOf
    <2>2. k # 0
      <3>1. Upto([n \in 0 .. N |-> <<>>], 0)
        OBVIOUS
      <3> QED
        BY <3>1
    <2>3. k - 1 \in 0 .. N /\ k - 1 \notin Bad /\ k \in 1 .. N
      <3>1. k \in 0 .. N
        OBVIOUS
      <3>2. k - 1 \in 0 .. N /\ ~(k <= k - 1) /\ k \in 1 .. N
        BY <2>2, <3>1
      <3> HIDE DEF Bad
      <3> QED
        BY <2>1, <3>2
    <2>4. PICK u : Upto(u, k - 1)
      BY <2>3
    <2> DEFINE h == [n \in 0 .. N |-> IF n = k THEN ComposeWith(u[k - 1], s[k]) ELSE u[n]]
    <2>5. /\ h = [n \in 0 .. N |-> h[n]] /\ h[0] = <<>> /\ h[k] = ComposeWith(u[k - 1], s[k])
          /\ \A n \in 0 .. k - 1 : h[n] = u[n]
      <3>1. u[0] = <<>>
        BY <2>4
      <3>2. k \in 0 .. N /\ k # 0 /\ 0 \in 0 .. N /\ \A n \in 0 .. k - 1 : n \in 0 .. N /\ n # k
        BY <2>3
      <3>3. \A n \in 0 .. N : h[n] = IF n = k THEN ComposeWith(u[k - 1], s[k]) ELSE u[n]
        OBVIOUS
      <3>4. h = [n \in 0 .. N |-> h[n]]
        BY ONLY <3>3
      <3> HIDE DEF h
      <3> QED
        BY ONLY <3>1, <3>2, <3>3, <3>4
    <2> HIDE DEF h
    <2>6. \A n \in 1 .. k : h[n] = ComposeWith(h[n - 1], s[n])
      <3> TAKE n \in 1 .. k
      <3>1. CASE n = k
        <4>1. h[k - 1] = u[k - 1]
          <5>1. k - 1 \in 0 .. k - 1
            BY <2>3
          <5> QED
            BY ONLY <2>5, <5>1
        <4> QED
          BY <2>5, <3>1, <4>1
      <3>2. CASE n # k
        <4>1. n \in 1 .. k - 1 /\ n - 1 \in 0 .. k - 1 /\ n \in 0 .. k - 1
          BY <2>3, <3>2, SMTT(60)
        <4>2. u[n] = ComposeWith(u[n - 1], s[n]) /\ h[n] = u[n] /\ h[n - 1] = u[n - 1]
          BY <2>4, <2>5, <4>1
        <4> QED
          BY <4>2
      <3> QED
        BY <3>1, <3>2
    <2>7. Upto(h, k)
      BY <2>5, <2>6
    <2> QED
      BY <2>7
  <1>2. N \in 0 .. N
    OBVIOUS
  <1>3. PICK u : Upto(u, N)
    BY <1>1, <1>2
  <1>4. \A n \in 0 .. N : u[n] = IF n = 0 THEN <<>> ELSE ComposeWith(u[n - 1], s[n])
    <2> TAKE n \in 0 .. N
    <2>1. n = 0 \/ n \in 1 .. N
      OBVIOUS
    <2> QED
      BY <1>3, <2>1
  <1>5. u = [n \in 0 .. N |-> u[n]]
    BY <1>3
  <1>6. [n \in 0 .. N |-> u[n]]
          = [n \in 0 .. N |-> IF n = 0 THEN <<>> ELSE ComposeWith(u[n - 1], s[n])]
    BY <1>4
  <1> QED
    BY <1>5, <1>6

LEMMA ComposedIs ==
  ASSUME NEW s, Len(s) \in Nat
  PROVE  \E u : Folds(u, s) /\ Composed(s) = u[Len(s)]
  <1> DEFINE N == Len(s)
             F(u) == [n \in 0 .. N |-> IF n = 0 THEN <<>> ELSE ComposeWith(u[n - 1], s[n])]
             h == CHOOSE u : u = F(u)
  <1>1. h = F(h)
    <2>1. \E u : u = F(u)
      BY FoldExists
    <2> HIDE DEF F
    <2> QED
      BY <2>1
  <1>2. Composed(s) = h[N]
    BY DEF Composed
  <1> HIDE DEF h
  <1>3. \A n \in 0 .. N : h[n] = IF n = 0 THEN <<>> ELSE ComposeWith(h[n - 1], s[n])
    <2>1. \A n \in 0 .. N : F(h)[n] = IF n = 0 THEN <<>> ELSE ComposeWith(h[n - 1], s[n])
      OBVIOUS
    <2> HIDE DEF F
    <2> QED
      BY <1>1, <2>1
  <1>4. 0 \in 0 .. N /\ \A n \in 1 .. N : n \in 0 .. N /\ n # 0
    OBVIOUS
  <1>5. h[0] = <<>> /\ \A n \in 1 .. N : h[n] = ComposeWith(h[n - 1], s[n])
    BY ONLY <1>3, <1>4
  <1>6. Folds(h, s)
    BY <1>5 DEF Folds
  <1> QED
    BY <1>2, <1>6

-----------------------------------------------------------------------------
(* What composing with one code point does.                                *)

\* i is the place of the last starter of t, or 0.
LastStarter(t, i) ==
  /\ \A j \in i + 1 .. Len(t) : ~Starter(t[j])
  /\ i # 0 => i \in 1 .. Len(t) /\ Starter(t[i])

\* Behind that place is a mark that keeps c from composing.
Blocked(t, i, c) == i < Len(t) /\ get_ccc(t[Len(t)]) >= get_ccc(c)

LEMMA LastStarterIs ==
  ASSUME NEW t, Len(t) \in Nat, NEW i \in Nat, LastStarter(t, i)
  PROVE  SelectLastInSeq(t, Starter) = i
  <1> DEFINE I == {j \in 1 .. Len(t) : Starter(t[j])}
  <1>1. SelectLastInSeq(t, Starter) = IF I # {} THEN Max(I) ELSE 0
    BY DEF SelectLastInSeq
  <1>2. CASE i = 0
    <2>1. I = {}
      BY <1>2 DEF LastStarter
    <2> QED
      BY <1>1, <1>2, <2>1
  <1>3. CASE i # 0
    <2>1. i \in I /\ \A j \in I : i >= j
      BY <1>3 DEF LastStarter
    <2>2. \A j \in I : j \in Nat
      OBVIOUS
    <2> HIDE DEF I
    <2>3. \A x \in I : (\A y \in I : x >= y) => x = i
      BY <2>1, <2>2
    <2>4. Max(I) = i
      BY <2>1, <2>3 DEF Max
    <2> QED
      BY <1>1, <2>1, <2>4
  <1> QED
    BY <1>2, <1>3

LEMMA Appends ==
  ASSUME NEW t, IsString(t), NEW c, NEW i \in Nat, LastStarter(t, i),
         i = 0 \/ Combine(t[i], c) = {} \/ Blocked(t, i, c)
  PROVE  ComposeWith(t, c) = Append(t, c)
  <1>1. Len(t) \in Nat
    BY StringIsMap
  <1>2. SelectLastInSeq(t, Starter) = i
    BY <1>1, LastStarterIs
  <1> QED
    BY <1>2, Zenon DEF ComposeWith, Last, Blocked

-----------------------------------------------------------------------------
(* Hangul arithmetic.                                                      *)

LEMMA TimesGrows ==
  ASSUME NEW a \in Nat, NEW b \in Nat, a <= b, NEW n \in Nat
  PROVE  a * n <= b * n /\ a * n \in Nat /\ b * n \in Nat
  OBVIOUS

LEMMA Multiple ==
  ASSUME NEW m \in Nat, NEW n \in Nat \ {0}, NEW e \in 0 .. n - 1
  PROVE  (m * n + e) % n = e /\ (m * n + e) \div n = m
  <1> DEFINE x == m * n + e
             q == x \div n
             r == x % n
  <1>1. m * n \in Nat /\ x \in Nat /\ x = m * n + e
    OBVIOUS
  <1>2. q \in Nat /\ r \in 0 .. n - 1 /\ x = q * n + r
    <2> HIDE DEF x
    <2> QED
      BY <1>1
  <1> HIDE DEF x, q, r
  <1>3. q = m
    <2>1. ~(q < m)
      <3> SUFFICES ASSUME q + 1 <= m
                   PROVE  FALSE
        BY <1>2
      <3>1. (q + 1) * n <= m * n
        BY <1>2, TimesGrows
      <3>2. (q + 1) * n = q * n + n /\ q * n \in Nat
        BY <1>2
      <3> QED
        BY <1>1, <1>2, <3>1, <3>2
    <2>2. ~(m < q)
      <3> SUFFICES ASSUME m + 1 <= q
                   PROVE  FALSE
        BY <1>2
      <3>1. (m + 1) * n <= q * n
        BY <1>2, TimesGrows
      <3>2. (m + 1) * n = m * n + n /\ m * n \in Nat
        OBVIOUS
      <3> QED
        BY <1>1, <1>2, <3>1, <3>2
    <2> QED
      BY <1>2, <2>1, <2>2
  <1>4. r = e
    BY <1>1, <1>2, <1>3
  <1> QED
    BY <1>3, <1>4 DEF x, q, r

LEMMA Divided ==
  ASSUME NEW x \in Nat, NEW n \in Nat \ {0}
  PROVE  x \div n \in Nat /\ x % n \in 0 .. n - 1 /\ x = (x \div n) * n + (x % n)
  OBVIOUS

\* A quotient is below what the dividend is a multiple's worth below.
LEMMA QuotientBelow ==
  ASSUME NEW q \in Nat, NEW n \in Nat \ {0}, NEW e \in Nat, NEW m \in Nat,
         q * n + e < m * n
  PROVE  q < m
  <1> SUFFICES ASSUME m <= q
               PROVE  FALSE
    OBVIOUS
  <1>1. m * n <= q * n /\ m * n \in Nat /\ q * n \in Nat
    BY TimesGrows
  <1> QED
    BY <1>1

LEMMA OpenSyllables ==
  ASSUME NEW l, NEW v, HangulL(l), HangulV(v)
  PROVE  /\ OpenSyllable(SyllableOf(l, v)) /\ SyllableOf(l, v) \in Nat
  <1> DEFINE a == l - LBase
             b == v - VBase
             m == a * VCount + b
             x == m * TCount
             all == LCount * VCount
  <1>1. /\ a \in 0 .. LCount - 1 /\ b \in 0 .. VCount - 1
        /\ LCount \in Nat \ {0} /\ VCount \in Nat \ {0} /\ TCount \in Nat \ {0} /\ SBase \in Nat
    BY HangulAssumption DEF HangulL, HangulV
  <1>2. SyllableOf(l, v) = SBase + x
    <2>1. a * VCount + v - VBase = a * VCount + b
      <3>1. v \in Int /\ VBase \in Int
        BY HangulAssumption DEF HangulV
      <3> DEFINE y == a * VCount
      <3>2. y \in Int
        BY <1>1
      <3> HIDE DEF y
      <3> QED
        BY <3>1, <3>2
    <2> QED
      BY <2>1 DEF SyllableOf
  <1> HIDE DEF a, b
  <1>3. m \in Nat /\ all \in Nat /\ m + 1 <= all
    <2>1. (a + 1) * VCount <= LCount * VCount /\ a * VCount \in Nat /\ LCount * VCount \in Nat
      BY <1>1, TimesGrows
    <2>2. (a + 1) * VCount = a * VCount + VCount
      BY <1>1
    <2> QED
      BY <1>1, <2>1, <2>2
  <1> HIDE DEF m, all
  <1>4. x \in Nat /\ x + TCount <= all * TCount /\ all * TCount \in Nat
    <2>1. (m + 1) * TCount <= all * TCount /\ m * TCount \in Nat /\ all * TCount \in Nat
      BY <1>1, <1>3, TimesGrows
    <2>2. (m + 1) * TCount = m * TCount + TCount
      BY <1>1, <1>3
    <2> QED
      BY <1>1, <2>1, <2>2
  <1>5. x % TCount = 0
    <2>1. 0 \in 0 .. TCount - 1 /\ x = m * TCount + 0
      BY <1>1, <1>4
    <2> QED
      BY <1>1, <1>3, <2>1, Multiple
  <1>6. all * TCount = LCount * VCount * TCount
    BY DEF all
  <1> HIDE DEF x
  <1>7. SBase + x \in Nat /\ (SBase + x) - SBase = x
        /\ SBase + x \in SBase .. SBase + all * TCount - 1
    BY <1>1, <1>4
  <1> QED
    BY <1>2, <1>5, <1>6, <1>7 DEF OpenSyllable, Syllable

LEMMA ClosedSyllables ==
  ASSUME NEW s, NEW t, OpenSyllable(s), HangulT(t)
  PROVE  /\ Syllable(s + t - TBase) /\ ~OpenSyllable(s + t - TBase)
  <1> DEFINE x == s - SBase
             e == t - TBase
             all == LCount * VCount
             m == x \div TCount
  <1>1. /\ TCount \in Nat \ {0} /\ SBase \in Nat /\ TBase \in Nat /\ all \in Nat
        /\ all * TCount = LCount * VCount * TCount
    BY HangulAssumption
  <1> HIDE DEF all
  <1>2. /\ x \in Nat /\ s \in Nat /\ x < all * TCount /\ x % TCount = 0 /\ all * TCount \in Nat
        /\ e \in 1 .. TCount - 1 /\ t \in Nat
    BY <1>1 DEF OpenSyllable, Syllable, HangulT
  <1>3. s + t - TBase = SBase + (x + e) /\ SBase + (x + e) - SBase = x + e
    BY <1>1, <1>2
  <1> HIDE DEF e, x
  <1>4. m \in Nat /\ x = m * TCount + 0
    BY <1>1, <1>2, Divided
  <1> HIDE DEF m
  <1>5. m < all
    BY <1>1, <1>2, <1>4, QuotientBelow
  <1>6. x + TCount <= all * TCount
    <2>1. (m + 1) * TCount <= all * TCount /\ m * TCount \in Nat
      BY <1>1, <1>4, <1>5, TimesGrows
    <2>2. (m + 1) * TCount = m * TCount + TCount
      BY <1>1, <1>4
    <2> QED
      BY <1>1, <1>4, <2>1, <2>2
  <1>7. (x + e) % TCount = e
    <2>1. e \in 0 .. TCount - 1 /\ x + e = m * TCount + e
      BY <1>1, <1>2, <1>4
    <2> QED
      BY <1>1, <1>4, <2>1, Multiple
  <1>8. SBase + (x + e) \in SBase .. SBase + all * TCount - 1
    BY <1>1, <1>2, <1>6
  <1> QED
    BY <1>1, <1>2, <1>3, <1>7, <1>8 DEF OpenSyllable, Syllable

-----------------------------------------------------------------------------
(* What two code points combine to.                                        *)

LEMMA HangulApart ==
  /\ \A c : HangulL(c) => ~HangulV(c) /\ ~HangulT(c) /\ ~Syllable(c)
  /\ \A c : HangulL(c) \/ HangulV(c) \/ HangulT(c) \/ Syllable(c) => Starter(c)
  BY CompositionAssumption, Zenon DEF HangulL, HangulV, HangulT, Syllable

LEMMA TableApart ==
  ASSUME NEW b, NEW c, Composes(b, c)
  PROVE  LET d == Composition[<<b, c>>]
         IN  /\ Starter(b) /\ Starter(d) /\ ~Hangul(b) /\ ~Hangul(d)
             /\ ~HangulL(c) /\ ~Syllable(c)
  <1> DEFINE pair == <<b, c>>
  <1>1. pair \in DOMAIN Composition /\ pair[1] = b /\ pair[2] = c
    BY DEF Composes
  <1> HIDE DEF pair
  <1>2. /\ Starter(pair[1]) /\ Starter(Composition[pair])
        /\ ~Hangul(pair[1]) /\ ~Hangul(Composition[pair]) /\ ~HangulL(pair[2]) /\ ~Syllable(pair[2])
    BY <1>1, CompositionAssumption, Zenon DEF Hangul, HangulL, Syllable
  <1> QED
    BY <1>1, <1>2, Zenon DEF pair

LEMMA CombineVowel ==
  ASSUME NEW l, NEW v, HangulL(l), HangulV(v)
  PROVE  Combine(l, v) = {SyllableOf(l, v)}
  <1>1. ~OpenSyllable(l) /\ ~Composes(l, v)
    BY HangulApart, TableApart, Zenon DEF OpenSyllable, Hangul
  <1> QED
    BY <1>1 DEF Combine

LEMMA CombineFinal ==
  ASSUME NEW s, NEW t, OpenSyllable(s), HangulT(t)
  PROVE  Combine(s, t) = {s + t - TBase}
  <1>1. ~HangulL(s) /\ ~Composes(s, t)
    BY HangulApart, TableApart, Zenon DEF OpenSyllable, Hangul
  <1> QED
    BY <1>1 DEF Combine

LEMMA CombineTable ==
  ASSUME NEW b, NEW c, Composes(b, c)
  PROVE  Combine(b, c) = {Composition[<<b, c>>]}
  <1>1. ~HangulL(b) /\ ~OpenSyllable(b)
    BY TableApart, Zenon DEF OpenSyllable, Hangul
  <1> QED
    BY <1>1 DEF Combine

LEMMA CombineNothing ==
  ASSUME NEW b, NEW c, ~(HangulL(b) /\ HangulV(c)), ~(OpenSyllable(b) /\ HangulT(c)),
         ~Composes(b, c)
  PROVE  Combine(b, c) = {}
  BY DEF Combine

\* What combines is starters, and makes one.
LEMMA CombinesStarters ==
  ASSUME NEW b, NEW c, NEW d \in Combine(b, c)
  PROVE  Starter(b) /\ Starter(d) /\ Combine(b, c) = {d}
  <1>1. CASE HangulL(b) /\ HangulV(c)
    BY <1>1, CombineVowel, OpenSyllables, HangulApart DEF OpenSyllable
  <1>2. CASE OpenSyllable(b) /\ HangulT(c)
    BY <1>2, CombineFinal, ClosedSyllables, HangulApart DEF OpenSyllable
  <1>3. CASE Composes(b, c)
    <2>1. Combine(b, c) = {Composition[<<b, c>>]}
      BY <1>3, CombineTable
    <2>2. Starter(b) /\ Starter(Composition[<<b, c>>])
      BY <1>3, TableApart
    <2> QED
      BY <2>1, <2>2
  <1> QED
    BY <1>1, <1>2, <1>3, CombineNothing

LEMMA Replaces ==
  ASSUME NEW t, IsString(t), NEW c, NEW i \in Nat, LastStarter(t, i), i # 0,
         ~Blocked(t, i, c), NEW d \in Combine(t[i], c)
  PROVE  ComposeWith(t, c) = [t EXCEPT ![i] = d]
  <1>1. Len(t) \in Nat
    BY StringIsMap
  <1>2. SelectLastInSeq(t, Starter) = i
    BY <1>1, LastStarterIs
  <1>3. (CHOOSE e \in {d} : TRUE) = d /\ {d} # {} /\ Combine(t[i], c) = {d}
    BY CombinesStarters
  <1>4. ComposeWith(t, c) = [t EXCEPT ![i] = CHOOSE e \in Combine(@, c) : TRUE]
    BY <1>2, <1>3, Zenon DEF ComposeWith, Last, Blocked
  <1> QED
    BY <1>3, <1>4

LEMMA AppendIs ==
  ASSUME NEW t, IsString(t), NEW c
  PROVE  /\ IsString(Append(t, c)) /\ Len(Append(t, c)) = Len(t) + 1
         /\ Append(t, c)[Len(t) + 1] = c
         /\ \A j \in 1 .. Len(t) : Append(t, c)[j] = t[j]
  <1> DEFINE S == ToSet(t) \cup {c}
             w == Append(t, c)
  <1>1. t \in Seq(S) /\ c \in S
    <2>1. Len(t) \in Nat /\ t = [j \in 1 .. Len(t) |-> t[j]] /\ DOMAIN t = 1 .. Len(t)
      BY StringIsMap
    <2>2. \A j \in 1 .. Len(t) : t[j] \in S
      BY <2>1 DEF ToSet
    <2> QED
      BY <2>1, <2>2, IsASeq
  <1>2. w \in Seq(S) /\ Len(w) = Len(t) + 1 /\ w[Len(t) + 1] = c /\ \A j \in 1 .. Len(t) : w[j] = t[j]
    <2> HIDE DEF S
    <2> QED
      BY <1>1
  <1>3. IsString(w)
    BY <1>2, StringIsSeq
  <1> QED
    BY <1>2, <1>3

\* Nothing keeps the next code point from a starter that is written last.
LEMMA StarterIsLast ==
  ASSUME NEW w, IsString(w), NEW i \in Nat \ {0}, i = Len(w), Starter(w[i])
  PROVE  LastStarter(w, i) /\ \A c : ~Blocked(w, i, c)
  BY DEF LastStarter, Blocked

LEMMA StarterKeeps ==
  ASSUME NEW w, IsString(w), NEW i \in Nat \ {0}, i = Len(w), Starter(w[i]),
         NEW c, Combine(w[i], c) = {}
  PROVE  ComposeWith(w, c) = Append(w, c)
  <1>1. LastStarter(w, i) /\ i \in Nat
    BY StarterIsLast
  <1> QED
    BY <1>1, Appends

LEMMA StarterTakes ==
  ASSUME NEW t, IsString(t), NEW b, NEW c, NEW d \in Combine(b, c)
  PROVE  ComposeWith(Append(t, b), c) = Append(t, d)
  <1> DEFINE w == Append(t, b)
             i == Len(t) + 1
             x == [w EXCEPT ![i] = d]
             y == Append(t, d)
  <1>1. /\ IsString(w) /\ Len(w) = i /\ w[i] = b /\ i \in Nat \ {0}
        /\ \A j \in 1 .. Len(t) : w[j] = t[j]
        /\ \A j \in 1 .. i : j = i \/ j \in 1 .. Len(t)
    BY AppendIs, StringIsMap
  <1>2. IsString(y) /\ Len(y) = i /\ y[i] = d /\ \A j \in 1 .. Len(t) : y[j] = t[j]
    BY AppendIs
  <1> HIDE DEF w, y, i
  <1>0. Starter(b)
    BY CombinesStarters
  <1>3. LastStarter(w, i) /\ ~Blocked(w, i, c) /\ d \in Combine(w[i], c) /\ i # 0 /\ i \in Nat
    BY <1>0, <1>1, StarterIsLast
  <1>4. ComposeWith(w, c) = x
    <2>1. IsString(w)
      BY <1>1
    <2> QED
      BY ONLY <1>3, <2>1, Replaces
  <1>5. /\ IsString(x) /\ Len(x) = Len(w)
        /\ \A j \in 1 .. Len(w) : x[j] = IF j = i THEN d ELSE w[j]
    <2>1. IsString(w)
      BY <1>1
    <2> QED
      BY ONLY <2>1, ExceptIsString
  <1> HIDE DEF x
  <1>6. \A j \in 1 .. i : x[j] = y[j]
    BY ONLY <1>1, <1>2, <1>5
  <1>7. x = [j \in 1 .. i |-> x[j]] /\ y = [j \in 1 .. i |-> y[j]]
    BY <1>1, <1>2, <1>5, StringIsMap
  <1>8. x = y
    BY ONLY <1>6, <1>7
  <1> QED
    BY <1>4, <1>8 DEF y, w

\* The first k of s are t.
Holds(t, s, k) ==
  IsString(t) /\ Classed(t) /\ Len(t) = k /\ \A j \in 1 .. k : s[j] = t[j]

LEMMA AppendHolds ==
  ASSUME NEW s, IsString(s), NEW k \in 1 .. Len(s), NEW t, Holds(t, s, k - 1),
         NEW c, get_ccc(c) \in Nat
  PROVE  Holds(Append(t, c), [s EXCEPT ![k] = c], k)
  <1> DEFINE w == Append(t, c)
             r == [s EXCEPT ![k] = c]
  <1>1. /\ Len(t) = k - 1 /\ Len(t) + 1 = k /\ k \in Nat
        /\ \A j \in 1 .. k : j \in 1 .. Len(s) /\ (j = k \/ j \in 1 .. Len(t))
        /\ \A j \in 1 .. Len(t) : s[j] = t[j] /\ get_ccc(t[j]) \in Nat /\ j # k
        /\ IsString(t)
    BY StringIsMap DEF Holds, Classed
  <1>2. \A j \in 1 .. Len(s) : r[j] = IF j = k THEN c ELSE s[j]
    BY ExceptIsString
  <1>3. /\ IsString(w) /\ Len(w) = k /\ w[k] = c /\ \A j \in 1 .. Len(t) : w[j] = t[j]
    BY <1>1, AppendIs
  <1> HIDE DEF w, r
  <1>4. \A j \in 1 .. k : r[j] = w[j] /\ get_ccc(w[j]) \in Nat
    BY <1>1, <1>2, <1>3
  <1> QED
    BY <1>3, <1>4 DEF w, r, Holds, Classed

LEMMA ReplaceHolds ==
  ASSUME NEW s, IsString(s), NEW k \in Nat, k <= Len(s), NEW t, Holds(t, s, k),
         NEW i \in 1 .. k, NEW c, get_ccc(c) \in Nat
  PROVE  Holds([t EXCEPT ![i] = c], [s EXCEPT ![i] = c], k)
  <1> DEFINE w == [t EXCEPT ![i] = c]
             r == [s EXCEPT ![i] = c]
  <1>1. /\ Len(t) = k /\ \A j \in 1 .. k : j \in 1 .. Len(s)
        /\ \A j \in 1 .. k : s[j] = t[j] /\ get_ccc(t[j]) \in Nat
        /\ IsString(t)
    BY StringIsMap DEF Holds, Classed
  <1>2. \A j \in 1 .. Len(s) : r[j] = IF j = i THEN c ELSE s[j]
    BY ExceptIsString
  <1>3. /\ IsString(w) /\ Len(w) = k /\ \A j \in 1 .. k : w[j] = IF j = i THEN c ELSE t[j]
    BY <1>1, ExceptIsString
  <1> HIDE DEF w, r
  <1>4. \A j \in 1 .. k : r[j] = w[j] /\ get_ccc(w[j]) \in Nat
    BY <1>1, <1>2, <1>3
  <1> QED
    BY <1>3, <1>4 DEF w, r, Holds, Classed

-----------------------------------------------------------------------------
(* compose().                                                              *)

\* Between two starters, what is written is what composing gives that far, and the
\* code point that is next is appended to it.
Between(o, u) ==
  LET t == u[input_count - 1]
  IN  /\ input_count - 1 \in 0 .. Len(o)
      /\ Holds(t, input, composition_count - 1)
      /\ input_count <= Len(o) =>
           /\ input[input_count] = o[input_count]
           /\ ComposeWith(t, o[input_count]) = Append(t, o[input_count])
           /\ ~Starter(o[input_count]) => t = <<>> \/ Hangul(t[Len(t)])

\* The place of the starter that a mark would compose with, or 0.
Base == IF Starter(row) THEN initial_composition_count ELSE initial_composition_count - 1

\* While marks are passed, too; and the locals describe its end.
AmongMarks(o, u) ==
  LET t == u[input_count]
  IN  /\ Holds(t, input, composition_count)
      /\ LastStarter(t, Base)
      /\ Starter(row) =>
           /\ t[Base] = row /\ ~Hangul(row)
           /\ previous_ccc = IF Base = Len(t) THEN -1 ELSE get_ccc(t[Len(t)])
      /\ ~Starter(row) => Base = 0 \/ Hangul(t[Base])

ComposesTo(o, u) ==
  /\ o = Ordered(Decomposed(source)) /\ Classed(o) /\ Len(o) = Len(input)
  /\ Folds(u, o) /\ Composed(o) = u[Len(o)]
  /\ \A j \in input_count + 1 .. Len(o) : input[j] = o[j]
  /\ pc = "compose" => Between(o, u)
  /\ pc = "marks" => AmongMarks(o, u)

Folding == pc \in {"compose", "marks"} => \E o, u : ComposesTo(o, u)

LEMMA BeginsEmpty ==
  ASSUME IInv, Moving, EndSort
  PROVE  Folding'
  <1>1. PICK o : o = Ordered(Decomposed(source))
    OBVIOUS
  <1>2. /\ source' = source /\ input' = input /\ input_count' = 1 /\ composition_count' = 1
        /\ pc' = "compose"
    BY DEF EndSort
  <1>3. /\ IsString(input) /\ Len(o) = Len(input) /\ Classed(o) /\ Len(o) \in Nat
        /\ \A j \in 1 .. Len(o) : input[j] = o[j]
    BY <1>1, EndSortOrders, StringIsMap
  <1>4. PICK u : Folds(u, o) /\ Composed(o) = u[Len(o)]
    BY <1>3, ComposedIs
  <1> DEFINE t == u[0]
  <1>5. t = <<>> /\ IsString(t) /\ Len(t) = 0
    <2>1. <<>> = [j \in 1 .. 0 |-> 0] /\ Len(<<>>) = 0 /\ <<>> \in Seq({})
      OBVIOUS
    <2>2. t = <<>>
      BY <1>4 DEF Folds
    <2> QED
      BY <2>1, <2>2, StringIsSeq
  <1> HIDE DEF t
  <1>6. Holds(t, input, 0)
    BY <1>5 DEF Holds, Classed
  <1>7. \A c : ComposeWith(t, c) = Append(t, c)
    <2>1. LastStarter(t, 0)
      BY <1>5 DEF LastStarter
    <2> QED
      BY <1>5, <2>1, Appends
  <1>8. 1 - 1 = 0 /\ 0 \in 0 .. Len(o) /\ (1 <= Len(o) => input[1] = o[1])
    BY <1>3
  <1>9. Between(o, u)'
    BY <1>2, <1>5, <1>6, <1>7, <1>8 DEF Between, t
  <1>10. \A j \in 1 + 1 .. Len(o) : input[j] = o[j]
    <2>1. \A j \in 1 + 1 .. Len(o) : j \in 1 .. Len(o)
      OBVIOUS
    <2> QED
      BY <1>3, <2>1
  <1>11. ComposesTo(o, u)'
    BY <1>1, <1>2, <1>3, <1>4, <1>9, <1>10 DEF ComposesTo
  <1> QED
    BY <1>11 DEF Folding

\* What is known of the places in every turn.
LEMMA InCompose ==
  ASSUME IInv, pc \in {"compose", "marks"}, NEW o, NEW u, ComposesTo(o, u)
  PROVE  /\ IsString(input) /\ Len(input) = Len(o) /\ Len(o) \in Nat
         /\ input_count \in Nat /\ composition_count \in 1 .. input_count
         /\ pc = "marks" => /\ input_count \in 1 .. Len(o)
                            /\ initial_composition_count \in 1 .. composition_count
         /\ \A j \in 1 .. Len(o) : get_ccc(o[j]) \in Nat
         /\ \A j \in input_count + 1 .. Len(o) : input[j] = o[j]
         /\ \A n \in 1 .. Len(o) : u[n] = ComposeWith(u[n - 1], o[n])
  <1>1. /\ IsString(input) /\ Len(input) = Len(o) /\ Len(o) \in Nat
        /\ input_count \in Nat /\ composition_count \in 1 .. input_count
        /\ pc = "marks" => /\ input_count <= Len(o)
                           /\ initial_composition_count \in 1 .. composition_count
    BY Composing DEF ComposesTo
  <1>2. pc = "marks" => input_count \in 1 .. Len(o)
    BY <1>1
  <1> QED
    BY <1>1, <1>2 DEF ComposesTo, Classed, Folds

\* A turn that writes at one place keeps what is ahead.
LEMMA AheadStays ==
  ASSUME IInv, pc \in {"compose", "marks"}, NEW o, NEW u, ComposesTo(o, u),
         NEW k \in Nat, k <= input_count, NEW c, input' = [input EXCEPT ![k] = c],
         NEW n \in Nat, n > input_count
  PROVE  /\ Len(input') = Len(input) /\ IsString(input')
         /\ \A j \in n .. Len(o) : input'[j] = o[j]
  <1>1. /\ IsString(input) /\ Len(input) = Len(o) /\ Len(o) \in Nat /\ input_count \in Nat
        /\ \A j \in input_count + 1 .. Len(o) : input[j] = o[j]
    BY InCompose
  <1>2. /\ IsString(input') /\ Len(input') = Len(input)
        /\ \A j \in 1 .. Len(input) : input'[j] = IF j = k THEN c ELSE input[j]
    BY <1>1, ExceptIsString, ZenonT(60)
  <1>3. \A j \in n .. Len(o) : j \in input_count + 1 .. Len(o) /\ j \in 1 .. Len(o) /\ j # k
    <2> DEFINE m == input_count
    <2>1. m \in Nat /\ k \in Nat /\ k <= m /\ n \in Nat /\ n > m
      BY <1>1
    <2> HIDE DEF m
    <2>2. \A j \in n .. Len(o) : j \in m + 1 .. Len(o) /\ j \in 1 .. Len(o) /\ j # k
      BY ONLY <1>1, <2>1
    <2> QED
      BY <2>2 DEF m
  <1> QED
    BY <1>1, <1>2, <1>3

\* A turn that writes one Hangul code point for the next k that are read.
LEMMA HangulWritten ==
  ASSUME IInv, NEW o, NEW u, ComposesTo(o, u), pc = "compose", pc' = pc, source' = source,
         NEW k \in 1 .. 3, NEW h, WriteStarter(h, k), Hangul(h), input_count + k <= Len(o) + 1,
         u[input_count - 1 + k] = Append(u[input_count - 1], h),
         input_count + k <= Len(o) => Combine(h, o[input_count + k]) = {}
  PROVE  ComposesTo(o, u)'
  <1> DEFINE n == input_count
             m == n + k
             place == composition_count
             t == u[n - 1]
             w == u[m - 1]
  <1>1. /\ IsString(input) /\ Len(input) = Len(o) /\ Len(o) \in Nat /\ n \in Nat
        /\ place \in 1 .. n /\ place \in Nat /\ n <= Len(o)
    BY InCompose, SMTT(60)
  <1>2. /\ input' = [input EXCEPT ![place] = h] /\ input_count' = m
        /\ composition_count' = place + 1
    BY DEF WriteStarter
  <1>3. Holds(t, input, place - 1)
    BY DEF ComposesTo, Between
  <1>4. w = Append(t, h) /\ m \in Nat /\ m - 1 \in 0 .. Len(o) /\ place + 1 - 1 = place /\ m > n
        /\ place <= n /\ place \in 1 .. Len(input)
    <2>1. n - 1 + k = m - 1
      BY <1>1
    <2> QED
      BY <1>1, <2>1
  <1>5. Starter(h) /\ get_ccc(h) \in Nat
    <2>1. Starter(h)
      BY HangulApart, Zenon DEF Hangul
    <2> QED
      BY <2>1 DEF Starter
  <1>6. Holds(w, input', place)
    <2>1. Holds(Append(t, h), [input EXCEPT ![place] = h], place)
      <3> HIDE DEF t, place
      <3> QED
        BY <1>1, <1>3, <1>4, <1>5, AppendHolds
    <2> QED
      BY <1>2, <1>4, <2>1
  <1>7. Len(input') = Len(input) /\ \A j \in m .. Len(o) : input'[j] = o[j]
    <2> HIDE DEF m, place
    <2> QED
      BY <1>1, <1>2, <1>4, AheadStays
  <1>8. \A j \in m + 1 .. Len(o) : j \in m .. Len(o)
    BY <1>4
  <1>9. IsString(t) /\ w[Len(w)] = h
    BY <1>3, <1>4, AppendIs DEF Holds
  <1>10. m <= Len(o) => input'[m] = o[m] /\ ComposeWith(w, o[m]) = Append(w, o[m])
    <2>1. Combine(h, o[m]) = {} => ComposeWith(w, o[m]) = Append(w, o[m])
      <3>1. IsString(w) /\ place = Len(w) /\ place \in Nat \ {0} /\ w[place] = h
        BY <1>1, <1>6, <1>9 DEF Holds
      <3> HIDE DEF w, place
      <3> QED
        BY <1>5, <3>1, StarterKeeps
    <2>2. m <= Len(o) => m \in m .. Len(o)
      BY <1>1, <1>4
    <2> QED
      BY <1>7, <2>1, <2>2
  <1>11. Between(o, u)'
    <2> HIDE DEF w
    <2> QED
      BY <1>2, <1>4, <1>6, <1>9, <1>10, SMTT(60) DEF Between, w
  <1> QED
    BY <1>1, <1>2, <1>7, <1>8, <1>11, SMTT(60) DEF ComposesTo

LEMMA HangulFolds ==
  ASSUME IInv, NEW o, NEW u, ComposesTo(o, u), ComposeHangul
  PROVE  ComposesTo(o, u)'
  <1> DEFINE n == input_count
             t == u[n - 1]
             c == o[n]
             v == o[n + 1]
             f == o[n + 2]
  <1>1. /\ pc = "compose" /\ pc' = pc /\ source' = source /\ n <= Len(input)
        /\ \/ /\ HangulL(input[n]) /\ Ahead(1, HangulV)
              /\ IF Ahead(2, HangulT)
                 THEN WriteStarter(SyllableOf(input[n], input[n + 1]) + input[n + 2] - TBase, 3)
                 ELSE WriteStarter(SyllableOf(input[n], input[n + 1]), 2)
           \/ /\ OpenSyllable(input[n]) /\ Ahead(1, HangulT)
              /\ WriteStarter(input[n] + input[n + 1] - TBase, 2)
           \/ /\ Hangul(input[n])
              /\ ~(HangulL(input[n]) /\ Ahead(1, HangulV))
              /\ ~(OpenSyllable(input[n]) /\ Ahead(1, HangulT))
              /\ WriteStarter(input[n], 1)
    BY DEF ComposeHangul
  <1>2. /\ Len(input) = Len(o) /\ Len(o) \in Nat /\ n \in Nat /\ n >= 1
        /\ \A j \in n + 1 .. Len(o) : input[j] = o[j]
        /\ \A j \in 1 .. Len(o) : u[j] = ComposeWith(u[j - 1], o[j])
    BY <1>1, InCompose
  <1>3. /\ n + 1 <= Len(o) => input[n + 1] = v /\ n + 1 \in 1 .. Len(o)
        /\ n + 2 <= Len(o) => input[n + 2] = f /\ n + 2 \in 1 .. Len(o)
    BY <1>2, SMTT(60)
  <1>4. /\ Ahead(1, HangulV) <=> n + 1 <= Len(o) /\ HangulV(v)
        /\ Ahead(1, HangulT) <=> n + 1 <= Len(o) /\ HangulT(v)
        /\ Ahead(2, HangulT) <=> n + 2 <= Len(o) /\ HangulT(f)
    BY <1>2, <1>3 DEF Ahead
  <1>5. input[n] = c /\ ComposeWith(t, c) = Append(t, c) /\ IsString(t)
    BY <1>1, <1>2 DEF ComposesTo, Between, Holds
  <1>6. u[n] = Append(t, c)
    BY <1>1, <1>2, <1>5, SMTT(60)
  <1>7. n + 1 <= Len(o) => u[n + 1] = ComposeWith(u[n], v)
    BY <1>2, <1>3
  <1>8. n + 2 <= Len(o) => u[n + 2] = ComposeWith(u[n + 1], f)
    BY <1>2, <1>3
  <1>9. n - 1 + 1 = n /\ n - 1 + 2 = n + 1 /\ n - 1 + 3 = n + 2
    BY <1>2
  <1>10. CASE HangulL(c) /\ Ahead(1, HangulV)
    <2> DEFINE h == SyllableOf(c, v)
    <2>1. n + 1 <= Len(o) /\ HangulV(v) /\ Starter(c) /\ h \in Combine(c, v)
      BY <1>4, <1>10, CombineVowel, HangulApart
    <2>2. u[n + 1] = Append(t, h)
      <3>1. u[n + 1] = ComposeWith(Append(t, c), v)
        BY <1>6, <1>7, <2>1
      <3> HIDE DEF t, c, v, h
      <3>2. ComposeWith(Append(t, c), v) = Append(t, h)
        BY ONLY <1>5, <2>1, StarterTakes
      <3> QED
        BY <3>1, <3>2
    <2>3. OpenSyllable(h) /\ Hangul(h) /\ Starter(h) /\ ~HangulL(h)
      <3>1. OpenSyllable(h)
        BY <1>10, <2>1, OpenSyllables
      <3> QED
        BY <3>1, HangulApart, Zenon DEF OpenSyllable, Hangul
    <2>4. ~HangulV(input[n]) /\ ~OpenSyllable(c)
      BY <1>5, <1>10, HangulApart, Zenon DEF OpenSyllable
    <2> HIDE DEF h
    <2>5. CASE Ahead(2, HangulT)
      <3> DEFINE g == h + f - TBase
      <3>1. n + 2 <= Len(o) /\ HangulT(f) /\ g \in Combine(h, f)
        BY <1>4, <2>3, <2>5, CombineFinal
      <3>2. u[n + 2] = Append(t, g)
        <4>1. u[n + 2] = ComposeWith(Append(t, h), f)
          BY <1>8, <2>2, <3>1
        <4> HIDE DEF t, f, g
        <4>2. ComposeWith(Append(t, h), f) = Append(t, g)
          BY ONLY <1>5, <2>3, <3>1, StarterTakes
        <4> QED
          BY <4>1, <4>2
      <3>3. Hangul(g) /\ ~OpenSyllable(g) /\ ~HangulL(g)
        <4>1. Syllable(g) /\ ~OpenSyllable(g)
          BY <2>3, <3>1, ClosedSyllables
        <4> QED
          BY <4>1, HangulApart, Zenon DEF Hangul
      <3> HIDE DEF g
      <3>4. Combine(g, o[n + 3]) = {}
        BY <3>3, TableApart, CombineNothing
      <3>5. WriteStarter(g, 3)
        <4>1. WriteStarter(SyllableOf(c, v) + f - TBase, 3)
          <5>1. input[n] = c /\ input[n + 1] = v /\ input[n + 2] = f
            BY <1>3, <1>5, <2>1, <3>1
          <5>2. HangulL(input[n]) /\ ~OpenSyllable(input[n])
            BY <1>5, <1>10, <2>4
          <5>3. WriteStarter(SyllableOf(input[n], input[n + 1]) + input[n + 2] - TBase, 3)
            BY <1>1, <1>10, <2>5, <5>2, Zenon
          <5> QED
            BY <5>1, <5>3, Zenon
        <4> QED
          BY <4>1 DEF g, h
      <3>6. u[n - 1 + 3] = Append(t, g) /\ n + 3 <= Len(o) + 1
        BY <1>2, <1>9, <3>1, <3>2
      <3> QED
        BY <1>1, <3>3, <3>4, <3>5, <3>6, HangulWritten
    <2>6. CASE ~Ahead(2, HangulT)
      <3>1. WriteStarter(h, 2)
        BY <1>1, <1>3, <1>5, <1>10, <2>1, <2>4, <2>6 DEF h
      <3>2. n + 2 <= Len(o) => Combine(h, f) = {}
        BY <1>4, <2>3, <2>6, TableApart, CombineNothing
      <3> QED
        BY <1>1, <1>2, <1>9, <2>1, <2>2, <2>3, <3>1, <3>2, HangulWritten, SMTT(60)
    <2> QED
      BY <2>5, <2>6
  <1>11. CASE OpenSyllable(c) /\ Ahead(1, HangulT)
    <2> DEFINE g == c + v - TBase
    <2>1. n + 1 <= Len(o) /\ HangulT(v) /\ Starter(c) /\ g \in Combine(c, v)
      BY <1>4, <1>11, CombineFinal, HangulApart, ZenonT(60) DEF OpenSyllable
    <2>2. u[n + 1] = Append(t, g)
      <3>1. u[n + 1] = ComposeWith(Append(t, c), v)
        BY <1>6, <1>7, <2>1
      <3> HIDE DEF t, c, v, g
      <3>2. ComposeWith(Append(t, c), v) = Append(t, g)
        BY ONLY <1>5, <2>1, StarterTakes
      <3> QED
        BY <3>1, <3>2
    <2>3. Hangul(g) /\ ~OpenSyllable(g) /\ ~HangulL(g)
      <3>1. Syllable(g) /\ ~OpenSyllable(g)
        BY <1>11, <2>1, ClosedSyllables
      <3> QED
        BY <3>1, HangulApart, Zenon DEF Hangul
    <2> HIDE DEF g
    <2>4. Combine(g, f) = {}
      BY <2>3, TableApart, CombineNothing
    <2>5. WriteStarter(g, 2)
      BY <1>1, <1>3, <1>5, <1>11, <2>1, HangulApart DEF OpenSyllable, g
    <2> QED
      BY <1>1, <1>2, <1>9, <2>1, <2>2, <2>3, <2>4, <2>5, HangulWritten, SMTT(60)
  <1>12. CASE Hangul(c) /\ ~(HangulL(c) /\ Ahead(1, HangulV)) /\ ~(OpenSyllable(c) /\ Ahead(1, HangulT))
    <2>1. n + 1 <= Len(o) => Combine(c, v) = {}
      BY <1>4, <1>12, TableApart, CombineNothing
    <2>2. WriteStarter(c, 1)
      BY <1>1, <1>5, <1>12
    <2> QED
      BY <1>1, <1>2, <1>6, <1>9, <1>12, <2>1, <2>2, HangulWritten
  <1> QED
    BY <1>1, <1>5, <1>10, <1>11, <1>12

LEMMA BeginFolds ==
  ASSUME IInv, NEW o, NEW u, ComposesTo(o, u), BeginMarks
  PROVE  ComposesTo(o, u)'
  <1> DEFINE n == input_count
             k == composition_count
             t == u[n - 1]
             c == o[n]
             w == u[n]
  <1>1. /\ pc = "compose" /\ pc' = "marks" /\ source' = source /\ n <= Len(input)
        /\ ~Hangul(input[n]) /\ input' = [input EXCEPT ![k] = input[n]]
        /\ initial_composition_count' = k /\ previous_ccc' = -1 /\ row' = input[n]
        /\ n' = n /\ k' = k
    BY DEF BeginMarks, decomposeVars
  <1>2. /\ IsString(input) /\ Len(input) = Len(o) /\ Len(o) \in Nat /\ n \in Nat
        /\ k \in 1 .. n /\ k \in Nat /\ k <= n /\ k \in 1 .. Len(input) /\ n \in 1 .. Len(o)
        /\ get_ccc(c) \in Nat
    <2>1. /\ IsString(input) /\ Len(input) = Len(o) /\ Len(o) \in Nat /\ n \in Nat
          /\ k \in 1 .. n /\ \A j \in 1 .. Len(o) : get_ccc(o[j]) \in Nat
      BY <1>1, InCompose
    <2> QED
      BY <1>1, <2>1
  <1>3. /\ Holds(t, input, k - 1) /\ input[n] = c /\ ComposeWith(t, c) = Append(t, c)
        /\ ~Starter(c) => t = <<>> \/ Hangul(t[Len(t)])
    BY <1>1, <1>2 DEF ComposesTo, Between
  <1>4. w = Append(t, c)
    <2>1. \A j \in 1 .. Len(o) : u[j] = ComposeWith(u[j - 1], o[j])
      BY DEF ComposesTo, Folds
    <2> QED
      BY <1>2, <1>3, <2>1
  <1> HIDE DEF t, c, w
  <1>5. Holds(w, input', k)
    BY <1>1, <1>2, <1>3, <1>4, AppendHolds
  <1>6. /\ IsString(t) /\ Len(t) = k - 1 /\ IsString(w) /\ Len(w) = k /\ w[k] = c
        /\ \A j \in 1 .. k - 1 : w[j] = t[j]
    <2>1. IsString(t) /\ Len(t) = k - 1 /\ k - 1 + 1 = k
      BY <1>2, <1>3 DEF Holds
    <2> QED
      BY <1>4, <2>1, AppendIs
  <1>7. ASSUME Starter(c)
        PROVE  AmongMarks(o, u)'
    <2>1. LastStarter(w, k)
      BY <1>2, <1>6, <1>7 DEF LastStarter
    <2>2. Base' = k
      BY <1>1, <1>3, <1>7 DEF Base
    <2>3. /\ Holds(w, input', composition_count') /\ LastStarter(w, Base') /\ w[Base'] = row'
          /\ ~Hangul(row') /\ previous_ccc' = -1 /\ Base' = Len(w) /\ Starter(row')
      BY <1>1, <1>3, <1>5, <1>6, <1>7, <2>1, <2>2
    <2>4. w = u[input_count']
      BY <1>1 DEF w
    <2> QED
      BY ONLY <2>3, <2>4, Zenon DEF AmongMarks
  <1>8. ASSUME ~Starter(c)
        PROVE  AmongMarks(o, u)'
    <2>1. Base' = k - 1
      BY <1>1, <1>3, <1>8 DEF Base
    <2>2. k - 1 # 0 => Hangul(w[k - 1])
      BY <1>2, <1>3, <1>6, <1>8
    <2>3. LastStarter(w, k - 1)
      <3>1. k - 1 # 0 => Starter(w[k - 1])
        BY <2>2, HangulApart, Zenon DEF Hangul
      <3>2. \A j \in k - 1 + 1 .. Len(w) : j = k
        BY <1>2, <1>6
      <3> QED
        BY <1>2, <1>6, <1>8, <3>1, <3>2 DEF LastStarter
    <2>4. /\ Holds(w, input', composition_count') /\ LastStarter(w, Base') /\ ~Starter(row')
          /\ Base' = 0 \/ Hangul(w[Base'])
      BY <1>1, <1>3, <1>5, <1>6, <1>8, <2>1, <2>2, <2>3
    <2>5. w = u[input_count']
      BY <1>1 DEF w
    <2> QED
      BY ONLY <2>4, <2>5, Zenon DEF AmongMarks
  <1>9. Len(input') = Len(input) /\ \A j \in n + 1 .. Len(o) : input'[j] = o[j]
    <2> DEFINE m == n + 1
    <2>1. m \in Nat /\ m > n
      BY <1>2
    <2> HIDE DEF m
    <2>2. Len(input') = Len(input) /\ \A j \in m .. Len(o) : input'[j] = o[j]
      BY <1>1, <1>2, <2>1, AheadStays
    <2> QED
      BY <2>2 DEF m
  <1> QED
    BY <1>1, <1>7, <1>8, <1>9 DEF ComposesTo

\* What is known of the mark, or starter, that is next.
LEMMA InMarks ==
  ASSUME IInv, NEW o, NEW u, ComposesTo(o, u), pc = "marks",
         NEW t, t = u[input_count]
  PROVE  /\ IsString(t) /\ Len(t) = composition_count
         /\ \A j \in 1 .. Len(t) : get_ccc(t[j]) \in Nat
         /\ Holds(t, input, composition_count) /\ LastStarter(t, Base) /\ Base \in Nat
         /\ initial_composition_count \in 1 .. Len(t)
         /\ Starter(row) =>
              /\ Base = initial_composition_count /\ t[Base] = row /\ ~Hangul(row)
              /\ previous_ccc = IF Base = Len(t) THEN -1 ELSE get_ccc(t[Len(t)])
         /\ ~Starter(row) => Base < Len(t) /\ (Base = 0 \/ Hangul(t[Base]))
         /\ input_count + 1 <= Len(o) =>
              /\ input[input_count + 1] = o[input_count + 1]
              /\ get_ccc(o[input_count + 1]) \in Nat
              /\ u[input_count + 1] = ComposeWith(t, o[input_count + 1])
  <1> DEFINE n == input_count
             k == composition_count
             m == n + 1
  <1>1. AmongMarks(o, u)
    BY DEF ComposesTo
  <1>2. /\ Len(o) \in Nat /\ n \in Nat
        /\ k \in 1 .. n /\ n \in 1 .. Len(o) /\ initial_composition_count \in 1 .. k
        /\ \A j \in 1 .. Len(o) : get_ccc(o[j]) \in Nat
        /\ \A j \in m .. Len(o) : input[j] = o[j]
        /\ \A j \in 1 .. Len(o) : u[j] = ComposeWith(u[j - 1], o[j])
    BY InCompose
  <1>3. m <= Len(o) => m \in m .. Len(o) /\ m \in 1 .. Len(o) /\ m - 1 = n
    BY <1>2
  <1>4. m <= Len(o) =>
          input[m] = o[m] /\ get_ccc(o[m]) \in Nat /\ u[m] = ComposeWith(t, o[m])
    BY <1>2, <1>3
  <1>5. Holds(t, input, k) /\ IsString(t) /\ Len(t) = k /\ \A j \in 1 .. Len(t) : get_ccc(t[j]) \in Nat
    BY <1>1 DEF AmongMarks, Holds, Classed
  <1>6. /\ Base \in Nat
        /\ Starter(row) => Base = initial_composition_count
        /\ ~Starter(row) => Base < Len(t)
    BY <1>2, <1>5 DEF Base
  <1>7. /\ LastStarter(t, Base)
        /\ Starter(row) =>
             /\ t[Base] = row /\ ~Hangul(row)
             /\ previous_ccc = IF Base = Len(t) THEN -1 ELSE get_ccc(t[Len(t)])
        /\ ~Starter(row) => Base = 0 \/ Hangul(t[Base])
    BY <1>1, Zenon DEF AmongMarks
  <1> HIDE DEF m, n, k
  <1>8. initial_composition_count \in 1 .. Len(t)
    BY <1>2, <1>5
  <1> QED
    BY <1>4, <1>5, <1>6, <1>7, <1>8 DEF m, n, k

\* What compose() does not compose, composing one by one does not either.
LEMMA NotComposed ==
  ASSUME IInv, NEW o, NEW u, ComposesTo(o, u), pc = "marks", ~ComposesNext,
         NEW t, t = u[input_count], input_count + 1 <= Len(o)
  PROVE  u[input_count + 1] = Append(t, o[input_count + 1])
  <1> DEFINE c == o[input_count + 1]
             last == t[Len(t)]
             b == Base
  <1>1. /\ IsString(t) /\ Len(t) \in Nat /\ get_ccc(last) \in Nat
        /\ LastStarter(t, b) /\ b \in Nat
        /\ Starter(row) =>
             /\ t[b] = row /\ ~Hangul(row)
             /\ previous_ccc = IF b = Len(t) THEN -1 ELSE get_ccc(last)
        /\ ~Starter(row) => b < Len(t) /\ (b = 0 \/ Hangul(t[b]))
        /\ input[input_count + 1] = c /\ get_ccc(c) \in Nat
        /\ u[input_count + 1] = ComposeWith(t, c)
    <2>1. /\ IsString(t) /\ \A j \in 1 .. Len(t) : get_ccc(t[j]) \in Nat
          /\ initial_composition_count \in 1 .. Len(t)
          /\ LastStarter(t, b) /\ b \in Nat
          /\ Starter(row) =>
               /\ t[b] = row /\ ~Hangul(row)
               /\ previous_ccc = IF b = Len(t) THEN -1 ELSE get_ccc(last)
          /\ ~Starter(row) => b < Len(t) /\ (b = 0 \/ Hangul(t[b]))
          /\ input[input_count + 1] = c /\ get_ccc(c) \in Nat
          /\ u[input_count + 1] = ComposeWith(t, c)
      BY InMarks, SMTT(60)
    <2>2. Len(t) \in Nat /\ Len(t) \in 1 .. Len(t)
      BY <2>1, StringIsMap
    <2> QED
      BY <2>1, <2>2
  <1>2. ~Composes(row, c) \/ ~(previous_ccc < get_ccc(c))
    <2>1. Len(input) = Len(o)
      BY InCompose
    <2> QED
      BY <1>1, <2>1 DEF ComposesNext, Ahead
  <1> HIDE DEF c, last, b
  <1>3. b # 0 => b \in 1 .. Len(t)
    BY <1>1 DEF LastStarter
  <1>4. b = 0 \/ Combine(t[b], c) = {} \/ Blocked(t, b, c)
    <2>1. CASE Starter(row)
      <3>1. CASE ~Composes(row, c)
        <4>1. ~HangulL(row) /\ ~OpenSyllable(row)
          BY <1>1, <2>1 DEF Hangul, OpenSyllable
        <4> QED
          BY <1>1, <2>1, <3>1, <4>1, CombineNothing
      <3>2. CASE ~(previous_ccc < get_ccc(c))
        <4>1. b # Len(t) /\ get_ccc(last) >= get_ccc(c)
          BY <1>1, <2>1, <3>2
        <4> QED
          BY <1>1, <1>3, <4>1 DEF Blocked, last
      <3> QED
        BY <1>2, <3>1, <3>2
    <2>2. CASE ~Starter(row) /\ b # 0 /\ ~Starter(c)
      <3>1. ~HangulV(c) /\ ~HangulT(c) /\ ~Composes(t[b], c)
        BY <1>1, <2>2, HangulApart, TableApart
      <3> QED
        BY <3>1, CombineNothing
    <2>3. CASE ~Starter(row) /\ Starter(c)
      <3>1. get_ccc(last) >= get_ccc(c) /\ b < Len(t)
        BY <1>1, <2>3 DEF Starter
      <3> QED
        BY <3>1 DEF Blocked, last
    <2> QED
      BY <2>1, <2>2, <2>3
  <1>5. ComposeWith(t, c) = Append(t, c)
    BY <1>1, <1>4, Appends
  <1> QED
    BY <1>1, <1>5 DEF c

LEMMA ComposeMarkFolds ==
  ASSUME IInv, NEW o, NEW u, ComposesTo(o, u), ComposeMark
  PROVE  ComposesTo(o, u)'
  <1> DEFINE n == input_count
             k == composition_count
             t == u[n]
             b == Base
             c == o[n + 1]
             d == Composition[<<row, c>>]
             w == u[n + 1]
  <1>1. /\ pc = "marks" /\ pc' = pc /\ source' = source /\ ComposesNext
        /\ input' = [input EXCEPT ![initial_composition_count] = Composition[<<row, input[n + 1]>>]]
        /\ row' = Composition[<<row, input[n + 1]>>]
        /\ n' = n + 1 /\ k' = k /\ previous_ccc' = previous_ccc
        /\ initial_composition_count' = initial_composition_count
    BY DEF ComposeMark
  <1>2. /\ IsString(input) /\ Len(input) = Len(o) /\ Len(o) \in Nat /\ n \in Nat
        /\ k \in 1 .. n /\ k \in Nat /\ k <= n /\ k <= Len(input)
    <2>1. /\ IsString(input) /\ Len(input) = Len(o) /\ Len(o) \in Nat /\ n \in Nat
          /\ k \in 1 .. n /\ n \in 1 .. Len(o)
      BY <1>1, InCompose
    <2> QED
      BY <2>1
  <1>3. n + 1 <= Len(o) /\ input[n + 1] = c /\ Composes(row, c) /\ previous_ccc < get_ccc(c)
    <2>1. n + 1 <= Len(o) /\ Composes(row, input[n + 1]) /\ previous_ccc < get_ccc(input[n + 1])
      BY <1>1, <1>2 DEF ComposesNext, Ahead
    <2>2. input[n + 1] = c
      BY <1>1, <2>1, InMarks
    <2> QED
      BY <2>1, <2>2
  <1>4. Starter(row) /\ Starter(d) /\ ~Hangul(d) /\ d \in Combine(row, c)
    BY <1>3, TableApart, CombineTable
  <1>5. /\ IsString(t) /\ Len(t) = k /\ Holds(t, input, k) /\ LastStarter(t, b) /\ b \in Nat
        /\ b = initial_composition_count /\ b \in 1 .. k /\ t[b] = row
        /\ previous_ccc = IF b = Len(t) THEN -1 ELSE get_ccc(t[Len(t)])
        /\ get_ccc(c) \in Nat /\ w = ComposeWith(t, c)
    <2>1. /\ IsString(t) /\ Len(t) = k /\ Holds(t, input, k) /\ LastStarter(t, b) /\ b \in Nat
          /\ initial_composition_count \in 1 .. Len(t)
          /\ Starter(row) =>
               /\ b = initial_composition_count /\ t[b] = row /\ ~Hangul(row)
               /\ previous_ccc = IF b = Len(t) THEN -1 ELSE get_ccc(t[Len(t)])
          /\ n + 1 <= Len(o) =>
               /\ input[n + 1] = c /\ get_ccc(c) \in Nat /\ w = ComposeWith(t, c)
      BY <1>1, InMarks
    <2> QED
      BY <1>3, <1>4, <2>1
  <1>6. ~Blocked(t, b, c) /\ b # 0
    <2>1. get_ccc(t[Len(t)]) \in Nat
      BY <1>2, <1>5 DEF Holds, Classed
    <2> HIDE DEF b, t, c
    <2> QED
      BY <1>2, <1>3, <1>5, <2>1 DEF Blocked
  <1> HIDE DEF t, b, c, d, w
  <1>7. w = [t EXCEPT ![b] = d]
    <2>1. /\ d \in Combine(t[b], c) /\ IsString(t) /\ b \in Nat /\ LastStarter(t, b)
          /\ b # 0 /\ ~Blocked(t, b, c) /\ w = ComposeWith(t, c)
      BY <1>4, <1>5, <1>6
    <2>2. ComposeWith(t, c) = [t EXCEPT ![b] = d]
      BY ONLY <2>1, Replaces
    <2> QED
      BY <2>1, <2>2
  <1>8. get_ccc(d) \in Nat
    BY <1>4 DEF Starter
  <1>9. input' = [input EXCEPT ![b] = d] /\ row' = d
    BY <1>1, <1>3, <1>5 DEF d
  <1>10. Holds(w, input', k)
    <2>1. Holds([t EXCEPT ![b] = d], [input EXCEPT ![b] = d], k)
      BY <1>2, <1>5, <1>8, ReplaceHolds
    <2> QED
      BY <1>7, <1>9, <2>1
  <1>11. Len(w) = k /\ w[b] = d /\ \A j \in 1 .. k : j # b => w[j] = t[j]
    <2>1. /\ Len(w) = Len(t)
          /\ \A j \in 1 .. Len(t) : w[j] = IF j = b THEN d ELSE t[j]
      BY <1>5, <1>7, ExceptIsString
    <2> QED
      BY <1>5, <2>1
  <1>12. LastStarter(w, b)
    BY <1>2, <1>4, <1>5, <1>11 DEF LastStarter
  <1>13. b' = b
    BY <1>1, <1>4, <1>5, <1>9 DEF Base, b
  <1>14. AmongMarks(o, u)'
    <2>1. previous_ccc = IF b = Len(w) THEN -1 ELSE get_ccc(w[Len(w)])
      <3>1. b # k => w[k] = t[k]
        BY <1>2, <1>11
      <3> QED
        BY <1>5, <1>11, <3>1
    <2>2. /\ Holds(w, input', composition_count') /\ LastStarter(w, Base') /\ w[Base'] = row'
          /\ ~Hangul(row') /\ Starter(row')
          /\ previous_ccc' = IF Base' = Len(w) THEN -1 ELSE get_ccc(w[Len(w)])
      BY <1>1, <1>4, <1>9, <1>10, <1>11, <1>12, <1>13, <2>1 DEF b
    <2>3. w = u[input_count']
      BY <1>1 DEF w
    <2> QED
      BY ONLY <2>2, <2>3, Zenon DEF AmongMarks
  <1>15. Len(input') = Len(input) /\ \A j \in n + 1 + 1 .. Len(o) : input'[j] = o[j]
    <2> DEFINE m == n + 1 + 1
    <2>1. m \in Nat /\ m > n /\ b <= n /\ b \in Nat /\ pc \in {"compose", "marks"}
      BY <1>1, <1>2, <1>5
    <2> HIDE DEF m
    <2>2. Len(input') = Len(input) /\ \A j \in m .. Len(o) : input'[j] = o[j]
      BY ONLY IInv, ComposesTo(o, u), <1>9, <2>1, AheadStays
    <2> QED
      BY <2>2 DEF m
  <1> QED
    BY <1>1, <1>14, <1>15 DEF ComposesTo

LEMMA KeepMarkFolds ==
  ASSUME IInv, NEW o, NEW u, ComposesTo(o, u), KeepMark
  PROVE  ComposesTo(o, u)'
  <1> DEFINE n == input_count
             k == composition_count
             t == u[n]
             b == Base
             c == o[n + 1]
             w == u[n + 1]
  <1>1. /\ pc = "marks" /\ pc' = pc /\ source' = source /\ ~ComposesNext
        /\ n + 1 <= Len(input) /\ ~Starter(input[n + 1])
        /\ input' = [input EXCEPT ![k + 1] = input[n + 1]]
        /\ row' = row /\ previous_ccc' = get_ccc(input[n + 1])
        /\ n' = n + 1 /\ k' = k + 1
        /\ initial_composition_count' = initial_composition_count
    BY DEF KeepMark, Ahead
  <1>2. /\ IsString(input) /\ Len(input) = Len(o) /\ Len(o) \in Nat /\ n \in Nat
        /\ k \in 1 .. n /\ k \in Nat /\ n + 1 <= Len(o) /\ k + 1 \in 1 .. Len(input)
        /\ k + 1 - 1 = k
    <2>1. /\ IsString(input) /\ Len(input) = Len(o) /\ Len(o) \in Nat /\ n \in Nat
          /\ k \in 1 .. n /\ n \in 1 .. Len(o)
      BY <1>1, InCompose
    <2> QED
      BY <1>1, <2>1
  <1>3. /\ IsString(t) /\ Len(t) = k /\ Holds(t, input, k) /\ LastStarter(t, b) /\ b \in Nat
        /\ Starter(row) => t[b] = row /\ ~Hangul(row)
        /\ ~Starter(row) => (b = 0 \/ Hangul(t[b]))
        /\ input[n + 1] = c /\ get_ccc(c) \in Nat /\ ~Starter(c)
    <2>1. /\ IsString(t) /\ Len(t) = k /\ Holds(t, input, k) /\ LastStarter(t, b) /\ b \in Nat
          /\ Starter(row) => t[b] = row /\ ~Hangul(row)
          /\ ~Starter(row) => (b = 0 \/ Hangul(t[b]))
          /\ n + 1 <= Len(o) => input[n + 1] = c /\ get_ccc(c) \in Nat
      BY <1>1, InMarks
    <2> QED
      BY <1>1, <1>2, <2>1
  <1>4. w = Append(t, c)
    BY <1>1, <1>2, NotComposed
  <1> HIDE DEF t, b, c, w
  <1>5. Holds(w, input', k + 1)
    <2> DEFINE l == k + 1
    <2>1. l \in 1 .. Len(input) /\ Holds(t, input, l - 1)
      BY <1>2, <1>3
    <2> HIDE DEF l
    <2>2. Holds(Append(t, c), [input EXCEPT ![l] = c], l)
      BY <1>2, <1>3, <2>1, AppendHolds
    <2> QED
      BY <1>1, <1>3, <1>4, <2>2 DEF l
  <1>6. Len(w) = k + 1 /\ w[k + 1] = c /\ \A j \in 1 .. k : w[j] = t[j]
    BY <1>3, <1>4, AppendIs
  <1>7. b # 0 => b \in 1 .. k /\ w[b] = t[b]
    BY <1>3, <1>6 DEF LastStarter
  <1>8. LastStarter(w, b)
    <2>1. \A j \in b + 1 .. k + 1 : j = k + 1 \/ (j \in b + 1 .. k /\ j \in 1 .. k)
      BY <1>2, <1>3
    <2> QED
      BY <1>2, <1>3, <1>6, <1>7, <2>1 DEF LastStarter
  <1>9. b' = b
    BY <1>1 DEF Base, b
  <1>10. AmongMarks(o, u)'
    <2>1. b # Len(w)
      BY <1>2, <1>3, <1>6, <1>7
    <2>2. Starter(row) => b # 0
      BY <1>2, <1>1, InMarks DEF b
    <2>3. /\ Holds(w, input', composition_count') /\ LastStarter(w, Base')
          /\ Starter(row') => w[Base'] = row' /\ ~Hangul(row')
          /\ ~Starter(row') => Base' = 0 \/ Hangul(w[Base'])
          /\ previous_ccc' = IF Base' = Len(w) THEN -1 ELSE get_ccc(w[Len(w)])
      BY <1>1, <1>3, <1>5, <1>6, <1>7, <1>8, <1>9, <2>1, <2>2 DEF b
    <2>4. w = u[input_count']
      BY <1>1 DEF w
    <2> QED
      BY ONLY <2>3, <2>4, Zenon DEF AmongMarks
  <1>11. Len(input') = Len(input) /\ \A j \in n + 1 + 1 .. Len(o) : input'[j] = o[j]
    <2>1. IsString(input') /\ Len(input') = Len(input)
          /\ \A j \in 1 .. Len(input) : j # k + 1 => input'[j] = input[j]
      <3> DEFINE l == k + 1
                 e == input[n + 1]
      <3>1. input' = [input EXCEPT ![l] = e] /\ IsString(input)
        BY <1>1, <1>2
      <3> HIDE DEF l, e
      <3>2. IsString(input') /\ Len(input') = Len(input)
            /\ \A j \in 1 .. Len(input) : j # l => input'[j] = input[j]
        BY ONLY <3>1, ExceptIsString
      <3> QED
        BY <3>2 DEF l
    <2>2. \A j \in n + 1 .. Len(o) : input[j] = o[j]
      BY DEF ComposesTo
    <2>3. \A j \in n + 1 + 1 .. Len(o) : j \in 1 .. Len(input) /\ j # k + 1 /\ j \in n + 1 .. Len(o)
      BY <1>2
    <2> QED
      BY <2>1, <2>2, <2>3
  <1> QED
    BY <1>1, <1>10, <1>11 DEF ComposesTo

LEMMA EndFolds ==
  ASSUME IInv, NEW o, NEW u, ComposesTo(o, u), EndMarks
  PROVE  ComposesTo(o, u)'
  <1> DEFINE n == input_count
             k == composition_count
             t == u[n]
             c == o[n + 1]
  <1>1. /\ pc = "marks" /\ pc' = "compose" /\ source' = source /\ input' = input /\ ~ComposesNext
        /\ n + 1 <= Len(input) => Starter(input[n + 1])
        /\ n' = n + 1 /\ k' = k + 1
    BY DEF EndMarks, Ahead
  <1>2. /\ Len(input) = Len(o) /\ Len(o) \in Nat /\ n \in Nat /\ k \in Nat /\ n \in 0 .. Len(o)
        /\ n + 1 - 1 = n /\ k + 1 - 1 = k
        /\ \A j \in n + 1 + 1 .. Len(o) : j \in n + 1 .. Len(o)
    <2>1. /\ Len(input) = Len(o) /\ Len(o) \in Nat /\ n \in Nat
          /\ k \in 1 .. n /\ n \in 1 .. Len(o)
      BY <1>1, InCompose
    <2> QED
      BY <2>1
  <1>3. /\ Holds(t, input, k)
        /\ n + 1 <= Len(o) => input[n + 1] = c /\ u[n + 1] = ComposeWith(t, c)
    BY <1>1, InMarks
  <1>4. n + 1 <= Len(o) => u[n + 1] = Append(t, c)
    BY <1>1, NotComposed
  <1> HIDE DEF t, c
  <1>5. Between(o, u)'
    <2> DEFINE m == n + 1
               l == k + 1
    <2>1. /\ m - 1 \in 0 .. Len(o) /\ Holds(t, input, l - 1) /\ t = u[m - 1]
          /\ m <= Len(o) => /\ input[m] = o[m] /\ ComposeWith(t, o[m]) = Append(t, o[m])
                            /\ Starter(o[m])
      BY <1>1, <1>2, <1>3, <1>4, SMTT(60) DEF t, c
    <2>2. input_count' = m /\ composition_count' = l /\ input' = input
      BY <1>1
    <2> HIDE DEF m, l
    <2> QED
      BY ONLY <2>1, <2>2, Zenon DEF Between
  <1>6. \A j \in n + 1 .. Len(o) : input[j] = o[j]
    BY DEF ComposesTo
  <1> QED
    BY <1>1, <1>2, <1>5, <1>6 DEF ComposesTo

LEMMA FinishNormal ==
  ASSUME IInv, NEW o, NEW u, ComposesTo(o, u), Finish
  PROVE  input' = Nfc(source)
  <1> DEFINE n == input_count
             k == composition_count
             t == u[n - 1]
  <1>1. pc = "compose" /\ n > Len(input) /\ input' = SubSeq(input, 1, k - 1)
    BY DEF Finish
  <1>2. /\ Len(input) = Len(o) /\ Len(o) \in Nat /\ n \in Nat /\ k \in 1 .. n /\ IsString(input)
    BY <1>1, InCompose
  <1>3. n - 1 \in 0 .. Len(o) /\ Holds(t, input, k - 1)
    BY <1>1 DEF ComposesTo, Between
  <1>4. t = Nfc(source)
    <2>1. n - 1 = Len(o)
      BY <1>1, <1>2, <1>3
    <2> QED
      BY <2>1 DEF ComposesTo, Nfc
  <1> HIDE DEF t
  <1>5. /\ k - 1 \in Nat /\ k - 1 <= Len(input)
    BY <1>1, <1>2, <1>3
  <1>6. input' = [j \in 1 .. k - 1 |-> input[j]]
    <2> DEFINE l == k - 1
    <2> HIDE DEF l
    <2>1. l \in Nat /\ l <= Len(input) /\ input \in Seq(ToSet(input))
      BY <1>2, <1>5 DEF l, IsString
    <2>2. SubSeq(input, 1, l) = [j \in 1 .. l |-> input[j]]
      BY ONLY <2>1
    <2> QED
      BY <1>1, <2>2 DEF l
  <1>7. t = [j \in 1 .. k - 1 |-> input[j]]
    <2>1. t = [j \in 1 .. k - 1 |-> t[j]] /\ \A j \in 1 .. k - 1 : input[j] = t[j]
      BY <1>3, StringIsMap DEF Holds
    <2> QED
      BY <2>1
  <1> QED
    BY <1>4, <1>6, <1>7

-----------------------------------------------------------------------------
(* Composing is what the shortcut of is_already_nfc() leaves out.          *)

LEMMA LastStarterExists ==
  ASSUME NEW t, Len(t) \in Nat
  PROVE  \E i \in Nat : LastStarter(t, i) /\ i <= Len(t)
  <1> DEFINE Bad == {k \in 0 .. Len(t) : \A j \in k + 1 .. Len(t) : ~Starter(t[j])}
  <1>1. PICK i \in Bad : \A k \in Bad : i <= k
    <2>1. Bad \in SUBSET Nat
      <3>1. \A b \in Bad : b \in 0 .. Len(t)
        OBVIOUS
      <3> HIDE DEF Bad
      <3> QED
        BY <3>1
    <2>2. Len(t) \in Bad
      OBVIOUS
    <2> HIDE DEF Bad
    <2> QED
      BY <2>1, <2>2, LeastOf
  <1>2. i \in 0 .. Len(t) /\ \A j \in i + 1 .. Len(t) : ~Starter(t[j])
    OBVIOUS
  <1>3. i # 0 => Starter(t[i])
    <2> SUFFICES ASSUME i # 0, ~Starter(t[i])
                 PROVE  FALSE
      OBVIOUS
    <2>1. i - 1 \in 0 .. Len(t) /\ ~(i <= i - 1)
      BY <1>2
    <2>2. \A j \in i - 1 + 1 .. Len(t) : j = i \/ j \in i + 1 .. Len(t)
      BY <1>2
    <2>3. i - 1 \in Bad
      BY <1>2, <2>1, <2>2
    <2> HIDE DEF Bad
    <2> QED
      BY <1>1, <2>1, <2>3
  <1> QED
    BY <1>2, <1>3 DEF LastStarter

\* x is t with v behind it.
Joins(x, t, v) ==
  /\ IsString(x) /\ Len(x) = Len(t) + Len(v)
  /\ \A j \in 1 .. Len(t) : x[j] = t[j]
  /\ \A j \in 1 .. Len(v) : x[Len(t) + j] = v[j]

\* Behind a starter, composing does not depend on what is ahead of it.
LEMMA StarterShields ==
  ASSUME NEW t, IsString(t), NEW v, IsString(v), Len(v) >= 1, Starter(v[1]),
         NEW x, Joins(x, t, v), NEW c
  PROVE  /\ Joins(ComposeWith(x, c), t, ComposeWith(v, c))
         /\ IsString(ComposeWith(v, c)) /\ Len(ComposeWith(v, c)) >= 1
         /\ Starter(ComposeWith(v, c)[1])
  <1> DEFINE N == Len(t)
             M == Len(v)
             y == ComposeWith(v, c)
             z == ComposeWith(x, c)
  <1>1. /\ N \in Nat /\ M \in Nat /\ IsString(x) /\ Len(x) = N + M /\ Len(x) \in Nat
        /\ \A j \in 1 .. N : x[j] = t[j] /\ j \in 1 .. N + M /\ \A k \in 1 .. M : j # N + k
        /\ \A j \in 1 .. M : x[N + j] = v[j] /\ N + j \in 1 .. N + M
    BY StringIsMap DEF Joins
  <1>2. PICK i \in Nat : LastStarter(v, i) /\ i <= M
    BY <1>1, LastStarterExists
  <1>3. i \in 1 .. M /\ Starter(v[i]) /\ \A j \in i + 1 .. M : ~Starter(v[j])
    <2>1. i # 0
      <3>1. i = 0 => 1 \in i + 1 .. M
        BY <1>1
      <3> QED
        BY <1>2, <3>1 DEF LastStarter
    <2> QED
      BY <1>2, <2>1 DEF LastStarter
  <1> DEFINE k == N + i
  <1>4. /\ k \in Nat /\ k # 0 /\ k \in 1 .. Len(x) /\ x[k] = v[i]
        /\ \A j \in k + 1 .. Len(x) : j - N \in i + 1 .. M /\ j - N \in 1 .. M /\ N + (j - N) = j
        /\ k < Len(x) <=> i < M
        /\ M \in 1 .. M /\ x[Len(x)] = v[M]
    BY <1>1, <1>3, SMTT(60)
  <1>5. LastStarter(x, k)
    <2>1. \A j \in k + 1 .. Len(x) : x[j] = v[j - N]
      BY <1>1, <1>4
    <2> QED
      BY <1>3, <1>4, <2>1 DEF LastStarter
  <1>6. Blocked(x, k, c) <=> Blocked(v, i, c)
    BY <1>4 DEF Blocked
  <1> HIDE DEF N, M, k
  <1>7. CASE Combine(v[i], c) = {} \/ Blocked(v, i, c)
    <2>1. y = Append(v, c)
      BY <1>2, <1>7, Appends
    <2>2. z = Append(x, c)
      <3>1. Combine(x[k], c) = {} \/ Blocked(x, k, c)
        BY <1>4, <1>6, <1>7
      <3> QED
        BY <1>1, <1>4, <1>5, <3>1, Appends
    <2>3. /\ IsString(y) /\ Len(y) = M + 1 /\ y[M + 1] = c /\ \A j \in 1 .. M : y[j] = v[j]
      BY <2>1, AppendIs DEF M
    <2>4. /\ IsString(z) /\ Len(z) = N + M + 1 /\ z[N + M + 1] = c
          /\ \A j \in 1 .. N + M : z[j] = x[j]
      BY <1>1, <2>2, AppendIs
    <2> HIDE DEF y, z
    <2>5. /\ \A j \in 1 .. N : z[j] = t[j]
          /\ \A j \in 1 .. M + 1 : z[N + j] = y[j]
      <3>1. \A j \in 1 .. M + 1 : j \in 1 .. M \/ (j = M + 1 /\ N + j = N + M + 1)
        BY <1>1
      <3> QED
        BY <1>1, <2>3, <2>4, <3>1
    <2>6. Len(z) = N + Len(y) /\ 1 \in 1 .. M
      BY <1>1, <1>3, <2>3, <2>4
    <2>7. Joins(z, t, y) /\ Len(y) >= 1 /\ y[1] = v[1]
      BY <1>1, <2>3, <2>4, <2>5, <2>6 DEF Joins, N
    <2> QED
      BY <2>3, <2>7 DEF y, z
  <1>8. CASE ~(Combine(v[i], c) = {} \/ Blocked(v, i, c))
    <2>1. PICK d \in Combine(v[i], c) : TRUE
      BY <1>8
    <2>2. y = [v EXCEPT ![i] = d]
      <3>1. /\ i \in Nat /\ i # 0 /\ LastStarter(v, i) /\ ~Blocked(v, i, c)
            /\ IsString(v) /\ d \in Combine(v[i], c)
        BY <1>2, <1>3, <1>8, <2>1
      <3> HIDE DEF y
      <3>2. ComposeWith(v, c) = [v EXCEPT ![i] = d]
        BY ONLY <3>1, Replaces
      <3> QED
        BY <3>2 DEF y
    <2>3. z = [x EXCEPT ![k] = d]
      <3>1. /\ d \in Combine(x[k], c) /\ ~Blocked(x, k, c) /\ IsString(x)
            /\ k \in Nat /\ k # 0 /\ LastStarter(x, k)
        BY <1>1, <1>4, <1>5, <1>6, <1>8, <2>1
      <3> HIDE DEF z
      <3>2. ComposeWith(x, c) = [x EXCEPT ![k] = d]
        BY ONLY <3>1, Replaces
      <3> QED
        BY <3>2 DEF z
    <2> HIDE DEF y, z
    <2>4. IsString(y) /\ Len(y) = M /\ \A j \in 1 .. M : y[j] = IF j = i THEN d ELSE v[j]
      <3>1. LET e == [v EXCEPT ![i] = d]
            IN  IsString(e) /\ Len(e) = M /\ \A j \in 1 .. M : e[j] = IF j = i THEN d ELSE v[j]
        BY ExceptIsString DEF M
      <3> QED
        BY <2>2, <3>1
    <2>5. /\ IsString(z) /\ Len(z) = N + M
          /\ \A j \in 1 .. N + M : z[j] = IF j = k THEN d ELSE x[j]
      <3>1. LET e == [x EXCEPT ![k] = d]
            IN  /\ IsString(e) /\ Len(e) = Len(x)
                /\ \A j \in 1 .. Len(x) : e[j] = IF j = k THEN d ELSE x[j]
        <4>1. IsString(x)
          BY <1>1
        <4> QED
          BY ONLY <4>1, ExceptIsString
      <3> QED
        BY <1>1, <2>3, <3>1
    <2>6. Starter(d)
      BY <2>1, CombinesStarters
    <2>7. /\ \A j \in 1 .. N : z[j] = t[j]
          /\ \A j \in 1 .. M : z[N + j] = y[j]
      <3>1. /\ \A j \in 1 .. N : j # k
            /\ \A j \in 1 .. M : N + j = k <=> j = i
        BY <1>1, <1>3 DEF k
      <3> QED
        BY <1>1, <2>4, <2>5, <3>1, ZenonT(60)
    <2>8. Len(z) = N + Len(y) /\ 1 \in 1 .. M
      BY <1>1, <1>3, <2>4, <2>5
    <2>9. Joins(z, t, y) /\ Len(y) >= 1 /\ Starter(y[1])
      BY <1>1, <2>4, <2>5, <2>6, <2>7, <2>8, SMTT(60) DEF Joins, N
    <2> QED
      BY <2>4, <2>9 DEF y, z
  <1> QED
    BY <1>7, <1>8

LEMMA NeverShorter ==
  ASSUME NEW t, IsString(t), NEW c
  PROVE  IsString(ComposeWith(t, c)) /\ Len(ComposeWith(t, c)) >= Len(t)
  <1>1. Len(t) \in Nat
    BY StringIsMap
  <1>2. PICK i \in Nat : LastStarter(t, i)
    BY <1>1, LastStarterExists
  <1>3. CASE i = 0 \/ Combine(t[i], c) = {} \/ Blocked(t, i, c)
    <2>1. ComposeWith(t, c) = Append(t, c)
      BY <1>2, <1>3, Appends
    <2>2. IsString(Append(t, c)) /\ Len(Append(t, c)) = Len(t) + 1
      BY AppendIs
    <2> QED
      BY <1>1, <2>1, <2>2
  <1>4. CASE ~(i = 0 \/ Combine(t[i], c) = {} \/ Blocked(t, i, c))
    <2>1. PICK d \in Combine(t[i], c) : TRUE
      BY <1>4
    <2>2. i \in Nat /\ i # 0 /\ LastStarter(t, i) /\ ~Blocked(t, i, c) /\ IsString(t)
          /\ d \in Combine(t[i], c)
      BY <1>2, <1>4, <2>1
    <2>3. ComposeWith(t, c) = [t EXCEPT ![i] = d]
      BY ONLY <2>2, Replaces
    <2>4. IsString([t EXCEPT ![i] = d]) /\ Len([t EXCEPT ![i] = d]) = Len(t)
      BY ExceptIsString
    <2> QED
      BY <1>1, <2>3, <2>4
  <1> QED
    BY <1>3, <1>4

LEMMA EmptyAppends ==
  ASSUME NEW c
  PROVE  ComposeWith(<<>>, c) = <<c>>
  <1>1. IsString(<<>>) /\ Len(<<>>) = 0
    BY DEF IsString, ToSet
  <1>2. LastStarter(<<>>, 0)
    BY <1>1 DEF LastStarter
  <1>3. ComposeWith(<<>>, c) = Append(<<>>, c)
    BY <1>1, <1>2, Appends
  <1> QED
    BY <1>3

LEMMA SingleIs ==
  ASSUME NEW c
  PROVE  IsString(<<c>>) /\ Len(<<c>>) = 1 /\ <<c>>[1] = c
  <1>1. <<c>> \in Seq({c})
    OBVIOUS
  <1> QED
    BY <1>1, StringIsSeq

\* A mark that comes first stays, for nothing composes with it.
LEMMA MarkStays ==
  ASSUME NEW d, IsString(d), ~Starter(d[1]), Len(d) >= 2
  PROVE  Len(Composed(d)) >= 2
  <1> DEFINE N == Len(d)
  <1>1. N \in Nat
    BY StringIsMap
  <1>2. PICK u : Folds(u, d) /\ Composed(d) = u[N]
    BY <1>1, ComposedIs
  <1>3. \A n \in 1 .. N : u[n] = ComposeWith(u[n - 1], d[n])
    BY <1>2 DEF Folds
  <1>4. u[1] = <<d[1]>>
    <2>1. u[0] = <<>> /\ 1 \in 1 .. N /\ 1 - 1 = 0
      BY <1>1, <1>2 DEF Folds
    <2> QED
      BY <1>3, <2>1, EmptyAppends
  <1> DEFINE t == <<d[1]>>
  <1>5. IsString(t) /\ Len(t) = 1 /\ t[1] = d[1]
    BY SingleIs
  <1>6. IsString(u[2]) /\ Len(u[2]) = 2
    <2> HIDE DEF t
    <2>1. LastStarter(t, 0)
      BY <1>5 DEF LastStarter
    <2>2. ComposeWith(t, d[2]) = Append(t, d[2])
      BY <1>5, <2>1, Appends
    <2>3. 2 \in 1 .. N /\ 2 - 1 = 1
      BY <1>1
    <2> QED
      <3>1. IsString(Append(t, d[2])) /\ Len(Append(t, d[2])) = Len(t) + 1
        BY <1>5, AppendIs
      <3>2. u[2] = ComposeWith(u[1], d[2])
        BY <1>3, <2>3
      <3>3. u[1] = t
        BY <1>4 DEF t
      <3>4. u[2] = Append(t, d[2])
        BY ONLY <2>2, <3>2, <3>3
      <3> QED
        BY ONLY <1>5, <3>1, <3>4
  <1> DEFINE Good(n) == IsString(u[n]) /\ Len(u[n]) >= 2
             Bad == {n \in 2 .. N : ~Good(n)}
  <1>7. Bad = {}
    <2> SUFFICES ASSUME Bad # {}
                 PROVE  FALSE
      OBVIOUS
    <2>1. PICK m \in Bad : \A n \in Bad : m <= n
      <3>1. Bad \in SUBSET Nat
        <4>1. \A n \in Bad : n \in 2 .. N
          OBVIOUS
        <4> HIDE DEF Bad
        <4> QED
          BY <4>1
      <3> HIDE DEF Bad
      <3> QED
        BY <3>1, LeastOf
    <2>2. m \in 2 .. N /\ ~Good(m)
      OBVIOUS
    <2>3. m # 2
      <3>1. Good(2)
        BY <1>6
      <3> QED
        BY <2>2, <3>1
    <2>4. m - 1 \in 2 .. N /\ m \in 1 .. N /\ ~(m <= m - 1)
      BY <2>2, <2>3
    <2>5. Good(m - 1)
      <3>1. m - 1 \notin Bad
        <4> HIDE DEF Bad
        <4> QED
          BY <2>1, <2>4
      <3> QED
        BY <2>4, <3>1
    <2> DEFINE w == u[m - 1]
    <2>6. u[m] = ComposeWith(w, d[m])
      BY <1>3, <2>4
    <2>7. IsString(w) /\ Len(w) >= 2 /\ Len(w) \in Nat
      BY <2>5, StringIsMap
    <2> HIDE DEF w
    <2>8. IsString(ComposeWith(w, d[m])) /\ Len(ComposeWith(w, d[m])) >= Len(w)
      BY <2>7, NeverShorter
    <2>9. Len(ComposeWith(w, d[m])) \in Nat
      BY <2>8, StringIsMap
    <2> QED
      BY <2>2, <2>6, <2>7, <2>8, <2>9
  <1>8. N \in 2 .. N
    BY <1>1
  <1> QED
    BY <1>2, <1>7, <1>8

-----------------------------------------------------------------------------
(* The pieces of a Hangul syllable compose to it.                          *)

LEMMA JamosAre ==
  ASSUME NEW c, Syllable(c)
  PROVE  \E l, v : /\ HangulL(l) /\ HangulV(v)
                   /\ OpenSyllable(c) => Jamos(c) = <<l, v>> /\ SyllableOf(l, v) = c
                   /\ ~OpenSyllable(c) =>
                        \E f : /\ HangulT(f) /\ Jamos(c) = <<l, v, f>>
                               /\ SyllableOf(l, v) + f - TBase = c
  <1> DEFINE x == c - SBase
             n == VCount * TCount
             q == x \div n
             r == x % n
             b == r \div TCount
             e == r % TCount
             l == LBase + q
             v == VBase + b
             f == TBase + (x % TCount)
  <1>1. /\ TCount \in Nat \ {0} /\ VCount \in Nat \ {0} /\ LCount \in Nat \ {0}
        /\ SBase \in Nat /\ TBase \in Nat /\ VBase \in Nat /\ LBase \in Nat
        /\ LCount * VCount * TCount = LCount * n
    BY HangulAssumption
  <1>2. n \in Nat /\ n # 0 /\ n = VCount * TCount
    <2>1. 1 * TCount <= VCount * TCount /\ VCount * TCount \in Nat
      BY <1>1, TimesGrows
    <2> QED
      BY <1>1, <2>1
  <1>3. c \in Nat /\ x \in Nat /\ x < LCount * n /\ c = SBase + x /\ LCount * n \in Nat
    BY <1>1, <1>2 DEF Syllable
  <1>4. Jamos(c) = IF OpenSyllable(c) THEN <<l, v>> ELSE <<l, v, f>>
    BY DEF Jamos
  <1>5. OpenSyllable(c) <=> x % TCount = 0
    BY DEF OpenSyllable
  <1> HIDE DEF x, n
  <1>6. q \in Nat /\ r \in 0 .. n - 1 /\ x = q * n + r
    BY <1>2, <1>3, Divided
  <1>7. q < LCount
    <2> HIDE DEF q, r
    <2>1. q * n + r < LCount * n /\ r \in Nat /\ n \in Nat \ {0}
      BY <1>2, <1>3, <1>6
    <2>2. q \in Nat /\ LCount \in Nat
      BY <1>1, <1>6
    <2> QED
      BY ONLY <2>1, <2>2, QuotientBelow
  <1>8. b \in Nat /\ e \in 0 .. TCount - 1 /\ r = b * TCount + e /\ b * TCount \in Nat
    <2> HIDE DEF r, q
    <2>1. r \in Nat /\ TCount \in Nat \ {0}
      BY <1>1, <1>2, <1>6
    <2>2. b \in Nat /\ e \in 0 .. TCount - 1 /\ r = b * TCount + e
      BY ONLY <2>1, Divided
    <2> HIDE DEF b, e
    <2> QED
      BY <2>1, <2>2
  <1>9. b < VCount
    <2> HIDE DEF b, e, q, r
    <2>1. b * TCount + e < VCount * TCount
      BY <1>2, <1>6, <1>8
    <2>2. b \in Nat /\ VCount \in Nat /\ TCount \in Nat \ {0} /\ e \in Nat
      BY <1>1, <1>8
    <2> QED
      BY ONLY <2>1, <2>2, QuotientBelow
  <1> HIDE DEF q, b, e
  <1>10. HangulL(l) /\ HangulV(v)
    BY <1>1, <1>6, <1>7, <1>8, <1>9 DEF HangulL, HangulV
  <1> DEFINE m == q * VCount + b
  <1>11. m \in Nat /\ x = m * TCount + e
    <2>1. q * VCount \in Nat /\ q * n = (q * VCount) * TCount
      BY <1>1, <1>2, <1>6
    <2> DEFINE y == q * VCount
    <2>2. (y + b) * TCount = y * TCount + b * TCount /\ y * TCount \in Nat
      <3>1. y \in Nat
        BY <2>1
      <3> HIDE DEF y
      <3> QED
        BY <1>1, <1>8, <3>1
    <2> HIDE DEF r
    <2> QED
      BY <1>1, <1>6, <1>8, <2>1, <2>2
  <1>12. SyllableOf(l, v) = SBase + m * TCount
    <2>1. l - LBase = q /\ q * VCount + v - VBase = m
      <3> DEFINE y == q * VCount
      <3>1. y \in Nat
        BY <1>1, <1>6
      <3> HIDE DEF y
      <3>2. y + v - VBase = y + b
        BY <1>1, <1>8, <3>1
      <3>3. l - LBase = q
        BY <1>1, <1>6
      <3> QED
        BY <3>2, <3>3 DEF y
    <2> QED
      BY <2>1 DEF SyllableOf
  <1> HIDE DEF m
  <1>13. x % TCount = e
    BY <1>1, <1>8, <1>11, Multiple
  <1>14. m * TCount \in Nat
    BY <1>1, <1>11
  <1>15. SyllableOf(l, v) + e = c
    BY <1>1, <1>3, <1>8, <1>11, <1>12, <1>14
  <1> HIDE DEF l, v
  <1>16. CASE OpenSyllable(c)
    <2>1. e = 0
      BY <1>5, <1>13, <1>16
    <2>2. SyllableOf(l, v) = c
      BY <1>1, <1>12, <1>14, <1>15, <2>1
    <2> QED
      BY <1>4, <1>10, <1>16, <2>2
  <1>17. CASE ~OpenSyllable(c)
    <2>1. e # 0 /\ f = TBase + e
      BY <1>5, <1>13, <1>17
    <2> HIDE DEF f
    <2>2. HangulT(f)
      BY <1>1, <1>8, <2>1 DEF HangulT
    <2>3. SyllableOf(l, v) + f - TBase = c
      BY <1>1, <1>8, <1>12, <1>14, <1>15, <2>1
    <2>4. Jamos(c) = <<l, v, f>>
      BY <1>4, <1>17
    <2> QED
      BY <1>10, <1>17, <2>2, <2>3, <2>4
  <1> QED
    BY <1>16, <1>17

LEMMA JamosCompose ==
  ASSUME NEW c, Syllable(c)
  PROVE  /\ Composed(Jamos(c)) = <<c>> /\ HangulL(Jamos(c)[1])
         /\ Len(Jamos(c)) >= 2 /\ \A i \in 1 .. Len(Jamos(c)) : Starter(Jamos(c)[i])
  <1>1. PICK l, v : /\ HangulL(l) /\ HangulV(v)
                    /\ OpenSyllable(c) => Jamos(c) = <<l, v>> /\ SyllableOf(l, v) = c
                    /\ ~OpenSyllable(c) =>
                         \E f : /\ HangulT(f) /\ Jamos(c) = <<l, v, f>>
                                /\ SyllableOf(l, v) + f - TBase = c
    BY JamosAre
  <1>2. Starter(l) /\ Starter(v) /\ \A f : HangulT(f) => Starter(f)
    BY <1>1, HangulApart
  <1> DEFINE open == SyllableOf(l, v)
             e == <<>>
  <1>3. IsString(e) /\ Append(e, l) = <<l>> /\ Append(e, open) = <<open>>
    BY DEF IsString, ToSet
  <1>4. ComposeWith(<<l>>, v) = <<open>>
    <2>1. open \in Combine(l, v)
      BY <1>1, CombineVowel
    <2> HIDE DEF e, open
    <2>2. ComposeWith(Append(e, l), v) = Append(e, open)
      BY <1>3, <2>1, StarterTakes
    <2> QED
      BY <1>3, <2>2
  <1>5. ASSUME NEW w, NEW u, Folds(u, w), Len(w) \in Nat, Len(w) >= 2, w[1] = l, w[2] = v
        PROVE  u[2] = <<open>>
    <2>1. u[0] = <<>> /\ \A n \in 1 .. Len(w) : u[n] = ComposeWith(u[n - 1], w[n])
      BY <1>5 DEF Folds
    <2>2. 1 \in 1 .. Len(w) /\ 1 - 1 = 0 /\ 2 \in 1 .. Len(w) /\ 2 - 1 = 1
      BY <1>5
    <2>3. u[1] = <<l>>
      BY <1>5, <2>1, <2>2, EmptyAppends
    <2> QED
      BY <1>4, <1>5, <2>1, <2>2, <2>3
  <1> HIDE DEF open
  <1>6. CASE OpenSyllable(c)
    <2> DEFINE w == <<l, v>>
    <2>1. Jamos(c) = w /\ open = c
      BY <1>1, <1>6 DEF open
    <2>2. Len(w) = 2 /\ w[1] = l /\ w[2] = v /\ \A i \in 1 .. 2 : i = 1 \/ i = 2
      OBVIOUS
    <2> HIDE DEF w
    <2>3. PICK u : Folds(u, w) /\ Composed(w) = u[2]
      <3>1. Len(w) \in Nat
        BY <2>2
      <3> QED
        BY <2>2, <3>1, ComposedIs
    <2>4. u[2] = <<c>>
      BY <1>5, <2>1, <2>2, <2>3, SMTT(60)
    <2>5. \A i \in 1 .. 2 : Starter(w[i])
      BY <1>2, <2>2
    <2> QED
      BY <1>1, <2>1, <2>2, <2>3, <2>4, <2>5
  <1>7. CASE ~OpenSyllable(c)
    <2>1. PICK f : HangulT(f) /\ Jamos(c) = <<l, v, f>> /\ open + f - TBase = c
      BY <1>1, <1>7 DEF open
    <2> DEFINE w == <<l, v, f>>
    <2>2. /\ Len(w) = 3 /\ w[1] = l /\ w[2] = v /\ w[3] = f
          /\ \A i \in 1 .. 3 : i = 1 \/ i = 2 \/ i = 3
      OBVIOUS
    <2>3. Jamos(c) = w
      BY <2>1
    <2> HIDE DEF w
    <2>4. PICK u : Folds(u, w) /\ Composed(w) = u[3]
      <3>1. Len(w) \in Nat
        BY <2>2
      <3> QED
        BY <2>2, <3>1, ComposedIs
    <2>5. u[2] = <<open>>
      BY <1>5, <2>2, <2>4
    <2>6. u[3] = ComposeWith(u[2], f)
      <3>1. 3 \in 1 .. 3 /\ 3 - 1 = 2
        OBVIOUS
      <3> QED
        BY <2>2, <2>4, <3>1 DEF Folds
    <2>7. c \in Combine(open, f)
      <3>1. OpenSyllable(open)
        BY <1>1, OpenSyllables DEF open
      <3> QED
        BY <2>1, <3>1, CombineFinal
    <2>8. ComposeWith(<<open>>, f) = <<c>>
      <3>1. ComposeWith(Append(<<>>, open), f) = Append(<<>>, c)
        BY <1>3, <2>7, StarterTakes
      <3> QED
        BY <3>1
    <2>9. \A i \in 1 .. 3 : Starter(w[i])
      BY <1>2, <2>1, <2>2
    <2>10. Composed(w) = <<c>> /\ HangulL(w[1]) /\ Len(w) >= 2
      BY <1>1, <2>2, <2>4, <2>5, <2>6, <2>8
    <2> QED
      BY <2>2, <2>3, <2>9, <2>10
  <1> QED
    BY <1>6, <1>7

LEMMA CanonicalApart ==
  ASSUME NEW c \in DOMAIN Decomposition
  PROVE  /\ \A i \in 1 .. Len(Canonical(c)) :
              LET d == Canonical(c)[i]
              IN  ~HangulL(d) /\ ~HangulV(d) /\ ~HangulT(d) /\ ~Syllable(d)
         /\ \A i \in 2 .. Len(Canonical(c)) :
              Starter(Canonical(c)[i])
                \/ get_ccc(Canonical(c)[i - 1]) <= get_ccc(Canonical(c)[i])
  <1> DEFINE w == Canonical(c)
  <1>1. DOMAIN w = 1 .. Len(w)
    <2>1. CASE w = <<>>
      BY <2>1
    <2>2. CASE w # <<>>
      <3>1. ~Syllable(c) /\ Pieces(c) = w
        BY <2>2 DEF Pieces, Canonical
      <3>2. IsString(Pieces(c))
        BY PiecesOf
      <3> QED
        BY <3>1, <3>2, StringIsMap
    <2> QED
      BY <2>1, <2>2
  <1>2. \A i \in 1 .. Len(w) : w[i] \in ToSet(w)
    BY <1>1 DEF ToSet
  <1>3. /\ \A d \in ToSet(w) : ~HangulL(d) /\ ~HangulV(d) /\ ~HangulT(d) /\ ~Syllable(d)
        /\ \A i \in 2 .. Len(w) : Starter(w[i]) \/ get_ccc(w[i - 1]) <= get_ccc(w[i])
    BY CompositionAssumption, Zenon DEF HangulL, HangulV, HangulT, Syllable
  <1> QED
    BY <1>2, <1>3

\* What the shortcut accepts is a code point that is not decomposed, or one whose
\* decomposition begins with a starter and composes to it again.
LEMMA AcceptedPieces ==
  ASSUME NEW s \in Seq(DOMAIN Decomposition), NEW n \in 1 .. Len(s),
         ~decomposition_is_not_nfc(s, n), NEW w, w = Pieces(s[n])
  PROVE  \/ w = <<s[n]>>
         \/ /\ Len(w) >= 2 /\ Composed(w) = <<s[n]>> /\ Starter(w[1])
            /\ ~HangulV(w[1]) /\ ~HangulT(w[1])
            /\ n > 1 => ~Composes(s[n - 1], w[1])
  <1> DEFINE c == s[n]
  <1>1. c \in DOMAIN Decomposition
    OBVIOUS
  <1>2. IsString(w) /\ Len(w) \in Nat
    BY <1>1, PiecesOf, StringIsMap
  <1>3. CASE Syllable(c)
    <2>1. w = Jamos(c)
      BY <1>3 DEF Pieces
    <2>2. Composed(w) = <<c>> /\ HangulL(w[1]) /\ Len(w) >= 2
      BY <1>3, <2>1, JamosCompose
    <2>3. ~HangulV(w[1]) /\ ~HangulT(w[1]) /\ Starter(w[1])
      BY <2>2, HangulApart
    <2>4. ~Composes(s[n - 1], w[1])
      BY <2>2, TableApart
    <2> QED
      BY <2>2, <2>3, <2>4
  <1>4. CASE ~Syllable(c) /\ Canonical(c) # <<>>
    <2>1. w = Canonical(c)
      BY <1>4 DEF Pieces
    <2>2. Len(w) # 1 /\ Composed(w) = <<c>> /\ ~ComposesBackward(s, n)
      BY <1>4, <2>1 DEF decomposition_is_not_nfc
    <2>3. Len(w) >= 2
      <3> DEFINE k == Len(w)
      <3>1. k = More(c) + 1 /\ More(c) \in Nat /\ k # 1
        BY <1>1, <2>2, PiecesOf
      <3> HIDE DEF k
      <3>2. k >= 2
        BY ONLY <3>1
      <3> QED
        BY <3>2 DEF k
    <2>4. Starter(w[1])
      <3> SUFFICES ASSUME ~Starter(w[1])
                   PROVE  FALSE
        OBVIOUS
      <3>1. Len(Composed(w)) >= 2
        BY <1>2, <2>3, MarkStays
      <3> QED
        BY <2>2, <3>1
    <2>5. ~HangulV(w[1]) /\ ~HangulT(w[1])
      <3>1. 1 \in 1 .. Len(w)
        BY <1>2, <2>3
      <3> QED
        BY <1>1, <2>1, <3>1, CanonicalApart
    <2>6. n > 1 => ~Composes(s[n - 1], w[1])
      BY <2>1, <2>2 DEF ComposesBackward
    <2> QED
      BY <2>2, <2>3, <2>4, <2>5, <2>6
  <1>5. CASE ~Syllable(c) /\ Canonical(c) = <<>>
    BY <1>5 DEF Pieces
  <1> QED
    BY <1>3, <1>4, <1>5

\* The pieces of one code point are in order, and trailing_ccc() is the class of the last.
LEMMA PiecesOrdered ==
  ASSUME NEW c \in DOMAIN Decomposition, NEW w, w = Pieces(c)
  PROVE  /\ \A i \in 2 .. Len(w) : Starter(w[i]) \/ get_ccc(w[i - 1]) <= get_ccc(w[i])
         /\ get_ccc(w[Len(w)]) = trailing_ccc(c)
  <1>1. CASE Syllable(c)
    <2>1. w = Jamos(c) /\ Canonical(c) = <<>>
      BY <1>1 DEF Pieces, Canonical
    <2>2. \A i \in 1 .. Len(w) : Starter(w[i])
      BY <1>1, <2>1, JamosCompose
    <2>3. Len(w) \in 1 .. Len(w) /\ \A i \in 2 .. Len(w) : i \in 1 .. Len(w)
      <3>1. Len(w) \in Nat /\ Len(w) >= 2
        BY <1>1, <2>1, JamosCompose, PiecesOf, StringIsMap
      <3> QED
        BY <3>1
    <2>4. Starter(c)
      BY <1>1, HangulApart
    <2> QED
      BY <2>1, <2>2, <2>3, <2>4 DEF trailing_ccc, Starter
  <1>2. CASE ~Syllable(c) /\ Canonical(c) # <<>>
    <2>1. w = Canonical(c)
      BY <1>2 DEF Pieces
    <2>2. trailing_ccc(c) = get_ccc(w[Len(w)])
      BY <1>2, <2>1 DEF trailing_ccc, Last
    <2>3. \A i \in 2 .. Len(w) : Starter(w[i]) \/ get_ccc(w[i - 1]) <= get_ccc(w[i])
      BY <2>1, CanonicalApart
    <2> QED
      BY <2>2, <2>3
  <1>3. CASE ~Syllable(c) /\ Canonical(c) = <<>>
    <2>1. w = <<c>>
      BY <1>3 DEF Pieces
    <2>2. Len(w) = 1 /\ w[1] = c
      BY <2>1
    <2> QED
      BY <1>3, <2>2 DEF trailing_ccc
  <1> QED
    BY <1>1, <1>2, <1>3

\* The decomposition of a string the shortcut accepts is in order,
LEMMA AcceptedInOrder ==
  ASSUME NEW s \in Seq(DOMAIN Decomposition), is_already_nfc(s), NEW d, d = Decomposed(s)
  PROVE  \A q \in 2 .. Len(d) : ~OutOfOrder(d, q)
  <1> DEFINE N == Len(s)
  <1>1. PICK g : Growth(s, g)
    BY AdditionalElements
  <1>2. /\ g \in [0 .. N -> Nat] /\ g[0] = 0
        /\ \A n \in 1 .. N : g[n] = g[n - 1] + Len(Pieces(s[n])) - 1
    BY <1>1, GrowthIs
  <1>3. Len(d) = N + g[N] /\ HasPieces(d, s, g, N) /\ N \in Nat /\ g[N] \in Nat
    <2>1. N \in 0 .. N /\ N \in Nat
      OBVIOUS
    <2> QED
      BY <1>1, <1>2, <2>1, DecomposedIs
  <1> SUFFICES ASSUME NEW q \in 2 .. Len(d)
               PROVE  Starter(d[q]) \/ get_ccc(d[q - 1]) <= get_ccc(d[q])
    <2>1. \A q \in 2 .. Len(d) : get_ccc(d[q]) \in Nat /\ get_ccc(d[q - 1]) \in Nat
      <3>1. DOMAIN d = 1 .. Len(d) /\ \A q \in DOMAIN d : get_ccc(d[q]) \in Nat
        BY DecomposedClasses, StringIsMap
      <3>2. \A q \in 2 .. Len(d) : q \in 1 .. Len(d) /\ q - 1 \in 1 .. Len(d)
        BY <1>3
      <3> QED
        BY <3>1, <3>2
    <2> QED
      BY <2>1 DEF OutOfOrder
  <1>0. PICK n \in 1 .. N : \E i \in 1 .. Len(Pieces(s[n])) : q = n - 1 + g[n - 1] + i
    <2>1. q \in 1 .. Len(s) + g[Len(s)]
      BY <1>3
    <2> QED
      BY <1>1, <2>1, Covers
  <1>4. PICK i \in 1 .. Len(Pieces(s[n])) : q = n - 1 + g[n - 1] + i
    BY <1>0
  <1> DEFINE c == s[n]
             w == Pieces(c)
  <1>5. /\ c \in DOMAIN Decomposition /\ Len(w) \in Nat /\ n - 1 \in 0 .. N /\ g[n - 1] \in Nat
        /\ n \in Nat /\ i \in 1 .. Len(w)
    <2>1. c \in DOMAIN Decomposition /\ n - 1 \in 0 .. N /\ n \in Nat
      BY <1>3
    <2> QED
      BY <1>2, <2>1, PiecesOf, StringIsMap
  <1>6. d[q] = w[i]
    BY <1>3, <1>4 DEF HasPieces
  <1>7. CASE i # 1
    <2>1. i \in 2 .. Len(w) /\ i - 1 \in 1 .. Len(w) /\ q - 1 = n - 1 + g[n - 1] + (i - 1)
      BY <1>4, <1>5, <1>7, SMTT(60)
    <2>2. d[q - 1] = w[i - 1]
      BY <1>3, <2>1 DEF HasPieces
    <2>3. Starter(w[i]) \/ get_ccc(w[i - 1]) <= get_ccc(w[i])
      <3> HIDE DEF w, c
      <3>1. \A v : v = w => \A j \in 2 .. Len(v) : Starter(v[j]) \/ get_ccc(v[j - 1]) <= get_ccc(v[j])
        BY <1>5, PiecesOrdered DEF w
      <3> QED
        BY <2>1, <3>1
    <2> QED
      BY <1>6, <2>2, <2>3
  <1>8. CASE i = 1
    <2>1. n # 1
      <3>1. n = 1 => q = 1
        BY <1>2, <1>4, <1>8
      <3> QED
        BY <3>1
    <2> DEFINE m == n - 1
               b == s[m]
               v == Pieces(b)
    <2>2. m \in 1 .. N /\ n \in 2 .. N /\ m - 1 \in 0 .. N
      BY <1>3, <1>5, <2>1, SMTT(60)
    <2>3. b \in DOMAIN Decomposition
      BY <2>2
    <2>4. Len(v) \in Nat /\ Len(v) >= 1 /\ Len(v) \in 1 .. Len(v)
      BY <2>3, PiecesOf, StringIsMap, SMTT(60)
    <2>5. d[q - 1] = v[Len(v)]
      <3>1. g[m] = g[m - 1] + Len(v) - 1 /\ g[m - 1] \in Nat
        BY <1>2, <2>2
      <3>2. q - 1 = m - 1 + g[m - 1] + Len(v)
        <4> HIDE DEF v
        <4>1. q = m + g[m] + 1
          BY <1>4, <1>8
        <4> HIDE DEF m
        <4> QED
          BY <2>2, <2>4, <3>1, <4>1, SMTT(60)
      <3> QED
        BY <1>3, <2>2, <2>4, <3>2 DEF HasPieces
    <2>6. get_ccc(v[Len(v)]) = trailing_ccc(b)
      BY <2>3, PiecesOrdered
    <2>7. w = <<c>> \/ Starter(w[1])
      <3>1. ~decomposition_is_not_nfc(s, n)
        <4>1. DOMAIN s = 1 .. N
          OBVIOUS
        <4> QED
          BY <4>1 DEF is_already_nfc
      <3> QED
        BY <3>1, AcceptedPieces
    <2>8. get_ccc(v[Len(v)]) \in Nat /\ get_ccc(w[1]) \in Nat
      <3>1. Len(v) \in DOMAIN v /\ 1 \in DOMAIN w
        BY <1>5, <1>8, <2>3, <2>4, PiecesOf, StringIsMap
      <3> QED
        BY <1>5, <2>3, <3>1, CccAssumption
    <2>9. w = <<c>> => Starter(c) \/ trailing_ccc(b) <= get_ccc(c)
      <3> SUFFICES ASSUME w = <<c>>, get_ccc(c) # 0
                   PROVE  trailing_ccc(b) <= get_ccc(c)
        BY DEF Starter
      <3>1. ~(trailing_ccc(b) > get_ccc(c))
        BY <2>2 DEF is_already_nfc, MarksOutOfOrder
      <3>2. w[1] = c
        OBVIOUS
      <3>3. get_ccc(c) \in Nat /\ trailing_ccc(b) \in Nat
        BY <2>6, <2>8, <3>2
      <3> QED
        BY <3>1, <3>3
    <2> QED
      BY <1>6, <1>8, <2>5, <2>6, <2>7, <2>9
  <1> QED
    BY <1>7, <1>8

\* and so ordering it changes nothing.
LEMMA InOrderStays ==
  ASSUME NEW d, IsString(d), Classed(d), \A q \in 2 .. Len(d) : ~OutOfOrder(d, q)
  PROVE  Ordered(d) = d
  <1> DEFINE N == Len(d)
             p == [j \in 1 .. N |-> j]
  <1>1. N \in Nat /\ d = [j \in 1 .. N |-> d[j]] /\ \A j \in 1 .. N : get_ccc(d[j]) \in Nat
    BY StringIsMap DEF Classed
  <1>2. \A q \in 2 .. N : Starter(d[q]) \/ get_ccc(d[q - 1]) <= get_ccc(d[q])
    <2>1. \A q \in 2 .. N : q \in 1 .. N /\ q - 1 \in 1 .. N
      BY <1>1
    <2> QED
      BY <1>1, <2>1 DEF OutOfOrder
  <1> HIDE DEF N
  <1>3. ASSUME NEW j \in 1 .. N, NEW e \in j + 1 .. N
        PROVE  ~Passes(d, j, e)
    <2> SUFFICES ASSUME \A m \in j + 1 .. e : ~Starter(d[m]), get_ccc(d[e]) < get_ccc(d[j])
                 PROVE  FALSE
      BY DEF Passes
    <2> DEFINE Bad == {k \in j .. e : get_ccc(d[k]) < get_ccc(d[j])}
    <2>1. \A k \in j .. e : k \in 1 .. N /\ k \in Nat
      BY <1>1, <1>3
    <2>2. PICK m \in Bad : \A k \in Bad : m <= k
      <3>1. e \in j .. e
        BY <1>1, <1>3
      <3>2. Bad # {} /\ Bad \in SUBSET Nat
        <4>1. \A k \in Bad : k \in j .. e
          OBVIOUS
        <4>2. e \in Bad
          BY <3>1
        <4> HIDE DEF Bad
        <4> QED
          BY <2>1, <4>1, <4>2
      <3> HIDE DEF Bad
      <3> QED
        BY <3>2, LeastOf
    <2>3. m \in j .. e /\ get_ccc(d[m]) < get_ccc(d[j])
      OBVIOUS
    <2>4. m # j
      <3>1. m = j => ~(get_ccc(d[m]) < get_ccc(d[j]))
        BY <1>1
      <3> QED
        BY <2>3, <3>1
    <2>5. m - 1 \in j .. e /\ ~(m <= m - 1) /\ m \in 2 .. N /\ m \in j + 1 .. e
      BY <1>1, <1>3, <2>1, <2>3, <2>4, SMTT(60)
    <2>6. ~(get_ccc(d[m - 1]) < get_ccc(d[j]))
      <3>1. m - 1 \notin Bad
        <4> HIDE DEF Bad
        <4> QED
          BY <2>2, <2>5
      <3> QED
        BY <2>5, <3>1
    <2>7. get_ccc(d[m - 1]) <= get_ccc(d[m])
      BY <1>2, <2>5
    <2>8. get_ccc(d[m]) \in Nat /\ get_ccc(d[m - 1]) \in Nat /\ get_ccc(d[j]) \in Nat
      BY <1>1, <1>3, <2>1, <2>5
    <2> QED
      BY <2>3, <2>6, <2>7, <2>8
  <1>4. Bijective(p, N)
    BY DEF Bijective
  <1>5. \A k \in 1 .. N : \A j \in 1 .. k - 1 : Before(d, p[j], p[k])
    <2> TAKE k \in 1 .. N
    <2> TAKE j \in 1 .. k - 1
    <2>1. j \in 1 .. N /\ k \in j + 1 .. N /\ j < k /\ p[j] = j /\ p[k] = k
      BY <1>1
    <2>2. ~Passes(d, j, k)
      BY <1>3, <2>1
    <2> QED
      BY <2>1, <2>2 DEF Before
  <1> DEFINE o == Ordered(d)
  <1>6. IsString(o) /\ Len(o) = N /\ \A i \in 1 .. N : o[i] = d[p[i]]
    <2> HIDE DEF p
    <2> QED
      BY <1>4, <1>5, SortedIsOrdered DEF N
  <1>7. \A i \in 1 .. N : o[i] = d[i]
    BY <1>6
  <1> HIDE DEF o
  <1>8. o = [j \in 1 .. N |-> o[j]]
    BY <1>6, StringIsMap
  <1>9. o = d
    BY ONLY <1>1, <1>7, <1>8
  <1> QED
    BY <1>9 DEF o

\* What begins with a starter composes to the same behind anything.
LEMMA ChunkFolds ==
  ASSUME NEW w, IsString(w), Len(w) >= 1, Starter(w[1]), NEW v, Folds(v, w),
         NEW t, IsString(t), NEW u, NEW b \in Nat, u[b + 1] = Append(t, w[1]),
         \A i \in 2 .. Len(w) : u[b + i] = ComposeWith(u[b + i - 1], w[i])
  PROVE  \A i \in 1 .. Len(w) :
           Joins(u[b + i], t, v[i]) /\ IsString(v[i]) /\ Len(v[i]) >= 1 /\ Starter(v[i][1])
  <1> DEFINE N == Len(w)
             Good(i) == /\ Joins(u[b + i], t, v[i])
                        /\ IsString(v[i]) /\ Len(v[i]) >= 1 /\ Starter(v[i][1])
             Bad == {i \in 1 .. N : ~Good(i)}
  <1>1. N \in Nat /\ N >= 1 /\ Len(t) \in Nat
    BY StringIsMap
  <1>2. v[0] = <<>> /\ \A i \in 1 .. N : v[i] = ComposeWith(v[i - 1], w[i])
    BY DEF Folds
  <1>3. Good(1)
    <2>1. v[1] = <<w[1]>>
      <3>1. 1 \in 1 .. N /\ 1 - 1 = 0
        BY <1>1
      <3> QED
        BY <1>2, <3>1, EmptyAppends
    <2> DEFINE x == Append(t, w[1])
               y == <<w[1]>>
    <2>2. IsString(y) /\ Len(y) = 1 /\ y[1] = w[1]
      BY SingleIs
    <2>3. /\ IsString(x) /\ Len(x) = Len(t) + 1 /\ x[Len(t) + 1] = w[1]
          /\ \A j \in 1 .. Len(t) : x[j] = t[j]
      BY AppendIs
    <2> HIDE DEF x, y
    <2>4. Joins(x, t, y)
      <3>1. \A j \in 1 .. 1 : j = 1
        OBVIOUS
      <3> QED
        BY <2>2, <2>3, <3>1 DEF Joins
    <2>5. u[b + 1] = x /\ v[1] = y
      BY <2>1 DEF x, y
    <2>6. Starter(y[1]) /\ Len(y) >= 1
      BY <2>2
    <2> QED
      BY ONLY <2>2, <2>4, <2>5, <2>6
  <1>4. Bad = {}
    <2> SUFFICES ASSUME Bad # {}
                 PROVE  FALSE
      OBVIOUS
    <2>1. PICK m \in Bad : \A n \in Bad : m <= n
      <3>1. Bad \in SUBSET Nat
        <4>1. \A n \in Bad : n \in 1 .. N
          OBVIOUS
        <4> HIDE DEF Bad
        <4> QED
          BY <4>1
      <3> HIDE DEF Bad
      <3> QED
        BY <3>1, LeastOf
    <2>2. m \in 1 .. N /\ ~Good(m)
      OBVIOUS
    <2> HIDE DEF Good
    <2>3. m # 1
      BY <1>3, <2>2
    <2>4. m - 1 \in 1 .. N /\ m \in 2 .. N /\ ~(m <= m - 1) /\ b + (m - 1) = b + m - 1
      BY <2>2, <2>3
    <2>5. Good(m - 1)
      <3>1. m - 1 \notin Bad
        <4> HIDE DEF Bad
        <4> QED
          BY <2>1, <2>4
      <3> QED
        BY <2>4, <3>1
    <2> DEFINE x == u[b + m - 1]
               y == v[m - 1]
    <2>6. u[b + m] = ComposeWith(x, w[m]) /\ v[m] = ComposeWith(y, w[m])
      BY <1>2, <2>2, <2>4
    <2>7. Joins(x, t, y) /\ IsString(y) /\ Len(y) >= 1 /\ Starter(y[1])
      BY <2>4, <2>5 DEF Good
    <2> HIDE DEF x, y
    <2>8. /\ Joins(ComposeWith(x, w[m]), t, ComposeWith(y, w[m]))
          /\ IsString(ComposeWith(y, w[m])) /\ Len(ComposeWith(y, w[m])) >= 1
          /\ Starter(ComposeWith(y, w[m])[1])
      <3>1. IsString(t)
        OBVIOUS
      <3> QED
        BY ONLY <2>7, <3>1, StarterShields
    <2>9. Good(m)
      BY <2>6, <2>8 DEF Good
    <2> QED
      BY <2>2, <2>9
  <1> QED
    BY <1>4

LEMMA AcceptedClasses ==
  ASSUME NEW s \in Seq(DOMAIN Decomposition), NEW n \in 1 .. Len(s),
         ~decomposition_is_not_nfc(s, n)
  PROVE  get_ccc(s[n]) \in Nat
  <1> DEFINE c == s[n]
             w == Pieces(c)
  <1>1. c \in DOMAIN Decomposition /\ IsString(w) /\ Len(w) \in Nat /\ Len(w) >= 1
    <2>1. c \in DOMAIN Decomposition
      OBVIOUS
    <2>2. IsString(w) /\ Len(w) = More(c) + 1 /\ More(c) \in Nat
      BY <2>1, PiecesOf
    <2> HIDE DEF w
    <2> QED
      BY <2>1, <2>2
  <1>2. w = <<c>> \/ (Composed(w) = <<c>> /\ Starter(w[1]))
    BY AcceptedPieces
  <1>3. CASE w = <<c>>
    <2>1. 1 \in DOMAIN w /\ w[1] = c
      BY <1>3
    <2> QED
      BY <1>1, <2>1, CccAssumption
  <1>4. CASE Composed(w) = <<c>> /\ Starter(w[1])
    <2> HIDE DEF w
    <2>1. PICK v : Folds(v, w) /\ Composed(w) = v[Len(w)]
      BY <1>1, ComposedIs
    <2>2. /\ v[0] = <<>> /\ \A i \in 1 .. Len(w) : v[i] = ComposeWith(v[i - 1], w[i])
      BY <2>1 DEF Folds
    <2>3. v[0 + 1] = Append(<<>>, w[1])
      <3>1. 1 \in 1 .. Len(w) /\ 1 - 1 = 0 /\ 0 + 1 = 1 /\ Append(<<>>, w[1]) = <<w[1]>>
        BY <1>1
      <3> QED
        BY <2>2, <3>1, EmptyAppends
    <2>4. \A i \in 2 .. Len(w) : v[0 + i] = ComposeWith(v[0 + i - 1], w[i])
      <3>1. \A i \in 2 .. Len(w) : i \in 1 .. Len(w) /\ 0 + i = i
        OBVIOUS
      <3> QED
        BY <2>2, <3>1
    <2>5. IsString(<<>>) /\ 0 \in Nat
      BY DEF IsString, ToSet
    <2>6. \A i \in 1 .. Len(w) : Starter(v[i][1])
      BY ONLY <1>1, <1>4, <2>1, <2>3, <2>4, <2>5, ChunkFolds, ZenonT(60)
    <2>7. Len(w) \in 1 .. Len(w) /\ <<c>>[1] = c
      BY <1>1
    <2> QED
      BY <1>4, <2>1, <2>6, <2>7 DEF Starter
  <1> QED
    BY <1>2, <1>3, <1>4

\* The first of the pieces does not compose with what is before it,
LEMMA FirstAppends ==
  ASSUME NEW s \in Seq(DOMAIN Decomposition), is_already_nfc(s), NEW n \in 1 .. Len(s),
         NEW t, IsString(t), Len(t) = n - 1, \A j \in 1 .. n - 1 : t[j] = s[j],
         NEW c, c = Pieces(s[n])[1]
  PROVE  ComposeWith(t, c) = Append(t, c)
  <1> DEFINE w == Pieces(s[n])
  <1>1. n \in Nat /\ n - 1 \in Nat /\ DOMAIN s = 1 .. Len(s) /\ Len(s) \in Nat
    OBVIOUS
  <1>2. s[n] \in DOMAIN Decomposition /\ get_ccc(c) \in Nat
    <2>1. s[n] \in DOMAIN Decomposition
      OBVIOUS
    <2>2. 1 \in DOMAIN w
      BY <2>1, PiecesOf, StringIsMap
    <2> QED
      BY <2>1, <2>2, CccAssumption
  <1>3. \/ c = s[n]
        \/ /\ Starter(c) /\ ~HangulV(c) /\ ~HangulT(c)
           /\ n > 1 => ~Composes(s[n - 1], c)
    <2>1. ~decomposition_is_not_nfc(s, n)
      BY <1>1 DEF is_already_nfc
    <2>2. w = <<s[n]>> => c = s[n]
      OBVIOUS
    <2> QED
      BY <2>1, <2>2, AcceptedPieces
  <1>4. PICK i \in Nat : LastStarter(t, i) /\ i <= n - 1
    BY <1>1, LastStarterExists
  <1> SUFFICES ASSUME i # 0, ~Blocked(t, i, c)
               PROVE  Combine(t[i], c) = {}
    BY <1>4, Appends
  <1> DEFINE b == s[i]
  <1>5. /\ i \in 1 .. n - 1 /\ i \in 1 .. Len(s) /\ i < n /\ n > 1 /\ n - 1 \in 1 .. n - 1
        /\ n - 1 \in 1 .. Len(s) - 1
    BY <1>1, <1>4
  <1>6. t[i] = b /\ Starter(b) /\ \A m \in i + 1 .. n - 1 : ~Starter(s[m])
    <2>1. \A m \in i + 1 .. n - 1 : m \in 1 .. n - 1
      BY <1>1, <1>4
    <2> QED
      BY <1>4, <1>5, <2>1 DEF LastStarter
  <1>7. i < n - 1 => ~(get_ccc(s[n - 1]) >= get_ccc(c)) /\ ~Starter(s[n - 1])
                       /\ get_ccc(s[n - 1]) \in Nat
    <2> SUFFICES ASSUME i < n - 1
                 PROVE  ~(get_ccc(s[n - 1]) >= get_ccc(c)) /\ ~Starter(s[n - 1])
                          /\ get_ccc(s[n - 1]) \in Nat
      OBVIOUS
    <2>1. ~(get_ccc(s[n - 1]) >= get_ccc(c)) /\ ~Starter(s[n - 1])
      <3>1. n - 1 \in i + 1 .. n - 1
        BY <1>1, <1>4
      <3> QED
        BY <1>5, <1>6, <3>1 DEF Blocked
    <2>2. get_ccc(s[n - 1]) \in Nat
      <3>1. n - 1 \in 1 .. Len(s) /\ ~decomposition_is_not_nfc(s, n - 1)
        BY <1>1, <1>5 DEF is_already_nfc
      <3> QED
        BY <3>1, AcceptedClasses
    <2> QED
      BY <2>1, <2>2
  \* A starter is not behind a mark here, as nothing has a class below zero.
  <1>8. Starter(c) => i = n - 1
    BY <1>1, <1>4, <1>7 DEF Starter
  <1>9. ~(HangulL(b) /\ HangulV(c)) /\ ~(OpenSyllable(b) /\ HangulT(c))
    <2> SUFFICES ASSUME (HangulL(b) /\ HangulV(c)) \/ (OpenSyllable(b) /\ HangulT(c))
                 PROVE  FALSE
      OBVIOUS
    <2>1. c = s[n] /\ i = n - 1 /\ n - 1 + 1 = n
      BY <1>1, <1>3, <1>8, HangulApart
    <2> QED
      BY <1>5, <2>1 DEF is_already_nfc, would_compose
  <1>10. ~Composes(b, c)
    <2> SUFFICES ASSUME Composes(b, c)
                 PROVE  FALSE
      OBVIOUS
    <2>1. c = s[n]
      BY <1>3, <1>5, <1>8
    <2>2. ScanStart(s, i) /\ ~Hangul(b)
      BY <1>6, TableApart DEF ScanStart, Starter
    <2>3. \A m \in i + 1 .. n - 1 : get_ccc(s[m]) # 0
      BY <1>6 DEF Starter
    <2>4. n > i + 1 => get_ccc(s[n - 1]) < get_ccc(s[n])
      BY <1>1, <1>2, <1>7, <2>1
    <2> QED
      BY <1>1, <1>5, <2>1, <2>2, <2>3, <2>4 DEF is_already_nfc, would_compose
  <1> QED
    BY <1>6, <1>9, <1>10, CombineNothing

\* t is the first n of s.
Prefix(t, s, n) == IsString(t) /\ Len(t) = n /\ \A j \in 1 .. n : t[j] = s[j]

\* Composing the pieces of one code point behind the ones before it gives it back.
LEMMA ChunkComposes ==
  ASSUME NEW s \in Seq(DOMAIN Decomposition), is_already_nfc(s), NEW n \in 1 .. Len(s),
         NEW u, NEW b \in Nat, Prefix(u[b], s, n - 1), NEW w, w = Pieces(s[n]),
         \A i \in 1 .. Len(w) : u[b + i] = ComposeWith(u[b + i - 1], w[i])
  PROVE  Prefix(u[b + Len(w)], s, n)
  <1> DEFINE c == s[n]
             t == u[b]
             x == u[b + Len(w)]
  <1>1. c \in DOMAIN Decomposition /\ n \in Nat /\ n - 1 \in Nat
    OBVIOUS
  <1>2. IsString(w) /\ Len(w) \in Nat /\ Len(w) >= 1 /\ 1 \in 1 .. Len(w)
    <2>1. IsString(w) /\ Len(w) = More(c) + 1 /\ More(c) \in Nat
      BY <1>1, PiecesOf
    <2> QED
      BY <2>1
  <1>3. IsString(t) /\ Len(t) = n - 1 /\ \A j \in 1 .. n - 1 : t[j] = s[j]
    BY DEF Prefix
  <1>4. u[b + 1] = Append(t, w[1])
    <2>1. b + 1 - 1 = b
      OBVIOUS
    <2>2. ComposeWith(t, w[1]) = Append(t, w[1])
      BY <1>3, FirstAppends, SMTT(60)
    <2> QED
      BY <1>2, <2>1, <2>2
  <1>5. /\ IsString(x) /\ Len(x) = n - 1 + 1 /\ x[n - 1 + 1] = c
        /\ \A j \in 1 .. n - 1 : x[j] = t[j]
    <2>1. \/ w = <<c>>
          \/ Len(w) >= 2 /\ Composed(w) = <<c>> /\ Starter(w[1])
      <3>1. ~decomposition_is_not_nfc(s, n)
        <4>1. n \in DOMAIN s
          OBVIOUS
        <4> QED
          BY <4>1 DEF is_already_nfc
      <3> QED
        BY <3>1, AcceptedPieces
    <2>2. CASE w = <<c>>
      <3>1. Len(w) = 1 /\ w[1] = c
        BY <2>2
      <3>2. x = Append(t, c)
        BY <1>4, <3>1
      <3> HIDE DEF x, t
      <3> QED
        BY <1>3, <3>2, AppendIs
    <2>3. CASE Composed(w) = <<c>> /\ Starter(w[1])
      <3>1. PICK v : Folds(v, w) /\ Composed(w) = v[Len(w)]
        BY <1>2, ComposedIs
      <3>2. \A i \in 2 .. Len(w) : u[b + i] = ComposeWith(u[b + i - 1], w[i])
        <4>1. \A i \in 2 .. Len(w) : i \in 1 .. Len(w)
          OBVIOUS
        <4> QED
          BY <4>1
      <3>3. \A i \in 1 .. Len(w) : Joins(u[b + i], t, v[i])
        <4>1. b \in Nat
          OBVIOUS
        <4> QED
          BY ONLY <1>2, <1>3, <1>4, <2>3, <3>1, <3>2, <4>1, ChunkFolds
      <3>4. Joins(x, t, <<c>>)
        <4>1. Len(w) \in 1 .. Len(w)
          BY <1>2
        <4> QED
          BY <2>3, <3>1, <3>3, <4>1
      <3>5. Len(<<c>>) = 1 /\ <<c>>[1] = c /\ 1 \in 1 .. 1
        OBVIOUS
      <3> HIDE DEF x, t, c
      <3> QED
        BY <1>3, <3>4, <3>5 DEF Joins
    <2> QED
      BY <2>1, <2>2, <2>3
  <1>6. \A j \in 1 .. n : x[j] = s[j]
    <2>1. \A j \in 1 .. n : j \in 1 .. n - 1 \/ j = n
      BY <1>1
    <2>2. n - 1 + 1 = n
      BY <1>1
    <2> HIDE DEF x, t
    <2> QED
      BY <1>3, <1>5, <2>1, <2>2
  <1> QED
    BY <1>1, <1>5, <1>6 DEF Prefix

\* What the shortcut leaves alone is in Normalization Form C: each code point of it
\* is what its pieces compose to, behind the ones before it.
THEOREM AcceptedIsNormal ==
  ASSUME NEW s \in Seq(DOMAIN Decomposition), is_already_nfc(s)
  PROVE  Nfc(s) = s
  <1> DEFINE N == Len(s)
             d == Decomposed(s)
  <1>1. PICK g : Growth(s, g)
    BY AdditionalElements
  <1>2. /\ g \in [0 .. N -> Nat] /\ g[0] = 0
        /\ \A n \in 1 .. N : g[n] = g[n - 1] + Len(Pieces(s[n])) - 1
        /\ \A k \in 0 .. N : \A l \in k .. N : g[k] <= g[l]
    BY <1>1, GrowthIs
  <1>3. /\ IsString(d) /\ Len(d) = N + g[N] /\ HasPieces(d, s, g, N) /\ Classed(d)
        /\ N \in Nat /\ Len(d) \in Nat
    <2>1. DOMAIN d = 1 .. Len(d) /\ \A q \in DOMAIN d : get_ccc(d[q]) \in Nat
      BY DecomposedClasses, StringIsMap
    <2>2. IsString(d) /\ Len(d) = N + g[N] /\ HasPieces(d, s, g, N)
      BY <1>1, DecomposedIs
    <2>3. N \in Nat
      OBVIOUS
    <2>4. Len(d) \in Nat
      BY <2>2, StringIsMap
    <2> QED
      BY <2>1, <2>2, <2>3, <2>4 DEF Classed
  <1>4. Ordered(d) = d
    <2>1. \A q \in 2 .. Len(d) : ~OutOfOrder(d, q)
      BY AcceptedInOrder
    <2> HIDE DEF d
    <2> QED
      BY <1>3, <2>1, InOrderStays
  <1>5. PICK u : Folds(u, d) /\ Composed(d) = u[Len(d)]
    BY <1>3, ComposedIs
  <1>6. u[0] = <<>> /\ \A q \in 1 .. Len(d) : u[q] = ComposeWith(u[q - 1], d[q])
    BY <1>5 DEF Folds
  <1> HIDE DEF d
  <1> DEFINE Good(n) == Prefix(u[n + g[n]], s, n)
             Bad == {n \in 0 .. N : ~Good(n)}
  <1>7. Good(0)
    <2>1. IsString(<<>>) /\ Len(<<>>) = 0
      BY DEF IsString, ToSet
    <2> QED
      BY <1>2, <1>6, <2>1 DEF Prefix
  <1>8. ASSUME NEW n \in 1 .. N, Good(n - 1)
        PROVE  Good(n)
    <2> DEFINE b == n - 1 + g[n - 1]
               w == Pieces(s[n])
    <2>1. /\ n - 1 \in 0 .. N /\ n \in 0 .. N /\ n \in n .. N /\ n \in Nat /\ N \in n .. N
          /\ N \in 0 .. N
      BY <1>3, <1>8
    <2>2. g[n - 1] \in Nat /\ g[n] \in Nat /\ g[N] \in Nat /\ g[n] <= g[N]
      BY <1>2, <2>1
    <2>3. Len(w) \in Nat /\ g[n] = g[n - 1] + Len(w) - 1
      <3>1. IsString(w)
        <4>1. s[n] \in DOMAIN Decomposition
          BY <1>8
        <4> QED
          BY <4>1, PiecesOf
      <3> QED
        BY <1>2, <3>1, StringIsMap
    <2>4. b \in Nat /\ b + Len(w) = n + g[n] /\ b + Len(w) <= Len(d)
      <3> DEFINE k == Len(w)
                 L == Len(d)
                 x == g[n - 1]
                 y == g[n]
                 z == g[N]
      <3>1. /\ k \in Nat /\ y = x + k - 1 /\ L = N + z /\ n <= N /\ N \in Nat /\ n \in Nat
            /\ x \in Nat /\ y \in Nat /\ z \in Nat /\ y <= z /\ n >= 1
        BY <1>3, <2>1, <2>2, <2>3
      <3> HIDE DEF k, L, x, y, z
      <3>2. n - 1 + x \in Nat /\ n - 1 + x + k = n + y /\ n - 1 + x + k <= L
        <4> HIDE DEF N
        <4> QED
          BY ONLY <3>1
      <3> QED
        BY <3>2 DEF k, L, x, y
    <2>5. \A i \in 1 .. Len(w) : d[b + i] = w[i]
      BY <1>3, <1>8 DEF HasPieces
    <2> HIDE DEF b
    <2>6. \A i \in 1 .. Len(w) : u[b + i] = ComposeWith(u[b + i - 1], w[i])
      <3>1. \A i \in 1 .. Len(w) : b + i \in 1 .. Len(d)
        <4> DEFINE k == Len(w)
                   L == Len(d)
        <4>1. k \in Nat /\ b \in Nat /\ b + k <= L /\ L \in Nat
          BY <1>3, <2>3, <2>4
        <4> HIDE DEF k, L
        <4>2. \A i \in 1 .. k : b + i \in 1 .. L
          BY <4>1
        <4> QED
          BY <4>2 DEF k, L
      <3> HIDE DEF w
      <3> TAKE i \in 1 .. Len(w)
      <3>2. b + i \in 1 .. Len(d) /\ d[b + i] = w[i]
        BY <2>5, <3>1
      <3> DEFINE q == b + i
      <3>3. u[q] = ComposeWith(u[q - 1], w[i])
        <4>1. q \in 1 .. Len(d) /\ d[q] = w[i]
          BY <3>2 DEF q
        <4> HIDE DEF q
        <4>2. u[q] = ComposeWith(u[q - 1], d[q])
          BY <1>6, <4>1
        <4> QED
          BY <4>1, <4>2, Zenon
      <3>4. q - 1 = b + i - 1
        BY <2>4
      <3> QED
        BY <3>3, <3>4, Zenon
    <2>7. Prefix(u[b], s, n - 1)
      BY <1>8 DEF b
    <2>8. Prefix(u[b + Len(w)], s, n)
      BY <1>8, <2>4, <2>6, <2>7, ChunkComposes
    <2> QED
      BY <2>4, <2>8
  <1>9. Bad = {}
    <2> SUFFICES ASSUME Bad # {}
                 PROVE  FALSE
      OBVIOUS
    <2>1. PICK m \in Bad : \A n \in Bad : m <= n
      <3>1. Bad \in SUBSET Nat
        <4>1. \A n \in Bad : n \in 0 .. N
          OBVIOUS
        <4> HIDE DEF Bad
        <4> QED
          BY <4>1
      <3> HIDE DEF Bad
      <3> QED
        BY <3>1, LeastOf
    <2>2. m \in 0 .. N /\ ~Good(m)
      OBVIOUS
    <2> HIDE DEF Good
    <2>3. m # 0
      BY <1>7, <2>2
    <2>4. m - 1 \in 0 .. N /\ m \in 1 .. N /\ ~(m <= m - 1)
      BY <2>2, <2>3
    <2>5. Good(m - 1)
      <3>1. m - 1 \notin Bad
        <4> HIDE DEF Bad
        <4> QED
          BY <2>1, <2>4
      <3> QED
        BY <2>4, <3>1
    <2> QED
      BY <1>8, <2>2, <2>4, <2>5
  <1>10. Prefix(u[Len(d)], s, N)
    <2>1. N \in 0 .. N
      BY <1>3
    <2>2. Good(N)
      BY <1>9, <2>1
    <2> QED
      BY <1>3, <2>2
  <1> DEFINE x == u[Len(d)]
  <1>11. x = s
    <2>1. /\ IsString(x) /\ Len(x) = N /\ \A j \in 1 .. N : x[j] = s[j]
      BY <1>10 DEF Prefix
    <2>2. x = [j \in 1 .. N |-> x[j]]
      BY <2>1, StringIsMap
    <2>3. s = [j \in 1 .. N |-> s[j]]
      OBVIOUS
    <2> HIDE DEF x
    <2> QED
      BY <2>1, <2>2, <2>3
  <1> QED
    BY <1>4, <1>5, <1>11 DEF Nfc, d

LEMMA FoldingNext ==
  IInv /\ Moving /\ Folding /\ Normalizes /\ [Next]_vars => Folding' /\ Normalizes'
  <1> SUFFICES ASSUME IInv, Moving, Folding, Normalizes, [Next]_vars
               PROVE  Folding' /\ Normalizes'
    OBVIOUS
  <1>1. CASE \E s \in Inputs : Call(s)
    <2>1. PICK s \in Inputs : Call(s)
      BY <1>1
    <2>2. /\ source' = s /\ pc' # "compose" /\ pc' # "marks"
          /\ pc' = "done" /\ ok' => input' = s /\ is_already_nfc(s)
      BY <2>1, Zenon DEF Call, Return
    <2>3. s \in Seq(DOMAIN Decomposition)
      BY TablesAssumption
    <2>4. is_already_nfc(s) => Nfc(s) = s
      BY <2>3, AcceptedIsNormal
    <2> QED
      BY <2>2, <2>4, Zenon DEF Folding, Normalizes
  <1>2. CASE DecomposeTurn \/ EndDecompose \/ PassStarter \/ TakeMark \/ ShiftMark \/ PlaceMark
    <2>1. pc' # "done" /\ pc' # "compose" /\ pc' # "marks"
      BY <1>2 DEF DecomposeTurn, EndDecompose, PassStarter, TakeMark, ShiftMark, PlaceMark
    <2> QED
      BY <2>1 DEF Folding, Normalizes
  <1>3. CASE EndSort
    <2>1. pc' = "compose"
      BY <1>3 DEF EndSort
    <2>2. Folding'
      BY <1>3, BeginsEmpty
    <2> QED
      BY <2>1, <2>2 DEF Normalizes
  <1>4. CASE ComposeHangul \/ BeginMarks \/ ComposeMark \/ KeepMark \/ EndMarks
    <2>1. pc \in {"compose", "marks"} /\ pc' # "done"
      BY <1>4 DEF ComposeHangul, BeginMarks, ComposeMark, KeepMark, EndMarks
    <2>2. PICK o, u : ComposesTo(o, u)
      BY <2>1 DEF Folding
    <2>3. ComposesTo(o, u)'
      <3>1. CASE ComposeHangul
        BY <2>2, <3>1, HangulFolds
      <3>2. CASE BeginMarks
        BY <2>2, <3>2, BeginFolds
      <3>3. CASE ComposeMark
        BY <2>2, <3>3, ComposeMarkFolds
      <3>4. CASE KeepMark
        BY <2>2, <3>4, KeepMarkFolds
      <3>5. CASE EndMarks
        BY <2>2, <3>5, EndFolds
      <3> QED
        BY <1>4, <3>1, <3>2, <3>3, <3>4, <3>5
    <2> QED
      BY <2>1, <2>3 DEF Folding, Normalizes
  <1>5. CASE Finish
    <2>1. pc = "compose" /\ pc' = "done" /\ source' = source
      BY <1>5 DEF Finish, Return
    <2>2. PICK o, u : ComposesTo(o, u)
      BY <2>1 DEF Folding
    <2>3. input' = Nfc(source)
      BY <1>5, <2>2, FinishNormal
    <2> QED
      BY <2>1, <2>3 DEF Folding, Normalizes
  <1>6. CASE UNCHANGED vars
    <2>1. /\ pc' = pc /\ source' = source /\ input' = input /\ input_count' = input_count
          /\ composition_count' = composition_count /\ previous_ccc' = previous_ccc
          /\ initial_composition_count' = initial_composition_count /\ row' = row /\ ok' = ok
      BY <1>6 DEF vars, decomposeVars, composeVars
    <2>2. ASSUME NEW o, NEW u, ComposesTo(o, u)
          PROVE  ComposesTo(o, u)'
      <3>1. Between(o, u) => Between(o, u)'
        BY <2>1, Zenon DEF Between, Holds
      <3>2. Base' = Base
        BY <2>1, Zenon DEF Base
      <3>3. AmongMarks(o, u) => AmongMarks(o, u)'
        BY <2>1, <3>2, Zenon DEF AmongMarks, Holds
      <3> QED
        BY <2>1, <2>2, <3>1, <3>3, Zenon DEF ComposesTo
    <2> QED
      BY <2>1, <2>2, Zenon DEF Folding, Normalizes
  <1> QED
    BY <1>1, <1>2, <1>3, <1>4, <1>5, <1>6 DEF Next, Step

\* normalize() returns the Normalization Form C of what it is given: by its three
\* passes, of which compose() leaves what composing the ordered decomposition code
\* point by code point gives, and by the shortcut, which only leaves alone what
\* normalizes to itself.
THEOREM NormalizesAlways == Spec => []Normalizes
  <1>1. Init => Folding /\ Normalizes
    BY DEF Init, Folding, Normalizes
  <1> QED
    BY <1>1, MovingAlways, FoldingNext, PTL DEF Spec

-----------------------------------------------------------------------------
(* Every string can be ordered.                                            *)

\* Behind j there are only marks, up to k.
MarksTo(s, j, k) == \A m \in j + 1 .. k : ~Starter(s[m])

LEMMA MarksSplit ==
  ASSUME NEW s, NEW j \in Nat, NEW k \in Nat, NEW l \in Nat, j <= k, k <= l
  PROVE  MarksTo(s, j, l) <=> MarksTo(s, j, k) /\ MarksTo(s, k, l)
  <1>1. \A m \in j + 1 .. k : m \in j + 1 .. l
    OBVIOUS
  <1>2. \A m \in k + 1 .. l : m \in j + 1 .. l
    OBVIOUS
  <1>3. \A m \in j + 1 .. l : m \in j + 1 .. k \/ m \in k + 1 .. l
    OBVIOUS
  <1> QED
    BY <1>1, <1>2, <1>3, Zenon DEF MarksTo

LEMMA BeforeIs ==
  ASSUME NEW s, NEW j \in Nat, NEW k \in Nat
  PROVE  /\ j < k => (Before(s, j, k) <=> ~(MarksTo(s, j, k) /\ get_ccc(s[k]) < get_ccc(s[j])))
         /\ k < j => (Before(s, j, k) <=> MarksTo(s, k, j) /\ get_ccc(s[j]) < get_ccc(s[k]))
  <1>1. k < j => ~(j < k)
    OBVIOUS
  <1> QED
    BY <1>1, Zenon DEF Before, Passes, MarksTo

LEMMA BeforeTransitive ==
  ASSUME NEW s, Classed(s), Len(s) \in Nat,
         NEW a \in 1 .. Len(s), NEW b \in 1 .. Len(s), NEW c \in 1 .. Len(s),
         Before(s, a, b), Before(s, b, c)
  PROVE  Before(s, a, c)
  <1> DEFINE x == get_ccc(s[a])
             y == get_ccc(s[b])
             z == get_ccc(s[c])
             ab == MarksTo(s, a, b)  ba == MarksTo(s, b, a)
             bc == MarksTo(s, b, c)  cb == MarksTo(s, c, b)
             ac == MarksTo(s, a, c)  ca == MarksTo(s, c, a)
  <1>1. x \in Nat /\ y \in Nat /\ z \in Nat /\ a \in Nat /\ b \in Nat /\ c \in Nat
    BY DEF Classed
  <1>2. ~Before(s, b, a) /\ ~Before(s, c, b)
    BY BeforeOneWay
  <1>3. a # b /\ b # c /\ a # c
    BY <1>2
  <1>4. /\ a < b => ~(ab /\ y < x)
        /\ b < a => ba /\ x < y
        /\ b < c => ~(bc /\ z < y)
        /\ c < b => cb /\ y < z
        /\ a < c => (Before(s, a, c) <=> ~(ac /\ z < x))
        /\ c < a => (Before(s, a, c) <=> ca /\ x < z)
    BY <1>1, BeforeIs
  <1>5. /\ a < b /\ b < c => (ac <=> ab /\ bc)
        /\ a < c /\ c < b => (ab <=> ac /\ cb)
        /\ b < a /\ a < c => (bc <=> ba /\ ac)
        /\ b < c /\ c < a => (ba <=> bc /\ ca)
        /\ c < a /\ a < b => (cb <=> ca /\ ab)
        /\ c < b /\ b < a => (ca <=> cb /\ ba)
    <2>1. \A i, j, k \in Nat : i < j /\ j < k =>
            (MarksTo(s, i, k) <=> MarksTo(s, i, j) /\ MarksTo(s, j, k))
      BY MarksSplit
    <2> QED
      BY <1>1, <2>1, Zenon
  <1> HIDE DEF x, y, z, ab, ba, bc, cb, ac, ca
  <1> QED
    BY <1>1, <1>3, <1>4, <1>5

\* so each place of the ordered string is some place of the given one.
LEMMA OrderedTakes ==
  ASSUME NEW d, IsString(d), Classed(d)
  PROVE  /\ IsString(Ordered(d)) /\ Len(Ordered(d)) = Len(d)
         /\ \A i \in 1 .. Len(d) : \E j \in 1 .. Len(d) : Ordered(d)[i] = d[j]
  <1> DEFINE N == Len(d)
             S == 1 .. N
             Ahead1(j) == {k \in S : Before(d, k, j)}
             Behind(j) == Cardinality(Ahead1(j))
             T == 0 .. N - 1
             f == [j \in S |-> Behind(j)]
  <1>1. N \in Nat /\ DOMAIN d = S
    BY StringIsMap
  <1>2. IsFiniteSet(S) /\ Cardinality(S) = N /\ IsFiniteSet(T) /\ Cardinality(T) = N
    <2>1. 1 \in Int /\ 0 \in Int /\ N \in Int /\ N - 1 \in Int
      BY <1>1
    <2>2. /\ Cardinality(1 .. N) = IF 1 > N THEN 0 ELSE N - 1 + 1
          /\ Cardinality(0 .. N - 1) = IF 0 > N - 1 THEN 0 ELSE N - 1 - 0 + 1
          /\ IsFiniteSet(1 .. N) /\ IsFiniteSet(0 .. N - 1)
      BY ONLY <2>1, FS_Interval
    <2> HIDE DEF N
    <2> QED
      BY <1>1, <2>2
  <1>3. \A j \in S : IsFiniteSet(Ahead1(j)) /\ Behind(j) \in Nat /\ j \notin Ahead1(j)
    <2> TAKE j \in S
    <2>1. IsFiniteSet(Ahead1(j))
      <3>1. Ahead1(j) \in SUBSET S
        OBVIOUS
      <3> HIDE DEF Ahead1, S
      <3> QED
        BY <1>2, <3>1, FS_Subset
    <2>2. ~Before(d, j, j)
      BY BeforeOneWay
    <2>3. Cardinality(Ahead1(j)) \in Nat
      <3> HIDE DEF Ahead1
      <3> QED
        BY <2>1, FS_CardinalityType
    <2> QED
      BY <2>1, <2>2, <2>3
  <1>4. \A j \in S : Behind(j) \in T
    <2> TAKE j \in S
    <2>1. Ahead1(j) \in SUBSET (S \ {j})
      BY <1>3
    <2>2. IsFiniteSet(S \ {j}) /\ Cardinality(S \ {j}) = N - 1
      <3> HIDE DEF S
      <3> QED
        BY <1>2, FS_RemoveElement
    <2>3. Behind(j) <= N - 1
      <3> DEFINE R == S \ {j}
      <3>1. IsFiniteSet(R) /\ Ahead1(j) \in SUBSET R
        BY <2>1, <2>2
      <3>2. Cardinality(Ahead1(j)) <= Cardinality(R)
        <4> HIDE DEF R, Ahead1
        <4> QED
          BY <3>1, FS_Subset
      <3> QED
        BY <2>2, <3>2
    <2> HIDE DEF Ahead1
    <2> QED
      BY <1>1, <1>3, <2>3
  <1>5. \A j \in S : \A k \in S : Before(d, j, k) => Behind(j) # Behind(k)
    <2> SUFFICES ASSUME NEW j \in S, NEW k \in S, Before(d, j, k), Behind(j) = Behind(k)
                 PROVE  FALSE
      OBVIOUS
    <2>1. Ahead1(j) \in SUBSET Ahead1(k) /\ j \in Ahead1(k)
      <3>1. \A m \in S : Before(d, m, j) => Before(d, m, k)
        BY <1>1, BeforeTransitive
      <3> QED
        BY <3>1
    <2>2. IsFiniteSet(Ahead1(k)) /\ j \notin Ahead1(j)
      BY <1>3
    <2>3. Cardinality(Ahead1(k)) = Cardinality(Ahead1(j)) => Ahead1(k) = Ahead1(j)
      <3> HIDE DEF Ahead1
      <3> QED
        BY <2>1, <2>2, FS_Subset
    <2> QED
      BY <2>1, <2>2, <2>3
  <1>6. \A j \in S : \A k \in S : j # k => Behind(j) # Behind(k)
    <2>1. \A j \in S : \A k \in S : j # k => Before(d, j, k) \/ Before(d, k, j)
      <3> TAKE j \in S
      <3> TAKE k \in S
      <3>1. j < k \/ j = k \/ k < j
        BY <1>1
      <3>2. j < k => ~(k < j)
        BY <1>1
      <3>3. k < j => ~(j < k)
        BY <1>1
      <3> QED
        BY <3>1, <3>2, <3>3, Zenon DEF Before
    <2> HIDE DEF Behind
    <2> QED
      BY <1>5, <2>1
  <1> HIDE DEF Behind
  <1>7. f \in Injection(S, T)
    BY <1>4, <1>6 DEF Injection, IsInjective
  <1>8. f \in Surjection(S, T)
    <2> HIDE DEF f, S, T
    <2> QED
      BY <1>2, <1>7, FS_Injection
  <1>9. \A i \in S : \E j \in S : Behind(j) = i - 1
    <2>1. \A i \in S : i - 1 \in T
      BY <1>1
    <2> QED
      BY <1>8, <2>1 DEF Surjection
  <1> DEFINE o == Ordered(d)
  <1>10. o = [i \in S |-> d[CHOOSE j \in S : Behind(j) = i - 1]]
    BY <1>1 DEF Ordered, Behind
  <1>11. \A i \in S : \E j \in S : o[i] = d[j]
    <2> TAKE i \in S
    <2> DEFINE j == CHOOSE j \in S : Behind(j) = i - 1
    <2>1. j \in S
      BY <1>9
    <2>2. o[i] = d[j]
      <3> HIDE DEF o
      <3> QED
        BY <1>10
    <2> QED
      BY <2>1, <2>2
  <1>12. o = [i \in S |-> o[i]]
    <2> HIDE DEF o
    <2> QED
      BY <1>10
  <1>13. IsString(o) /\ Len(o) = N
    <2> HIDE DEF o
    <2> QED
      BY <1>1, <1>12, MapIsString
  <1> QED
    BY <1>11, <1>13

-----------------------------------------------------------------------------
(* Where the code points of a composed string come from.                   *)

\* What is decomposed is a composite of the table.
Whole(t) ==
  \A j \in 1 .. Len(t) :
    Canonical(t[j]) = <<>> \/ \E b, c : Composes(b, c) /\ t[j] = Composition[<<b, c>>]

\* What a starter began with did not compose with the one before it.
Apart(t) ==
  \A j \in 2 .. Len(t) :
    Starter(t[j]) /\ ~Syllable(t[j]) => Combine(t[j - 1], Pieces(t[j])[1]) = {}

\* A mark was composed with the starter at j past another of a lower class.
Overtaken(t, j) ==
  \E m \in j + 1 .. Len(t) : MarksTo(t, j, m) /\ trailing_ccc(t[j]) > get_ccc(t[m])

\* The marks behind a starter do not compose with it, or are blocked, unless they
\* were there before it became what it is.
Keeps(t) ==
  \A j \in 1 .. Len(t) : \A k \in j + 1 .. Len(t) :
    Starter(t[j]) /\ MarksTo(t, j, k) =>
      \/ Combine(t[j], t[k]) = {}
      \/ k > j + 1 /\ get_ccc(t[k - 1]) >= get_ccc(t[k])
      \/ Overtaken(t, j)

Stable(t) == IsString(t) /\ Classed(t) /\ Whole(t) /\ Apart(t) /\ Keeps(t)

\* A composite is a syllable that a jamo ended, or one of the table.
LEMMA CombineMakes ==
  ASSUME NEW b, NEW c, NEW d \in Combine(b, c)
  PROVE  \/ Syllable(d) /\ Starter(c)
         \/ Composes(b, c) /\ d = Composition[<<b, c>>]
  <1>1. CASE HangulL(b) /\ HangulV(c)
    BY <1>1, CombineVowel, OpenSyllables, HangulApart DEF OpenSyllable
  <1>2. CASE OpenSyllable(b) /\ HangulT(c)
    BY <1>2, CombineFinal, ClosedSyllables, HangulApart
  <1>3. CASE Composes(b, c)
    BY <1>3, CombineTable
  <1> QED
    BY <1>1, <1>2, <1>3, CombineNothing

LEMMA CompositeIs ==
  ASSUME NEW b, NEW c, Composes(b, c), NEW d, d = Composition[<<b, c>>]
  PROVE  /\ Len(Canonical(d)) >= 2 /\ Composed(Canonical(d)) = <<d>>
         /\ Canonical(d) # <<>> /\ Pieces(d) = Canonical(d)
         /\ Canonical(d)[1] = Pieces(b)[1] /\ trailing_ccc(d) = get_ccc(c)
         /\ ~Syllable(d) /\ Starter(d) /\ Canonical(c) = <<>>
  <1> DEFINE pair == <<b, c>>
             t == Pieces(b)
             w == Canonical(d)
  <1>1. pair \in DOMAIN Composition /\ pair[1] = b /\ pair[2] = c /\ d = Composition[pair]
    BY DEF Composes
  <1>2. /\ b \in DOMAIN Decomposition /\ Canonical(c) = <<>>
        /\ w = Append(t, c) /\ Composed(w) = <<d>>
    <2> HIDE DEF pair
    <2> QED
      BY <1>1, CompositesAssumption, Zenon
  <1>3. IsString(t) /\ Len(t) \in Nat /\ Len(t) >= 1
    <2>1. IsString(t) /\ Len(t) = More(b) + 1 /\ More(b) \in Nat
      BY <1>2, PiecesOf
    <2> HIDE DEF t
    <2> QED
      BY <2>1
  <1> HIDE DEF t
  <1>4. /\ Len(Append(t, c)) = Len(t) + 1 /\ Append(t, c)[Len(t) + 1] = c
        /\ \A j \in 1 .. Len(t) : Append(t, c)[j] = t[j]
    BY <1>3, AppendIs
  <1>5. Len(w) = Len(t) + 1 /\ w[Len(w)] = c /\ w[1] = t[1] /\ Len(w) >= 2
    <2>1. Len(w) = Len(t) + 1 /\ w[Len(t) + 1] = c /\ \A j \in 1 .. Len(t) : w[j] = t[j]
      BY <1>2, <1>4
    <2> HIDE DEF w
    <2> QED
      BY <1>3, <2>1
  <1>6. w # <<>>
    BY <1>5
  <1>7. ~Syllable(d) /\ Starter(d)
    BY TableApart DEF Hangul
  <1>8. Pieces(d) = w
    BY <1>6, <1>7 DEF Pieces
  <1>9. trailing_ccc(d) = get_ccc(c)
    BY <1>5, <1>6, Zenon DEF trailing_ccc, Last
  <1> QED
    BY <1>2, <1>5, <1>6, <1>7, <1>8, <1>9 DEF t

\* What follows without composing keeps the string so,
LEMMA AppendStable ==
  ASSUME NEW t, Stable(t), NEW c, get_ccc(c) \in Nat, Canonical(c) = <<>>,
         NEW i \in Nat, LastStarter(t, i), i <= Len(t),
         i = 0 \/ Combine(t[i], c) = {} \/ Blocked(t, i, c)
  PROVE  Stable(Append(t, c))
  <1> DEFINE w == Append(t, c)
             N == Len(t)
  <1>1. /\ IsString(t) /\ N \in Nat /\ \A j \in 1 .. N : get_ccc(t[j]) \in Nat
        /\ Whole(t) /\ Apart(t) /\ Keeps(t)
    BY StringIsMap DEF Stable, Classed
  <1>2. IsString(w) /\ Len(w) = N + 1 /\ w[N + 1] = c /\ \A j \in 1 .. N : w[j] = t[j]
    BY <1>1, AppendIs
  <1> HIDE DEF w
  <1>3. /\ \A j \in 1 .. N + 1 : j \in 1 .. N \/ j = N + 1
        /\ \A j \in 2 .. N + 1 : j - 1 \in 1 .. N /\ (j \in 2 .. N \/ j = N + 1)
        /\ \A j \in 2 .. N : j \in 1 .. N /\ j - 1 \in 1 .. N
    BY <1>1
  <1>4. Classed(w) /\ Whole(w)
    BY <1>1, <1>2, <1>3, SMTT(60) DEF Classed, Whole
  <1>5. \A j \in 1 .. N : Starter(t[j]) => j <= i
    <2>1. \A j \in 1 .. N : j <= i \/ j \in i + 1 .. N
      BY <1>1
    <2> QED
      BY <2>1 DEF LastStarter
  <1>6. Apart(w)
    <2> SUFFICES ASSUME NEW j \in 2 .. N + 1, Starter(w[j]), ~Syllable(w[j])
                 PROVE  Combine(w[j - 1], Pieces(w[j])[1]) = {}
      BY <1>2 DEF Apart
    <2>1. CASE j \in 2 .. N
      BY <1>1, <1>2, <1>3, <2>1 DEF Apart
    <2>2. CASE j = N + 1
      <3>1. w[j] = c /\ w[j - 1] = t[N] /\ N \in 1 .. N
        BY <1>1, <1>2, <1>3, <2>2
      <3>2. Pieces(c)[1] = c
        BY <3>1 DEF Pieces
      <3>3. CASE Starter(t[N])
        <4>1. i = N /\ i # 0
          BY <1>1, <1>5, <3>1, <3>3
        <4>2. ~Blocked(t, i, c)
          BY <1>1, <4>1 DEF Blocked
        <4> QED
          BY <3>1, <3>2, <4>1, <4>2
      <3>4. CASE ~Starter(t[N])
        BY <3>1, <3>2, <3>4, CombinesStarters
      <3> QED
        BY <3>3, <3>4
    <2> QED
      BY <1>3, <2>1, <2>2
  <1>7. ASSUME NEW j \in 1 .. N, NEW k \in j + 1 .. N
        PROVE  /\ j \in 1 .. Len(w) /\ k \in 1 .. N /\ k - 1 \in 1 .. N
               /\ MarksTo(w, j, k) <=> MarksTo(t, j, k)
    <2>1. \A m \in j + 1 .. k : m \in 1 .. N
      BY <1>7
    <2>2. j \in 1 .. Len(w) /\ k \in 1 .. N /\ k - 1 \in 1 .. N
      BY <1>1, <1>2, <1>7
    <2> QED
      BY <1>2, <2>1, <2>2 DEF MarksTo
  <1>8. Keeps(w)
    <2> SUFFICES ASSUME NEW j \in 1 .. N + 1, NEW k \in j + 1 .. N + 1,
                        Starter(w[j]), MarksTo(w, j, k)
                 PROVE  \/ Combine(w[j], w[k]) = {}
                        \/ k > j + 1 /\ get_ccc(w[k - 1]) >= get_ccc(w[k])
                        \/ Overtaken(w, j)
      BY <1>2 DEF Keeps
    <2>1. j \in 1 .. N /\ w[j] = t[j] /\ (k \in j + 1 .. N \/ k = N + 1)
      BY <1>1, <1>2, SMTT(60)
    <2>2. CASE k \in j + 1 .. N
      <3>1. w[k] = t[k] /\ w[k - 1] = t[k - 1] /\ MarksTo(t, j, k)
        BY <1>2, <1>7, <2>1, <2>2
      <3>2. \/ Combine(t[j], t[k]) = {}
            \/ k > j + 1 /\ get_ccc(t[k - 1]) >= get_ccc(t[k])
            \/ Overtaken(t, j)
        BY <1>1, <2>1, <2>2, <3>1 DEF Keeps
      <3>3. Overtaken(t, j) => Overtaken(w, j)
        <4> SUFFICES ASSUME NEW m \in j + 1 .. N, MarksTo(t, j, m),
                            trailing_ccc(t[j]) > get_ccc(t[m])
                     PROVE  Overtaken(w, j)
          BY DEF Overtaken
        <4>1. m \in j + 1 .. Len(w) /\ w[m] = t[m] /\ MarksTo(w, j, m)
          BY <1>1, <1>2, <1>7, <2>1
        <4> QED
          BY <2>1, <4>1 DEF Overtaken
      <3> QED
        BY <2>1, <3>1, <3>2, <3>3
    <2>3. CASE k = N + 1
      <3>1. \A m \in j + 1 .. N : ~Starter(t[m])
        <4>1. \A m \in j + 1 .. N : m \in j + 1 .. k /\ m \in 1 .. N
          BY <1>1, <2>1, <2>3
        <4> QED
          BY <1>2, <4>1 DEF MarksTo
      <3>2. i = j /\ i # 0
        <4>1. j <= i
          BY <1>5, <2>1
        <4>2. i \in 1 .. N /\ Starter(t[i])
          BY <1>1, <2>1, <4>1 DEF LastStarter
        <4>3. ~(i \in j + 1 .. N)
          BY <3>1, <4>2
        <4> QED
          BY <1>1, <2>1, <4>1, <4>2, <4>3
      <3>3. w[k] = c /\ w[j] = t[i]
        BY <1>2, <2>1, <2>3, <3>2
      <3>4. CASE Combine(t[i], c) = {}
        BY <3>3, <3>4
      <3>5. CASE Blocked(t, i, c)
        <4>1. i < N /\ get_ccc(t[N]) >= get_ccc(c)
          BY <3>5 DEF Blocked
        <4>2. k > j + 1 /\ w[k - 1] = t[N]
          BY <1>1, <1>2, <2>1, <2>3, <3>2, <4>1
        <4> QED
          BY <3>3, <4>1, <4>2
      <3> QED
        BY <3>2, <3>4, <3>5
    <2> QED
      BY <2>1, <2>2, <2>3
  <1> QED
    BY <1>2, <1>4, <1>6, <1>8 DEF Stable, w

\* and so does what composes,
LEMMA ReplaceStable ==
  ASSUME NEW t, Stable(t), NEW c, get_ccc(c) \in Nat, NEW i \in Nat, LastStarter(t, i),
         i # 0, ~Blocked(t, i, c), NEW d \in Combine(t[i], c), NEW w, w = [t EXCEPT ![i] = d]
  PROVE  Stable(w)
  <1> DEFINE N == Len(t)
  <1>1. /\ IsString(t) /\ N \in Nat /\ \A j \in 1 .. N : get_ccc(t[j]) \in Nat
        /\ Whole(t) /\ Apart(t) /\ Keeps(t)
    BY StringIsMap DEF Stable, Classed
  <1>2. /\ IsString(w) /\ Len(w) = N
        /\ \A j \in 1 .. N : w[j] = IF j = i THEN d ELSE t[j]
    <2>1. /\ IsString([t EXCEPT ![i] = d]) /\ Len([t EXCEPT ![i] = d]) = Len(t)
          /\ \A j \in 1 .. Len(t) : [t EXCEPT ![i] = d][j] = IF j = i THEN d ELSE t[j]
      BY ONLY <1>1, ExceptIsString
    <2> QED
      BY ONLY <2>1, w = [t EXCEPT ![i] = d]
  <1>3. i \in 1 .. N /\ Starter(t[i]) /\ Starter(d) /\ w[i] = d
    BY <1>2, CombinesStarters DEF LastStarter
  <1>4. \A j \in 1 .. N : j # i => w[j] = t[j]
    BY <1>2
  <1>5. \A j \in 1 .. N : Starter(w[j]) <=> Starter(t[j])
    BY <1>3, <1>4
  <1>6. \A j \in 1 .. N : i < j => ~Starter(t[j]) /\ ~Starter(w[j])
    <2>1. \A j \in 1 .. N : i < j => j \in i + 1 .. N
      BY <1>1
    <2> QED
      BY <1>5, <2>1 DEF LastStarter
  <1>7. Classed(w)
    <2>1. get_ccc(d) \in Nat
      BY <1>3 DEF Starter
    <2> QED
      BY <1>1, <1>2, <1>3, <1>4, <2>1 DEF Classed
  <1>8. \/ Syllable(d) /\ Starter(c)
        \/ Composes(t[i], c) /\ d = Composition[<<t[i], c>>]
    BY CombineMakes
  <1>9. Whole(w)
    <2>1. Canonical(d) = <<>> \/ \E a, b : Composes(a, b) /\ d = Composition[<<a, b>>]
      BY <1>8, Zenon DEF Canonical
    <2>2. ASSUME NEW j \in 1 .. N
          PROVE  Canonical(w[j]) = <<>> \/ \E a, b : Composes(a, b) /\ w[j] = Composition[<<a, b>>]
      <3>1. CASE j = i
        BY <1>3, <2>1, <3>1, Zenon
      <3>2. CASE j # i
        <4>1. Canonical(t[j]) = <<>> \/ \E a, b : Composes(a, b) /\ t[j] = Composition[<<a, b>>]
          BY <1>1, Zenon DEF Whole
        <4>2. w[j] = t[j]
          BY <1>4, <3>2
        <4> QED
          BY <4>1, <4>2, Zenon
      <3> QED
        BY <3>1, <3>2
    <2> QED
      BY <1>2, <2>2, Zenon DEF Whole
  <1>10. Apart(w)
    <2> SUFFICES ASSUME NEW j \in 2 .. N, Starter(w[j]), ~Syllable(w[j])
                 PROVE  Combine(w[j - 1], Pieces(w[j])[1]) = {}
      BY <1>2 DEF Apart
    <2>1. j \in 1 .. N /\ j - 1 \in 1 .. N /\ ~(i < j) /\ j - 1 # i
      BY <1>1, <1>3, <1>6
    <2>2. w[j - 1] = t[j - 1] /\ Starter(t[j])
      BY <1>4, <1>5, <2>1
    <2>3. CASE j = i
      <3>1. Composes(t[i], c) /\ d = Composition[<<t[i], c>>] /\ w[j] = d
        BY <1>3, <1>8, <2>3
      <3>2. Pieces(d) = Canonical(d) /\ Canonical(d)[1] = Pieces(t[i])[1]
        BY <3>1, CompositeIs
      <3>3. ~Syllable(t[i])
        BY <3>1, TableApart, Zenon DEF Hangul
      <3>4. Combine(t[j - 1], Pieces(t[j])[1]) = {}
        BY <1>1, <1>3, <2>3, <3>3 DEF Apart
      <3> QED
        BY <2>2, <2>3, <3>1, <3>2, <3>4
    <2>4. CASE j # i
      <3>1. w[j] = t[j]
        BY <1>4, <2>1, <2>4
      <3> QED
        BY <1>1, <2>2, <3>1 DEF Apart
    <2> QED
      BY <2>3, <2>4
  <1>11. \A j \in 1 .. N : \A k \in j + 1 .. N : j < i /\ MarksTo(w, j, k) => k < i
    <2> SUFFICES ASSUME NEW j \in 1 .. N, NEW k \in j + 1 .. N, j < i, MarksTo(w, j, k)
                 PROVE  k < i
      OBVIOUS
    <2>1. ~(i \in j + 1 .. k)
      BY <1>3, <1>5 DEF MarksTo
    <2> QED
      BY <1>1, <1>3, <2>1
  <1>12. \A j \in 1 .. N : \A k \in j + 1 .. N : MarksTo(w, j, k) <=> MarksTo(t, j, k)
    <2> TAKE j \in 1 .. N
    <2> TAKE k \in j + 1 .. N
    <2>1. \A m \in j + 1 .. k : m \in 1 .. N
      BY <1>1
    <2> QED
      BY <1>5, <2>1, Zenon DEF MarksTo
  <1>13. Keeps(w)
    <2> SUFFICES ASSUME NEW j \in 1 .. N, NEW k \in j + 1 .. N,
                        Starter(w[j]), MarksTo(w, j, k)
                 PROVE  \/ Combine(w[j], w[k]) = {}
                        \/ k > j + 1 /\ get_ccc(w[k - 1]) >= get_ccc(w[k])
                        \/ Overtaken(w, j)
      BY <1>2 DEF Keeps
    <2>1. j <= i /\ MarksTo(t, j, k)
      <3>1. ~(i < j)
        BY <1>6
      <3>2. MarksTo(t, j, k)
        BY <1>12, Zenon
      <3> QED
        BY <1>1, <1>3, <3>1, <3>2
    <2>2. CASE j < i
      <3>1. k < i /\ k \in 1 .. N /\ k - 1 \in 1 .. N /\ k - 1 # i /\ k # i /\ j # i
        <4>1. k < i
          BY <1>11, <2>2, Zenon
        <4> QED
          BY <1>1, <1>3, <2>2, <4>1, SMTT(60)
      <3>2. w[j] = t[j] /\ w[k] = t[k] /\ w[k - 1] = t[k - 1]
        BY <1>4, <3>1
      <3>3. \/ Combine(t[j], t[k]) = {}
            \/ k > j + 1 /\ get_ccc(t[k - 1]) >= get_ccc(t[k])
            \/ Overtaken(t, j)
        BY <1>1, <2>1, <3>2 DEF Keeps
      <3>4. Overtaken(t, j) => Overtaken(w, j)
        <4> SUFFICES ASSUME NEW m \in j + 1 .. N, MarksTo(t, j, m),
                            trailing_ccc(t[j]) > get_ccc(t[m])
                     PROVE  Overtaken(w, j)
          BY DEF Overtaken
        <4>1. MarksTo(w, j, m) /\ m \in 1 .. N
          <5>1. MarksTo(w, j, m)
            BY <1>12, Zenon
          <5> QED
            BY <1>1, <5>1
        <4>2. m # i
          <5>1. m < i
            BY <1>11, <2>2, <4>1, Zenon
          <5> QED
            BY <1>3, <5>1
        <4>3. w[m] = t[m]
          BY <1>4, <4>1, <4>2
        <4> QED
          BY <1>2, <3>2, <4>1, <4>3 DEF Overtaken
      <3> QED
        BY <3>2, <3>3, <3>4
    <2>3. CASE j = i
      <3>1. i < N /\ N \in i + 1 .. N /\ N \in 1 .. N /\ N # i
        BY <1>1, <1>3, <2>3
      <3>2. get_ccc(t[N]) \in Nat /\ get_ccc(t[N]) < get_ccc(c)
        BY <1>1, <3>1, SMTT(60) DEF Blocked
      <3>3. ~Starter(c)
        BY <3>2 DEF Starter
      <3>4. trailing_ccc(d) = get_ccc(c)
        BY <1>8, <3>3, CompositeIs
      <3>5. w[N] = t[N]
        BY <1>4, <3>1
      <3>6. MarksTo(w, i, N)
        BY <1>1, <1>2, <1>3, <1>6 DEF MarksTo
      <3>7. trailing_ccc(w[i]) > get_ccc(w[N])
        BY <1>3, <3>2, <3>4, <3>5
      <3>8. Overtaken(w, i)
        BY <1>2, <3>1, <3>6, <3>7 DEF Overtaken
      <3> QED
        BY <2>3, <3>8
    <2> QED
      BY <1>1, <1>3, <2>1, <2>2, <2>3
  <1> QED
    BY <1>2, <1>7, <1>9, <1>10, <1>13 DEF Stable

\* so each step of composing does,
LEMMA ComposesStable ==
  ASSUME NEW t, Stable(t), NEW c, get_ccc(c) \in Nat, Canonical(c) = <<>>
  PROVE  Stable(ComposeWith(t, c))
  <1>1. IsString(t) /\ Len(t) \in Nat
    BY StringIsMap DEF Stable
  <1>2. PICK i \in Nat : LastStarter(t, i) /\ i <= Len(t)
    BY <1>1, LastStarterExists
  <1>3. CASE i = 0 \/ Combine(t[i], c) = {} \/ Blocked(t, i, c)
    <2>1. ComposeWith(t, c) = Append(t, c)
      BY <1>1, <1>2, <1>3, Appends
    <2>2. Stable(Append(t, c))
      BY <1>2, <1>3, AppendStable
    <2> QED
      BY <2>1, <2>2
  <1>4. CASE ~(i = 0 \/ Combine(t[i], c) = {} \/ Blocked(t, i, c))
    <2>1. i # 0 /\ ~Blocked(t, i, c) /\ \E d : d \in Combine(t[i], c)
      BY <1>4
    <2>2. PICK d : d \in Combine(t[i], c)
      BY <2>1
    <2>3. ComposeWith(t, c) = [t EXCEPT ![i] = d]
      BY <1>1, <1>2, <2>1, <2>2, Replaces, SMTT(60)
    <2>4. Stable([t EXCEPT ![i] = d])
      BY <1>2, <2>1, <2>2, ReplaceStable
    <2> QED
      BY <2>3, <2>4
  <1> QED
    BY <1>3, <1>4

\* and what is composed from full decompositions is stable.
LEMMA FoldsStable ==
  ASSUME NEW o, IsString(o), NEW u, Folds(u, o),
         \A j \in 1 .. Len(o) : get_ccc(o[j]) \in Nat /\ Canonical(o[j]) = <<>>
  PROVE  Stable(u[Len(o)])
  <1> DEFINE N == Len(o)
             Bad == {n \in 0 .. N : ~Stable(u[n])}
  <1>1. N \in Nat
    BY StringIsMap
  <1>2. u[0] = <<>> /\ \A n \in 1 .. N : u[n] = ComposeWith(u[n - 1], o[n])
    BY DEF Folds
  <1>3. Stable(<<>>)
    <2>1. IsString(<<>>) /\ Len(<<>>) = 0
      BY DEF IsString
    <2> QED
      BY <2>1 DEF Stable, Classed, Whole, Apart, Keeps
  <1>4. Bad = {}
    <2> SUFFICES ASSUME Bad # {} PROVE FALSE
      OBVIOUS
    <2>1. Bad \in SUBSET Nat
      BY <1>1
    <2>2. PICK n \in Bad : \A m \in Bad : n <= m
      <3> HIDE DEF Bad
      <3> QED
        BY <2>1, LeastOf
    <2>3. n \in 0 .. N /\ ~Stable(u[n])
      OBVIOUS
    <2>4. n # 0
      BY <1>2, <1>3, <2>3
    <2>5. n \in 1 .. N /\ n - 1 \in 0 .. N /\ ~(n <= n - 1)
      BY <1>1, <2>3, <2>4
    <2>6. Stable(u[n - 1])
      BY <2>2, <2>5
    <2>7. Stable(ComposeWith(u[n - 1], o[n]))
      BY <2>5, <2>6, ComposesStable
    <2> QED
      BY <1>2, <2>3, <2>5, <2>7
  <1> QED
    BY <1>1, <1>4

-----------------------------------------------------------------------------
(* The shortcut rejects nothing else than it must.                          *)

\* Vowels and final consonants are made by nothing.
LEMMA OthersApart ==
  ASSUME NEW c, HangulV(c) \/ HangulT(c)
  PROVE  /\ Starter(c) /\ ~Syllable(c)
         /\ \A a, b : Composes(a, b) => c # Composition[<<a, b>>]
  <1>1. Starter(c)
    BY HangulApart
  <1>2. ~Syllable(c)
    BY CompositionAssumption, Zenon DEF HangulV, HangulT, Syllable
  <1>3. \A pair \in DOMAIN Composition : ~(HangulV(Composition[pair]) \/ HangulT(Composition[pair]))
    BY CompositionAssumption, Zenon DEF HangulV, HangulT
  <1>4. \A a, b : Composes(a, b) => <<a, b>> \in DOMAIN Composition
    BY DEF Composes
  <1> QED
    BY <1>1, <1>2, <1>3, <1>4, Zenon

\* A stable string passes each check of is_already_nfc() but that of the order of
\* marks: of its decompositions, and of what it would compose.
LEMMA StableParts ==
  ASSUME NEW s, Stable(s), NEW j \in 1 .. Len(s)
  PROVE  /\ ~decomposition_is_not_nfc(s, j)
         /\ ~Starter(s[j]) => trailing_ccc(s[j]) = get_ccc(s[j])
  <1>1. IsString(s) /\ Len(s) \in Nat /\ Whole(s) /\ Apart(s)
    BY StringIsMap DEF Stable
  <1>2. CASE Canonical(s[j]) = <<>>
    <2>1. ~decomposition_is_not_nfc(s, j)
      BY <1>2, Zenon DEF decomposition_is_not_nfc
    <2>2. trailing_ccc(s[j]) = get_ccc(s[j])
      BY <1>2, Zenon DEF trailing_ccc
    <2> QED
      BY <2>1, <2>2
  <1>3. CASE Canonical(s[j]) # <<>>
    <2>1. \E b, c : Composes(b, c) /\ s[j] = Composition[<<b, c>>]
      BY <1>1, <1>3, Zenon DEF Whole
    <2>2. PICK b, c : Composes(b, c) /\ s[j] = Composition[<<b, c>>]
      BY <2>1, Zenon
    <2> DEFINE d == s[j]
               w == Canonical(d)
    <2>3. /\ Len(w) >= 2 /\ Composed(w) = <<d>> /\ Pieces(d) = w
          /\ ~Syllable(d) /\ Starter(d)
      BY <2>2, CompositeIs
    <2>4. ~ComposesBackward(s, j)
      <3> SUFFICES ASSUME j > 1, Composes(s[j - 1], w[1]) PROVE FALSE
        BY DEF ComposesBackward
      <3>1. j \in 2 .. Len(s)
        BY <1>1
      <3>2. Combine(s[j - 1], w[1]) = {}
        BY <1>1, <2>3, <3>1 DEF Apart
      <3>3. Combine(s[j - 1], w[1]) = {Composition[<<s[j - 1], w[1]>>]}
        BY CombineTable
      <3> HIDE DEF w, d
      <3> QED
        BY <3>2, <3>3
    <2>5. ~decomposition_is_not_nfc(s, j)
      <3>1. ~(Len(w) = 1)
        <4> HIDE DEF w
        <4> QED
          BY <2>3, SMTT(60)
      <3> QED
        BY <2>3, <2>4, <3>1, Zenon DEF decomposition_is_not_nfc
    <2> QED
      BY <2>3, <2>5
  <1> QED
    BY <1>2, <1>3

\* Nothing a mark was composed past is left behind the composite.
LEMMA NoneOvertaken ==
  ASSUME NEW s, Stable(s), ~MarksOutOfOrder(s), NEW j \in 1 .. Len(s), trailing_ccc(s[j]) \in Nat
  PROVE  ~Overtaken(s, j)
  <1> DEFINE N == Len(s)
             T == trailing_ccc(s[j])
             Bad == {m \in j + 1 .. N : MarksTo(s, j, m) /\ T > get_ccc(s[m])}
  <1>1. N \in Nat /\ \A m \in 1 .. N : get_ccc(s[m]) \in Nat
    BY StringIsMap DEF Stable, Classed
  <1> SUFFICES ASSUME Bad # {} PROVE FALSE
    <2>1. Overtaken(s, j) => \E m \in j + 1 .. N : MarksTo(s, j, m) /\ T > get_ccc(s[m])
      BY DEF Overtaken
    <2> QED
      BY <2>1
  <1>2. Bad \in SUBSET Nat
    BY <1>1
  <1>3. PICK m \in Bad : \A n \in Bad : m <= n
    <2> HIDE DEF Bad
    <2> QED
      BY <1>2, LeastOf
  <1>4. m \in j + 1 .. N /\ MarksTo(s, j, m) /\ T > get_ccc(s[m])
    OBVIOUS
  <1>5. /\ m \in 1 .. N /\ m \in 2 .. N /\ m - 1 \in 1 .. N
        /\ m - 1 = j \/ m - 1 \in j + 1 .. m
        /\ m - 1 \in j + 1 .. m => m - 1 \in j + 1 .. N
        /\ m \in j + 1 .. m /\ m - 1 \in Nat /\ ~(m <= m - 1)
    BY <1>1, <1>4
  <1>6. ~Starter(s[m])
    BY <1>4, <1>5 DEF MarksTo
  <1>7. ~(trailing_ccc(s[m - 1]) > get_ccc(s[m]))
    BY <1>5, <1>6, Zenon DEF MarksOutOfOrder, Starter
  <1>8. m - 1 # j
    <2> SUFFICES ASSUME m - 1 = j PROVE FALSE
      OBVIOUS
    <2>1. trailing_ccc(s[m - 1]) = T
      OBVIOUS
    <2> HIDE DEF T
    <2> QED
      BY <1>4, <1>7, <2>1
  <1>9. m - 1 \in j + 1 .. m /\ m - 1 \in j + 1 .. N
    BY <1>5, <1>8
  <1>10. MarksTo(s, j, m - 1) /\ ~Starter(s[m - 1])
    <2>1. \A n \in j + 1 .. m - 1 : n \in j + 1 .. m
      BY <1>1, <1>4
    <2> QED
      BY <1>4, <1>9, <2>1 DEF MarksTo
  <1>11. trailing_ccc(s[m - 1]) = get_ccc(s[m - 1])
    BY <1>5, <1>10, StableParts
  <1>12. ~(T > get_ccc(s[m - 1]))
    <2> SUFFICES ASSUME T > get_ccc(s[m - 1]) PROVE FALSE
      OBVIOUS
    <2>1. m - 1 \in Bad
      BY <1>9, <1>10
    <2> QED
      BY <1>3, <1>5, <2>1
  <1>13. get_ccc(s[m - 1]) \in Nat /\ get_ccc(s[m]) \in Nat /\ T \in Nat
    BY <1>1, <1>5
  <1> HIDE DEF T
  <1> QED
    BY <1>4, <1>7, <1>11, <1>12, <1>13

LEMMA StableAccepted ==
  ASSUME NEW s, Stable(s), ~MarksOutOfOrder(s),
         \A j \in 1 .. Len(s) : trailing_ccc(s[j]) \in Nat
  PROVE  is_already_nfc(s)
  <1> DEFINE N == Len(s)
  <1>1. /\ IsString(s) /\ N \in Nat /\ DOMAIN s = 1 .. N /\ Apart(s) /\ Keeps(s) /\ Whole(s)
        /\ \A m \in 1 .. N : get_ccc(s[m]) \in Nat
    BY StringIsMap DEF Stable, Classed
  <1>2. \A j \in DOMAIN s : ~decomposition_is_not_nfc(s, j)
    BY <1>1, StableParts
  <1>3. ASSUME NEW j \in 1 .. N - 1, NEW c, c = s[j + 1], Starter(c), ~Syllable(c), Canonical(c) = <<>>
        PROVE  Combine(s[j], c) = {}
    <2>1. j + 1 \in 2 .. N /\ (j + 1) - 1 = j
      BY <1>1
    <2>2. Pieces(c)[1] = c
      <3>1. Pieces(c) = <<c>>
        BY <1>3, Zenon DEF Pieces
      <3> QED
        BY <3>1
    <2>3. Combine(s[(j + 1) - 1], Pieces(s[j + 1])[1]) = {}
      BY <1>1, <1>3, <2>1 DEF Apart
    <2> QED
      BY <1>3, <2>1, <2>2, <2>3
  <1>4. ASSUME NEW j \in 1 .. N - 1
        PROVE  ~(HangulL(s[j]) /\ HangulV(s[j + 1])) /\ ~(OpenSyllable(s[j]) /\ HangulT(s[j + 1]))
    <2> DEFINE c == s[j + 1]
    <2>1. j + 1 \in 1 .. N
      BY <1>1
    <2>2. HangulV(c) \/ HangulT(c) => Starter(c) /\ ~Syllable(c) /\ Canonical(c) = <<>>
      <3>1. HangulV(c) \/ HangulT(c) =>
              /\ Starter(c) /\ ~Syllable(c)
              /\ \A a, b : Composes(a, b) => c # Composition[<<a, b>>]
        BY OthersApart
      <3>2. Canonical(c) = <<>> \/ \E a, b : Composes(a, b) /\ c = Composition[<<a, b>>]
        BY <1>1, <2>1, Zenon DEF Whole
      <3> HIDE DEF c
      <3> QED
        BY <3>1, <3>2, Zenon
    <2>3. HangulV(c) \/ HangulT(c) => Combine(s[j], c) = {}
      BY <1>3, <2>2
    <2>4. HangulL(s[j]) /\ HangulV(c) => Combine(s[j], c) # {}
      BY CombineVowel
    <2>5. OpenSyllable(s[j]) /\ HangulT(c) => Combine(s[j], c) # {}
      BY CombineFinal
    <2> QED
      BY <2>3, <2>4, <2>5
  <1>5. ASSUME NEW j \in 1 .. N, NEW k \in 1 .. N, j < k,
               \A m \in j + 1 .. k - 1 : get_ccc(s[m]) # 0,
               k > j + 1 => get_ccc(s[k - 1]) < get_ccc(s[k]), Composes(s[j], s[k])
        PROVE  FALSE
    <2>1. /\ Starter(s[j]) /\ ~Syllable(s[k]) /\ Canonical(s[k]) = <<>>
          /\ Combine(s[j], s[k]) # {}
      <3>1. Starter(s[j]) /\ ~Syllable(s[k])
        BY <1>5, TableApart
      <3>2. Canonical(s[k]) = <<>>
        BY <1>5, CompositeIs
      <3>3. Combine(s[j], s[k]) = {Composition[<<s[j], s[k]>>]}
        BY <1>5, CombineTable
      <3> QED
        BY <3>1, <3>2, <3>3
    <2>2. k = j + 1 \/ k > j + 1
      BY <1>5
    <2>3. CASE Starter(s[k])
      <3>1. ~(k > j + 1)
        <4> SUFFICES ASSUME k > j + 1 PROVE FALSE
          OBVIOUS
        <4>1. k - 1 \in 1 .. N
          BY <1>1
        <4>2. get_ccc(s[k - 1]) \in Nat /\ get_ccc(s[k]) = 0 /\ get_ccc(s[k - 1]) < get_ccc(s[k])
          BY <1>1, <1>5, <2>3, <4>1 DEF Starter
        <4> QED
          BY <4>2
      <3>2. k = j + 1 /\ j \in 1 .. N - 1
        BY <1>1, <2>2, <3>1
      <3>3. Combine(s[j], s[k]) = {}
        BY <1>3, <2>1, <2>3, <3>2
      <3> QED
        BY <2>1, <3>3
    <2>4. CASE ~Starter(s[k])
      <3>1. k \in j + 1 .. N
        BY <1>1, <1>5
      <3>2. MarksTo(s, j, k)
        <4>1. \A m \in j + 1 .. k : m = k \/ m \in j + 1 .. k - 1
          BY <1>1
        <4> QED
          BY <1>5, <2>4, <4>1, Zenon DEF MarksTo, Starter
      <3>3. \/ Combine(s[j], s[k]) = {}
            \/ k > j + 1 /\ get_ccc(s[k - 1]) >= get_ccc(s[k])
            \/ Overtaken(s, j)
        BY <1>1, <2>1, <3>1, <3>2 DEF Keeps
      <3>4. ~Overtaken(s, j)
        BY NoneOvertaken
      <3>5. k > j + 1 /\ get_ccc(s[k - 1]) >= get_ccc(s[k])
        BY <2>1, <3>3, <3>4
      <3>6. k - 1 \in 1 .. N
        BY <1>1, <3>5
      <3>7. /\ get_ccc(s[k - 1]) \in Nat /\ get_ccc(s[k]) \in Nat
            /\ get_ccc(s[k - 1]) < get_ccc(s[k]) /\ get_ccc(s[k - 1]) >= get_ccc(s[k])
        BY <1>1, <1>5, <3>5, <3>6
      <3> QED
        BY <3>7
    <2> QED
      BY <2>3, <2>4
  <1>6. ~would_compose(s)
    BY <1>1, <1>4, <1>5, Zenon DEF would_compose
  <1> QED
    BY <1>2, <1>6 DEF is_already_nfc

\* A string in Normalization Form C is composed, so it is stable.
LEMMA NormalIsAccepted ==
  ASSUME NEW s \in Seq(DOMAIN Decomposition), Nfc(s) = s, ~MarksOutOfOrder(s)
  PROVE  is_already_nfc(s)
  <1> DEFINE d == Decomposed(s)
             o == Ordered(d)
  <1>1. IsString(d) /\ \A q \in DOMAIN d : get_ccc(d[q]) \in Nat
    BY DecomposedClasses
  <1>2. \A q \in 1 .. Len(d) : Canonical(d[q]) = <<>>
    <2>1. PICK g : Growth(s, g)
      BY AdditionalElements
    <2>2. Len(d) = Len(s) + g[Len(s)] /\ HasPieces(d, s, g, Len(s))
      BY <2>1, DecomposedIs
    <2> HIDE DEF d
    <2> TAKE q \in 1 .. Len(d)
    <2>3. PICK n \in 1 .. Len(s) : \E i \in 1 .. Len(Pieces(s[n])) : q = n - 1 + g[n - 1] + i
      BY <2>1, <2>2, Covers
    <2>4. PICK i \in 1 .. Len(Pieces(s[n])) : q = n - 1 + g[n - 1] + i
      BY <2>3
    <2>5. d[q] = Pieces(s[n])[i]
      BY <2>2, <2>4 DEF HasPieces
    <2>6. s[n] \in DOMAIN Decomposition
      OBVIOUS
    <2>7. i \in DOMAIN Pieces(s[n])
      BY <2>6, PiecesOf, StringIsMap
    <2> QED
      BY <2>5, <2>6, <2>7, CompositesAssumption, Zenon
  <1> HIDE DEF d
  <1>3. Classed(d) /\ DOMAIN d = 1 .. Len(d)
    BY <1>1, StringIsMap DEF Classed
  <1>4. /\ IsString(o) /\ Len(o) = Len(d)
        /\ \A i \in 1 .. Len(d) : \E j \in 1 .. Len(d) : o[i] = d[j]
    BY <1>1, <1>3, OrderedTakes
  <1> HIDE DEF o
  <1>5. \A i \in 1 .. Len(o) : get_ccc(o[i]) \in Nat /\ Canonical(o[i]) = <<>>
    <2> TAKE i \in 1 .. Len(o)
    <2>1. PICK j \in 1 .. Len(d) : o[i] = d[j]
      BY <1>4
    <2> QED
      BY <1>1, <1>2, <1>3, <2>1
  <1>6. PICK u : Folds(u, o) /\ Composed(o) = u[Len(o)]
    BY <1>4, ComposedIs, StringIsMap
  <1>7. Stable(u[Len(o)])
    BY <1>4, <1>5, <1>6, FoldsStable
  <1>8. s = u[Len(o)]
    BY <1>6 DEF Nfc, o, d
  <1>9. ASSUME NEW j \in 1 .. Len(s)
        PROVE  trailing_ccc(s[j]) \in Nat
    <2> DEFINE w == Pieces(s[j])
    <2>1. s[j] \in DOMAIN Decomposition
      OBVIOUS
    <2>2. get_ccc(w[Len(w)]) = trailing_ccc(s[j])
      BY <2>1, PiecesOrdered
    <2>3. Len(w) \in DOMAIN w
      <3>1. IsString(w) /\ Len(w) = More(s[j]) + 1 /\ More(s[j]) \in Nat
        BY <2>1, PiecesOf
      <3> HIDE DEF w
      <3> QED
        BY <3>1, StringIsMap
    <2>4. get_ccc(w[Len(w)]) \in Nat
      BY <2>1, <2>3, CccAssumption
    <2> QED
      BY <2>2, <2>4
  <1> QED
    BY <1>7, <1>8, <1>9, StableAccepted

\* normalize() is only called with the inputs.
LEMMA SourceIs == Spec => [](pc # "idle" => source \in Inputs)
  <1>1. Init => (pc # "idle" => source \in Inputs)
    BY DEF Init
  <1>2. (pc # "idle" => source \in Inputs) /\ [Next]_vars => (pc # "idle" => source \in Inputs)'
    <2> SUFFICES ASSUME pc # "idle" => source \in Inputs, [Next]_vars, pc' # "idle"
                 PROVE  source' \in Inputs
      OBVIOUS
    <2>1. CASE \E s \in Inputs : Call(s)
      BY <2>1 DEF Call
    <2>2. CASE Step
      <3>1. pc # "idle" /\ source' = source
        BY <2>2 DEF Step, DecomposeTurn, EndDecompose, PassStarter, TakeMark, ShiftMark, PlaceMark,
          EndSort, ComposeHangul, WriteStarter, BeginMarks, ComposeMark, KeepMark, EndMarks, Finish
      <3> QED
        BY <3>1
    <2>3. CASE UNCHANGED vars
      BY <2>3 DEF vars
    <2> QED
      BY <2>1, <2>2, <2>3 DEF Next
  <1> QED
    BY <1>1, <1>2, PTL DEF Spec

\* is_already_nfc(), on which to_ascii() and normalize() rely to leave a string alone,
\* accepts only strings in Normalization Form C, and of those it rejects only some in
\* which a mark follows a composite that ends in a higher class.
THEOREM ShortcutAlwaysSound == Spec => []ShortcutIsSound
  <1>1. ASSUME pc # "idle" => source \in Inputs
        PROVE  ShortcutIsSound
    <2> SUFFICES ASSUME pc # "idle"
                 PROVE  /\ is_already_nfc(source) => Nfc(source) = source
                        /\ Nfc(source) = source => is_already_nfc(source) \/ MarksOutOfOrder(source)
      BY DEF ShortcutIsSound
    <2>1. source \in Seq(DOMAIN Decomposition)
      BY <1>1, TablesAssumption
    <2>2. is_already_nfc(source) => Nfc(source) = source
      BY <2>1, AcceptedIsNormal
    <2>3. Nfc(source) = source => is_already_nfc(source) \/ MarksOutOfOrder(source)
      BY <2>1, NormalIsAccepted
    <2> QED
      BY <2>2, <2>3
  <1> QED
    BY <1>1, SourceIs, PTL
=============================================================================
