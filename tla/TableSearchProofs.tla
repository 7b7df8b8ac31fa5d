-------------------------- MODULE TableSearchProofs --------------------------
(* That the searches find what there is to find, in every sorted table.         *)
EXTENDS TableSearch, TLAPS

\* What the range search knows of the entries it has put aside.
RangeInv ==
  pc \in {"range", "range done"} =>
    /\ table \in Ranges /\ hi <= Len(table) /\ lo <= hi
    /\ \A i \in 1 .. Len(table) : i <= lo => table[i][2] < code_point
    /\ \A i \in 1 .. Len(table) : i > hi => code_point <= table[i][2]

\* What the row search knows, unless it has met the key.
RowInv ==
  pc \in {"row", "row done"} =>
    /\ table \in Rows
    /\ \/ lo = hi /\ Datum(lo) = code_point
       \/ /\ lo < hi
          /\ \A i \in 1 .. Len(table) : 2 * (i - 1) < lo => table[i][1] < code_point
          /\ \A i \in 1 .. Len(table) : 2 * (i - 1) >= hi => code_point < table[i][1]

Ended ==
  /\ pc = "range done" =>
       /\ lo = hi
       /\ found <=> (lo < Len(table) /\ BeginsBefore)
  /\ pc = "row done" =>
       /\ lo \in Nat /\ lo % 2 = 0 /\ lo < 2 * Len(table) /\ lo + 2 >= hi
       /\ hi % 2 = 0
       /\ found <=> (Datum(lo) = code_point)

IInv == TypeOK /\ RangeInv /\ RowInv /\ Ended

\* Components of entries are numbers.
LEMMA EntryType ==
  ASSUME NEW t, IsTable(t), NEW i \in 1 .. Len(t)
  PROVE  t[i] \in Int \X Int /\ t[i][1] \in Int /\ t[i][2] \in Int
  BY DEF IsTable

\* Ends of ranges come in order.
LEMMA EndsInOrder ==
  ASSUME NEW t, IsTable(t), SortedRanges(t),
         NEW i \in 1 .. Len(t), NEW j \in 1 .. Len(t), i <= j
  PROVE  t[i][2] <= t[j][2]
<1>1. CASE i = j
  BY <1>1, EntryType
<1>2. CASE i < j
  <2>1. t[i][2] < t[j][1] /\ t[j][1] <= t[j][2]
    BY <1>2 DEF SortedRanges
  <2> QED BY <2>1, EntryType
<1> QED BY <1>1, <1>2, i <= j

\* An even place in a row is a key.
LEMMA KeyAtEven ==
  ASSUME NEW k \in Nat, k % 2 = 0
  PROVE  Datum(k) = table[(k \div 2) + 1][1]
<1>1. (k % 2) + 1 = 1
  OBVIOUS
<1> QED BY <1>1 DEF Datum

LEMMA HalfOfEven ==
  ASSUME NEW k \in Nat, k % 2 = 0
  PROVE  k \div 2 \in Nat /\ k = 2 * (k \div 2)
  OBVIOUS

LEMMA LenType ==
  ASSUME NEW t, IsTable(t)
  PROVE  Len(t) \in Nat
  BY DEF IsTable

\* What holds while a row is searched, and after.
LEMMA RowFacts ==
  ASSUME IInv, pc \in {"row", "row done"}
  PROVE  /\ table \in Rows /\ IsTable(table) /\ SortedRow(table) /\ Len(table) \in Nat
         /\ lo \in Nat /\ hi \in Nat /\ code_point \in Nat
         /\ lo % 2 = 0 /\ hi % 2 = 0 /\ lo < 2 * Len(table)
<1>1. table \in Rows /\ IsTable(table) /\ lo \in Nat /\ hi \in Nat /\ code_point \in Nat
  BY DEF IInv, TypeOK, RowInv
<1>2. lo % 2 = 0 /\ hi % 2 = 0 /\ lo < 2 * Len(table)
  BY DEF IInv, TypeOK, Ended
<1> QED BY <1>1, <1>2, LenType, TablesAssumption

\* The same for a table of ranges.
LEMMA RangeFacts ==
  ASSUME IInv, pc \in {"range", "range done"}
  PROVE  /\ table \in Ranges /\ IsTable(table) /\ SortedRanges(table) /\ Len(table) \in Nat
         /\ lo \in Nat /\ hi \in Nat /\ code_point \in Nat
         /\ lo <= hi /\ hi <= Len(table)
         /\ \A i \in 1 .. Len(table) : i <= lo => table[i][2] < code_point
         /\ \A i \in 1 .. Len(table) : i > hi => code_point <= table[i][2]
<1>1. IsTable(table) /\ lo \in Nat /\ hi \in Nat /\ code_point \in Nat
  BY DEF IInv, TypeOK
<1>2. /\ table \in Ranges /\ lo <= hi /\ hi <= Len(table)
      /\ \A i \in 1 .. Len(table) : i <= lo => table[i][2] < code_point
      /\ \A i \in 1 .. Len(table) : i > hi => code_point <= table[i][2]
  BY DEF IInv, RangeInv
<1> QED BY <1>1, <1>2, LenType, TablesAssumption

LEMMA InitIInv == Init => IInv
<1> SUFFICES ASSUME Init PROVE IInv
  OBVIOUS
<1>1. IsTable(table)
  BY DEF Init, IsTable
<1> QED BY <1>1 DEF Init, IInv, TypeOK, RangeInv, RowInv, Ended

LEMMA SearchRangesIInv ==
  ASSUME IInv, NEW c \in CodePoints, NEW t \in Ranges, SearchRanges(t, c)
  PROVE  IInv'
<1>1. IsTable(t) /\ c \in Nat /\ Len(t) \in Nat
  BY TablesAssumption, LenType
<1>2. table' = t /\ code_point' = c /\ lo' = 0 /\ hi' = Len(t) /\ found' = found
  BY DEF SearchRanges, Start
<1>5. pc' = "range"
  BY DEF SearchRanges, Start
<1>3. TypeOK'
  <2>1. /\ IsTable(table)' /\ code_point' \in Nat /\ lo' \in Nat /\ hi' \in Nat
        /\ lo' <= hi' /\ hi' <= Len(table')
    BY <1>1, <1>2
  <2>2. found' \in BOOLEAN
    BY <1>2 DEF IInv, TypeOK
  <2> QED BY <2>1, <2>2, <1>5 DEF TypeOK
<1>4. RangeInv' /\ RowInv' /\ Ended'
  BY <1>1, <1>2, <1>5 DEF RangeInv, RowInv, Ended
<1> QED BY <1>3, <1>4 DEF IInv

LEMMA SearchRowIInv ==
  ASSUME IInv, NEW c \in CodePoints, NEW t \in Rows, SearchRow(t, c)
  PROVE  IInv'
<1>1. IsTable(t) /\ c \in Nat /\ Len(t) \in Nat /\ Len(t) > 0
  <2>1. IsTable(t) /\ c \in Nat /\ t # <<>>
    BY TablesAssumption DEF SearchRow
  <2> QED BY <2>1 DEF IsTable
<1>2. table' = t /\ code_point' = c /\ lo' = 0 /\ hi' = 2 * Len(t) /\ found' = found
  BY DEF SearchRow, Start
<1>5. pc' = "row"
  BY DEF SearchRow, Start
<1>3. TypeOK'
  <2>1. /\ IsTable(table)' /\ code_point' \in Nat /\ lo' \in Nat /\ hi' \in Nat
        /\ lo' % 2 = 0 /\ hi' % 2 = 0 /\ lo' <= hi' /\ hi' <= 2 * Len(table')
        /\ lo' < 2 * Len(table')
    BY <1>1, <1>2
  <2>2. found' \in BOOLEAN
    BY <1>2 DEF IInv, TypeOK
  <2> QED BY <2>1, <2>2, <1>5 DEF TypeOK
<1>4. RangeInv' /\ RowInv' /\ Ended'
  BY <1>1, <1>2, <1>5 DEF RangeInv, RowInv, Ended
<1> QED BY <1>3, <1>4 DEF IInv

LEMMA NameIInv ==
  ASSUME IInv, NEW c \in CodePoints, NEW first \in BOOLEAN, NameCodePoint(c, first)
  PROVE  IInv'
<1>1. CASE SearchRanges(IF first THEN IdStart ELSE IdContinue, c)
  BY <1>1, SearchRangesIInv, TablesAssumption
<1>2. CASE /\ pc' = "named" /\ found' \in BOOLEAN
           /\ UNCHANGED <<table, code_point, lo, hi>>
  BY <1>2 DEF IInv, TypeOK, RangeInv, RowInv, Ended
<1> QED BY <1>1, <1>2 DEF NameCodePoint, Answer

LEMMA RangeTurnIInv ==
  ASSUME IInv, RangeTurn
  PROVE  IInv' /\ hi' - lo' < hi - lo
<1>1. /\ pc = "range" /\ lo < hi /\ hi <= Len(table) /\ table \in Ranges /\ IsTable(table)
      /\ lo \in Nat /\ hi \in Nat /\ code_point \in Nat /\ Len(table) \in Nat
      /\ SortedRanges(table)
  BY RangeFacts DEF RangeTurn
<1>2. Middle \in lo .. hi - 1 /\ Middle + 1 \in 1 .. Len(table)
  BY <1>1 DEF Middle
<1>3. table[Middle + 1][2] \in Int
  BY <1>1, <1>2, EntryType
<1>4. CASE table[Middle + 1][2] < code_point
  <2>1. lo' = Middle + 1 /\ hi' = hi /\ UNCHANGED <<pc, table, code_point, found>>
    BY <1>4 DEF RangeTurn, AfterMiddle
  <2>2. \A i \in 1 .. Len(table) : i <= Middle + 1 => table[i][2] < code_point
    <3> SUFFICES ASSUME NEW i \in 1 .. Len(table), i <= Middle + 1
                 PROVE  table[i][2] < code_point
      OBVIOUS
    <3>1. table[i][2] <= table[Middle + 1][2]
      BY <1>1, <1>2, EndsInOrder
    <3> QED BY <3>1, <1>1, <1>3, <1>4, EntryType
  <2> QED BY <2>1, <2>2, <1>1, <1>2 DEF IInv, TypeOK, RangeInv, RowInv, Ended
<1>5. CASE ~(table[Middle + 1][2] < code_point)
  <2>1. lo' = lo /\ hi' = Middle /\ UNCHANGED <<pc, table, code_point, found>>
    BY <1>5 DEF RangeTurn
  <2>2. \A i \in 1 .. Len(table) : i > Middle => code_point <= table[i][2]
    <3> SUFFICES ASSUME NEW i \in 1 .. Len(table), i > Middle
                 PROVE  code_point <= table[i][2]
      OBVIOUS
    <3>1. table[Middle + 1][2] <= table[i][2]
      BY <1>1, <1>2, EndsInOrder
    <3> QED BY <3>1, <1>1, <1>3, <1>5, EntryType, SMTT(60)
  <2> QED BY <2>1, <2>2, <1>1, <1>2 DEF IInv, TypeOK, RangeInv, RowInv, Ended
<1> QED BY <1>4, <1>5

LEMMA EndRangeIInv ==
  ASSUME IInv, EndRange
  PROVE  IInv'
<1>1. pc' = "range done" /\ pc = "range" /\ lo = hi /\ UNCHANGED <<table, code_point, lo, hi>>
  BY DEF EndRange, Answer
<1>2. found' = (lo < Len(table) /\ BeginsBefore) /\ found' \in BOOLEAN
  BY DEF EndRange, Answer
<1> QED BY <1>1, <1>2 DEF IInv, TypeOK, RangeInv, RowInv, Ended, BeginsBefore

LEMMA RowTurnIInv ==
  ASSUME IInv, RowTurn
  PROVE  IInv' /\ hi' - lo' < hi - lo
<1> DEFINE m == lo + EvenHalf(hi - lo)
           j == (m \div 2) + 1
<1>p. pc = "row"
  BY DEF RowTurn
<1>1. /\ lo + 2 < hi /\ hi <= 2 * Len(table) /\ table \in Rows /\ IsTable(table)
      /\ lo \in Nat /\ hi \in Nat /\ code_point \in Nat /\ Len(table) \in Nat
      /\ lo % 2 = 0 /\ hi % 2 = 0 /\ SortedRow(table)
  BY RowFacts DEF RowTurn, IInv, TypeOK
<1>2. m \in Nat /\ m % 2 = 0 /\ lo < m /\ m < hi
  BY <1>1 DEF EvenHalf
<1>0. /\ \A i \in 1 .. Len(table) : 2 * (i - 1) < lo => table[i][1] < code_point
      /\ \A i \in 1 .. Len(table) : 2 * (i - 1) >= hi => code_point < table[i][1]
  BY <1>1, <1>p DEF IInv, RowInv
<1>5. /\ lo' = IF Datum(m) <= code_point THEN m ELSE lo
      /\ hi' = IF Datum(m) >= code_point THEN m ELSE hi
      /\ UNCHANGED <<pc, table, code_point, found>>
  BY DEF RowTurn, NotAfter
<1>i. Datum(m) = code_point => lo' = m /\ hi' = m
  <2>1. ASSUME Datum(m) = code_point PROVE Datum(m) <= code_point /\ Datum(m) >= code_point
    BY <1>1, <2>1
  <2> QED BY <2>1, <1>5
<1> HIDE DEF m
<1>3. j \in 1 .. Len(table) /\ m = 2 * (j - 1)
  BY <1>1, <1>2, HalfOfEven
<1>4. Datum(m) = table[j][1] /\ Datum(m) \in Int
  BY <1>1, <1>2, <1>3, KeyAtEven, EntryType
<1>6. \A i \in 1 .. Len(table) : i < j => table[i][1] < table[j][1]
  BY <1>1, <1>3 DEF SortedRow
<1>7. \A i \in 1 .. Len(table) : j < i => table[j][1] < table[i][1]
  BY <1>1, <1>3 DEF SortedRow
<1> HIDE DEF j
<1>8. TypeOK' /\ hi' - lo' < hi - lo
  <2>1. /\ lo' = m \/ lo' = lo
        /\ hi' = m \/ hi' = hi
        /\ lo' = m \/ hi' = m
    BY <1>1, <1>4, <1>5
  <2>2. /\ lo' \in Nat /\ hi' \in Nat /\ lo' % 2 = 0 /\ hi' % 2 = 0
        /\ lo' <= hi' /\ hi' <= 2 * Len(table) /\ lo' < 2 * Len(table)
        /\ hi' - lo' < hi - lo
    BY ONLY <1>1, <1>2, <2>1
  <2> QED BY <1>p, <1>5, <2>2 DEF IInv, TypeOK
<1>9. RowInv'
  <2>1. CASE Datum(m) = code_point
    <3>1. lo' = m /\ hi' = m
      BY <2>1, <1>i
    <3>2. Datum(lo)' = Datum(m)
      BY <3>1, <1>5 DEF Datum
    <3> QED BY <3>1, <3>2, <2>1, <1>1, <1>5 DEF RowInv
  <2>2. CASE Datum(m) < code_point
    <3>1. lo' = m /\ hi' = hi
      BY <2>2, <1>1, <1>4, <1>5
    <3>2. \A i \in 1 .. Len(table) : 2 * (i - 1) < m => table[i][1] < code_point
      BY <2>2, <1>1, <1>3, <1>4, <1>6, EntryType, SMTT(60)
    <3> QED BY <3>1, <3>2, <1>0, <1>1, <1>2, <1>5 DEF RowInv
  <2>3. CASE Datum(m) > code_point
    <3>1. lo' = lo /\ hi' = m
      BY <2>3, <1>1, <1>4, <1>5
    <3>2. \A i \in 1 .. Len(table) : 2 * (i - 1) >= m => code_point < table[i][1]
      <4> TAKE i \in 1 .. Len(table)
      <4> HAVE 2 * (i - 1) >= m
      <4>1. i = j \/ j < i
        <5>1. i \in Int /\ j \in Int /\ 2 * (i - 1) >= 2 * (j - 1)
          BY <1>1, <1>3
        <5> QED BY ONLY <5>1
      <4>2. table[j][1] > code_point /\ table[j][1] \in Int /\ code_point \in Int
        BY <2>3, <1>1, <1>4
      <4>3. table[i][1] \in Int
        BY <1>1, EntryType
      <4>4. CASE i = j
        BY <4>2, <4>4
      <4>5. CASE j < i
        <5>1. table[j][1] < table[i][1]
          BY <1>7, <4>5
        <5> QED BY ONLY <4>2, <4>3, <5>1
      <4> QED BY <4>1, <4>4, <4>5
    <3> QED BY <3>1, <3>2, <1>0, <1>1, <1>2, <1>5 DEF RowInv
  <2>4. Datum(m) = code_point \/ Datum(m) < code_point \/ Datum(m) > code_point
    <3> DEFINE met == Datum(m)
    <3>1. met \in Int /\ code_point \in Int
      BY <1>1, <1>4
    <3> HIDE DEF met
    <3>2. met = code_point \/ met < code_point \/ met > code_point
      BY ONLY <3>1
    <3> QED BY <3>2 DEF met
  <2> QED BY <2>1, <2>2, <2>3, <2>4, Zenon
<1>10. RangeInv' /\ Ended'
  BY <1>p, <1>5 DEF RangeInv, Ended
<1> QED BY <1>8, <1>9, <1>10 DEF IInv

LEMMA EndRowIInv ==
  ASSUME IInv, EndRow
  PROVE  IInv'
<1>1. pc' = "row done" /\ pc = "row" /\ lo + 2 >= hi /\ UNCHANGED <<table, code_point, lo, hi>>
  BY DEF EndRow, Answer
<1>2. found' = (Datum(lo) = code_point) /\ found' \in BOOLEAN
  BY DEF EndRow, Answer
<1> QED BY <1>1, <1>2 DEF IInv, TypeOK, RangeInv, RowInv, Ended, Datum

LEMMA NextIInv == IInv /\ [Next]_vars => IInv'
<1> SUFFICES ASSUME IInv, [Next]_vars PROVE IInv'
  OBVIOUS
<1>1. CASE UNCHANGED vars
  BY <1>1 DEF vars, IInv, TypeOK, RangeInv, RowInv, Ended, BeginsBefore, Datum
<1>2. ASSUME NEW c \in CodePoints, NEW t \in Ranges, SearchRanges(t, c) PROVE IInv'
  BY <1>2, SearchRangesIInv
<1>3. ASSUME NEW c \in CodePoints, NEW t \in Rows, SearchRow(t, c) PROVE IInv'
  BY <1>3, SearchRowIInv
<1>4. ASSUME NEW c \in CodePoints, NEW first \in BOOLEAN, NameCodePoint(c, first) PROVE IInv'
  BY <1>4, NameIInv
<1> QED BY <1>1, <1>2, <1>3, <1>4, RangeTurnIInv, EndRangeIInv, RowTurnIInv, EndRowIInv DEF Next

LEMMA Invariant == Spec => []IInv
  BY InitIInv, NextIInv, PTL DEF Spec

\* No search reads outside of its table, and a row is compared only at its keys,
\* for tables of any size.
THEOREM InBounds == Spec => []TypeOK
<1>1. IInv => TypeOK
  BY DEF IInv
<1> QED BY <1>1, Invariant, PTL

\* Where the range search ends, only one range can be around the code point.
LEMMA EndOfRanges ==
  ASSUME IsTable(table), SortedRanges(table), Len(table) \in Nat,
         lo \in Nat, code_point \in Nat,
         \A i \in 1 .. Len(table) : i <= lo => table[i][2] < code_point,
         \A i \in 1 .. Len(table) : i > lo => code_point <= table[i][2]
  PROVE  /\ lo < Len(table) /\ BeginsBefore <=> \E i \in 1 .. Len(table) : InRange(table[i])
         /\ lo < Len(table) /\ BeginsBefore => InRange(table[lo + 1])
<1>1. lo < Len(table) /\ BeginsBefore => lo + 1 \in 1 .. Len(table) /\ InRange(table[lo + 1])
  BY DEF InRange, BeginsBefore
<1>2. ASSUME NEW i \in 1 .. Len(table), InRange(table[i]) PROVE lo < Len(table) /\ BeginsBefore
  <2>1. /\ table[i][1] \in Int /\ table[i][2] \in Int
        /\ table[i][1] <= code_point /\ code_point <= table[i][2]
    BY <1>2, EntryType DEF InRange
  <2>2. i > lo /\ lo + 1 \in 1 .. Len(table)
    BY <2>1
  <2>3. table[lo + 1][1] \in Int /\ table[lo + 1][2] \in Int
    BY <2>2, EntryType
  <2>4. CASE i = lo + 1
    BY <2>1, <2>2, <2>4 DEF BeginsBefore
  <2>5. CASE i > lo + 1
    <3>1. table[lo + 1][2] < table[i][1] /\ table[lo + 1][1] <= table[lo + 1][2]
      BY <2>2, <2>5 DEF SortedRanges
    <3>2. code_point <= table[lo + 1][2]
      BY <2>2
    <3> QED BY <3>1, <3>2, <2>1, <2>3, SMTT(60)
  <2> QED BY <2>2, <2>4, <2>5
<1> QED BY <1>1, <1>2

\* The range search of find_range() finds the range around the code point, if there
\* is one, in every sorted table.
THEOREM FindsRangeAlways == Spec => []FindsRange
<1>1. IInv => FindsRange
  <2> SUFFICES ASSUME IInv, pc = "range done"
               PROVE  /\ found <=> \E i \in 1 .. Len(table) : InRange(table[i])
                      /\ found => InRange(table[lo + 1])
    BY DEF FindsRange
  <2>1. lo = hi /\ (found <=> (lo < Len(table) /\ BeginsBefore))
    BY DEF IInv, Ended
  <2>2. /\ IsTable(table) /\ SortedRanges(table) /\ Len(table) \in Nat
        /\ lo \in Nat /\ code_point \in Nat
        /\ \A i \in 1 .. Len(table) : i <= lo => table[i][2] < code_point
        /\ \A i \in 1 .. Len(table) : i > lo => code_point <= table[i][2]
    BY <2>1, RangeFacts
  <2>3. /\ lo < Len(table) /\ BeginsBefore <=> \E i \in 1 .. Len(table) : InRange(table[i])
        /\ lo < Len(table) /\ BeginsBefore => InRange(table[lo + 1])
    BY <2>2, EndOfRanges
  <2> QED BY <2>1, <2>3
<1> QED BY <1>1, Invariant, PTL

\* Where the row search ends, it has met the key or there is none.
LEMMA EndOfRow ==
  ASSUME IsTable(table), SortedRow(table), Len(table) \in Nat,
         lo \in Nat, hi \in Nat, code_point \in Nat,
         lo % 2 = 0, hi % 2 = 0, lo < 2 * Len(table), lo + 2 >= hi,
         \/ lo = hi /\ Datum(lo) = code_point
         \/ /\ lo < hi
            /\ \A i \in 1 .. Len(table) : 2 * (i - 1) < lo => table[i][1] < code_point
            /\ \A i \in 1 .. Len(table) : 2 * (i - 1) >= hi => code_point < table[i][1]
  PROVE  /\ Datum(lo) = code_point <=> \E i \in 1 .. Len(table) : table[i][1] = code_point
         /\ Datum(lo) = table[(lo \div 2) + 1][1]
<1> DEFINE j == (lo \div 2) + 1
<1>1. j \in 1 .. Len(table) /\ lo = 2 * (j - 1)
  BY HalfOfEven, SMTT(60)
<1>2. Datum(lo) = table[j][1]
  BY KeyAtEven
<1> HIDE DEF j
<1>3. ASSUME NEW i \in 1 .. Len(table), table[i][1] = code_point PROVE Datum(lo) = code_point
  <2>1. CASE /\ lo < hi
             /\ \A k \in 1 .. Len(table) : 2 * (k - 1) < lo => table[k][1] < code_point
             /\ \A k \in 1 .. Len(table) : 2 * (k - 1) >= hi => code_point < table[k][1]
    <3>1. ~(2 * (i - 1) < lo) /\ ~(2 * (i - 1) >= hi)
      BY <2>1, <1>3
    <3>2. hi = lo + 2
      BY <2>1
    <3>3. i = j
      BY <3>1, <3>2, <1>1
    <3> QED BY <3>3, <1>2, <1>3
  <2> QED BY <2>1
<1> QED BY <1>1, <1>2, <1>3 DEF j

\* The search in a composition row finds the pair if there is one, in every sorted row.
THEOREM FindsPairAlways == Spec => []FindsPair
<1>1. IInv => FindsPair
  <2> SUFFICES ASSUME IInv, pc = "row done"
               PROVE  /\ found <=> \E i \in 1 .. Len(table) : table[i][1] = code_point
                      /\ found => table[(lo \div 2) + 1][1] = code_point
    BY DEF FindsPair
  <2>1. found <=> (Datum(lo) = code_point)
    BY DEF IInv, Ended
  <2>2. /\ lo + 2 >= hi
        /\ \/ lo = hi /\ Datum(lo) = code_point
           \/ /\ lo < hi
              /\ \A i \in 1 .. Len(table) : 2 * (i - 1) < lo => table[i][1] < code_point
              /\ \A i \in 1 .. Len(table) : 2 * (i - 1) >= hi => code_point < table[i][1]
    BY DEF IInv, Ended, RowInv
  <2> QED BY <2>1, <2>2, RowFacts, EndOfRow
<1> QED BY <1>1, Invariant, PTL

\* Both loops end: a turn always leaves less to search.
THEOREM NarrowsAlways == Spec => Narrows
<1>1. IInv /\ [Next]_vars => [pc' = pc /\ pc \in {"range", "row"} => hi' - lo' < hi - lo]_vars
  <2> SUFFICES ASSUME IInv, Next, pc' = pc, pc \in {"range", "row"}
               PROVE  hi' - lo' < hi - lo
    OBVIOUS
  <2> QED BY RangeTurnIInv, RowTurnIInv
          DEF Next, SearchRanges, SearchRow, NameCodePoint, EndRange, EndRow, Answer
<1> QED BY <1>1, Invariant, PTL DEF Spec, Narrows
=============================================================================
