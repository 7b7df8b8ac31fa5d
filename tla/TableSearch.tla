---------------------------- MODULE TableSearch ----------------------------
(***************************************************************************)
(* The searches in the sorted tables: find_range() of src/validity.cpp,    *)
(* which is also what std::ranges::lower_bound() does for the identifiers  *)
(* and the combining marks, and the search for a pair in a composition row *)
(* of src/normalization.cpp, which it contains twice.  A table is a        *)
(* sequence of pairs: the first and last code point of a range, or the     *)
(* second code point of a composition and what it composes to.             *)
(***************************************************************************)
EXTENDS Integers, Sequences

CONSTANTS
  Ranges,       \* the tables of ranges
  Rows,         \* the composition rows
  IdStart, IdContinue,       \* the tables of the identifiers, two of Ranges
  AsciiStart, AsciiContinue, \* what valid_name_code_point() accepts without them
  Surrogates, CodePoints

\* Entries are pairs of numbers.
IsTable(t) == t \in Seq(Int \X Int)

\* Ranges do not overlap and come in order.
SortedRanges(t) ==
  /\ \A i \in 1 .. Len(t) : t[i][1] <= t[i][2]
  /\ \A i, j \in 1 .. Len(t) : i < j => t[i][2] < t[j][1]

SortedRow(t) == \A i, j \in 1 .. Len(t) : i < j => t[i][1] < t[j][1]

ASSUME TablesAssumption ==
  /\ CodePoints \subseteq Nat
  /\ \A t \in Ranges : IsTable(t) /\ SortedRanges(t)
  /\ \A t \in Rows : IsTable(t) /\ SortedRow(t)
  /\ {IdStart, IdContinue} \subseteq Ranges

VARIABLES
  pc,          \* "idle", "range", "row", "range done", "row done", or "named" if
               \* the answer was given without a search
  table, code_point,
  lo, hi,      \* what is still in question: entries, or places in the row
  found        \* the answer

vars == <<pc, table, code_point, lo, hi, found>>

Init ==
  /\ pc = "idle" /\ table = <<>> /\ code_point = 0 /\ lo = 0 /\ hi = 0 /\ found = FALSE

Start(place, t, c, entries) ==
  /\ pc' = place /\ table' = t /\ code_point' = c
  /\ lo' = 0 /\ hi' = entries
  /\ UNCHANGED found

Answer(place, f) == pc' = place /\ found' = f

-----------------------------------------------------------------------------
(* Ranges.                                                                 *)

SearchRanges(t, c) == pc = "idle" /\ Start("range", t, c, Len(t))

\* valid_name_code_point(): three answers need no table, and without the tables
\* there is no other.
NameCodePoint(c, first) ==
  /\ pc = "idle"
  /\ \/ /\ c \in IF first THEN AsciiStart ELSE AsciiContinue
        /\ Answer("named", TRUE) /\ UNCHANGED <<table, code_point, lo, hi>>
     \/ /\ c \notin IF first THEN AsciiStart ELSE AsciiContinue
        /\ \/ Answer("named", FALSE) /\ UNCHANGED <<table, code_point, lo, hi>>
           \/ c \notin Surrogates /\ SearchRanges(IF first THEN IdStart ELSE IdContinue, c)

Middle == lo + (hi - lo) \div 2

AfterMiddle == Middle + 1

RangeTurn ==
  /\ pc = "range" /\ lo < hi
  /\ IF table[Middle + 1][2] < code_point
     THEN lo' = AfterMiddle /\ UNCHANGED hi
     ELSE hi' = Middle /\ UNCHANGED lo
  /\ UNCHANGED <<pc, table, code_point, found>>

\* Mutant: the beginning of the range is not looked at.
Reaches == TRUE

BeginsBefore == code_point >= table[lo + 1][1]

EndRange ==
  /\ pc = "range" /\ lo = hi
  /\ Answer("range done", lo < Len(table) /\ BeginsBefore)
  /\ UNCHANGED <<table, code_point, lo, hi>>

-----------------------------------------------------------------------------
(* Rows.  composition_data has two numbers for each pair.                  *)

Datum(k) == table[(k \div 2) + 1][(k % 2) + 1]

\* A row without pairs is not searched.
SearchRow(t, c) == pc = "idle" /\ t # <<>> /\ Start("row", t, c, 2 * Len(t))

\* Mutant: the lowest bit of the half is kept.
HalfOf(n) == n \div 2

EvenHalf(n) == 2 * (n \div 4)

\* Mutant: a key that is met in the middle is not kept.
Before(k) == Datum(k) < code_point

NotAfter(k) == Datum(k) <= code_point

RowTurn ==
  /\ pc = "row" /\ lo + 2 < hi
  /\ LET middle == lo + EvenHalf(hi - lo)
     IN  /\ lo' = IF NotAfter(middle) THEN middle ELSE lo
         /\ hi' = IF Datum(middle) >= code_point THEN middle ELSE hi
  /\ UNCHANGED <<pc, table, code_point, found>>

EndRow ==
  /\ pc = "row" /\ lo + 2 >= hi
  /\ Answer("row done", Datum(lo) = code_point)
  /\ UNCHANGED <<table, code_point, lo, hi>>

Next ==
  \/ \E c \in CodePoints :
       \/ \E t \in Ranges : SearchRanges(t, c)
       \/ \E t \in Rows : SearchRow(t, c)
       \/ \E first \in BOOLEAN : NameCodePoint(c, first)
  \/ RangeTurn \/ EndRange \/ RowTurn \/ EndRow

Spec == Init /\ [][Next]_vars

-----------------------------------------------------------------------------
\* Types, and every access is inside the table: a row is only compared at the
\* even places, where the keys are.
TypeOK ==
  /\ pc \in {"idle", "range", "row", "range done", "row done", "named"}
  /\ IsTable(table) /\ code_point \in Nat /\ found \in BOOLEAN
  /\ lo \in Nat /\ hi \in Nat
  /\ pc = "range" => lo <= hi /\ hi <= Len(table)
  /\ pc = "row" =>
       lo % 2 = 0 /\ hi % 2 = 0 /\ lo <= hi /\ hi <= 2 * Len(table) /\ lo < 2 * Len(table)

\* Whatever the table, the entry is found if there is one, and it is the right
\* one: the range around the code point, or the pair with this second code point.
InRange(e) == e[1] <= code_point /\ code_point <= e[2]

FindsRange ==
  pc = "range done" =>
    /\ found <=> \E i \in 1 .. Len(table) : InRange(table[i])
    /\ found => InRange(table[lo + 1])

FindsPair ==
  pc = "row done" =>
    /\ found <=> \E i \in 1 .. Len(table) : table[i][1] = code_point
    /\ found => table[(lo \div 2) + 1][1] = code_point

\* Each turn leaves strictly less to search, so both loops end.
Narrows == [][pc' = pc /\ pc \in {"range", "row"} => hi' - lo' < hi - lo]_vars
=============================================================================
