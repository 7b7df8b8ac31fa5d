--------------------------- MODULE Normalization ---------------------------
(***************************************************************************)
(* normalize() and is_already_nfc() of src/normalization.cpp.  normalize() *)
(* edits one string in place, in three passes of which each is an action   *)
(* per turn of its loops; is_already_nfc(), which writes nothing, is an    *)
(* operator.                                                               *)
(*                                                                         *)
(* The Unicode tables and the Hangul ranges are constants.  Positions      *)
(* count from 1, where the code's count from 0.                            *)
(***************************************************************************)
EXTENDS Integers, Sequences, FiniteSets, SequencesExt

CONSTANTS
  LBase, VBase, TBase, SBase, LCount, VCount, TCount,   \* hangul_lbase, ...
  Ccc,             \* code point -> canonical combining class
  Decomposition,   \* code point -> its full decomposition, <<>> if it has none
  CompatOnly,      \* the code points whose decomposition is not canonical
  Composition,     \* pair of code points -> primary composite
  Inputs           \* the strings normalize() is called with

ASSUME HangulAssumption ==
  /\ {LBase, VBase, TBase, SBase} \subseteq Nat
  /\ {LCount, VCount, TCount} \subseteq Nat \ {0}

\* Inputs are strings of code points, and so are decompositions.
ASSUME TablesAssumption ==
  /\ Inputs \subseteq Seq(DOMAIN Decomposition)
  /\ \A c \in DOMAIN Decomposition : Decomposition[c] \in Seq(DOMAIN Decomposition)

VARIABLES
  pc,      \* "idle", "decompose", "sort", "shift", "compose", "marks", "done"
  source,  \* the string as it was given
  input,   \* the string in place
  input_count, descending_idx,      \* the locals of decompose()
  idx, back_idx, current_character, \* ... of sort_marks()
  composition_count, initial_composition_count, previous_ccc, \* ... of compose()
  row,     \* the code point whose compositions are looked up
  ok       \* the answer, once pc = "done"

decomposeVars == <<input_count, descending_idx>>
sortVars      == <<idx, back_idx, current_character>>
composeVars   == <<composition_count, initial_composition_count, previous_ccc, row>>
vars == <<pc, source, input, decomposeVars, sortVars, composeVars, ok>>

-----------------------------------------------------------------------------
(* Hangul, and the lookups.                                                *)

HangulL(c)  == c \in LBase .. LBase + LCount - 1
HangulV(c)  == c \in VBase .. VBase + VCount - 1
HangulT(c)  == c \in TBase + 1 .. TBase + TCount - 1
Syllable(c) == c \in SBase .. SBase + LCount * VCount * TCount - 1
OpenSyllable(c) == Syllable(c) /\ (c - SBase) % TCount = 0

SyllableOf(l, v) == SBase + ((l - LBase) * VCount + v - VBase) * TCount

get_ccc(c) == Ccc[c]

Canonical(c) == IF Syllable(c) \/ c \in CompatOnly THEN <<>> ELSE Decomposition[c]

Composes(first, second) == <<first, second>> \in DOMAIN Composition

-----------------------------------------------------------------------------
(* What each code point is decomposed to, and how far the string grows.    *)

\* Mutants: compatibility decompositions are counted, or a final consonant is not.
LengthWithCompat(c) ==
  IF Syllable(c) THEN IF OpenSyllable(c) THEN 2 ELSE 3 ELSE Len(Decomposition[c])
PairLength(c) == IF Syllable(c) THEN 2 ELSE Len(Canonical(c))

DecompositionLength(c) ==
  IF Syllable(c) THEN IF OpenSyllable(c) THEN 2 ELSE 3 ELSE Len(Canonical(c))

additional_elements(s) ==
  LET sum[n \in 0 .. Len(s)] ==
        IF n = 0 THEN 0
        ELSE sum[n - 1] + (IF DecompositionLength(s[n]) = 0 THEN 0
                           ELSE DecompositionLength(s[n]) - 1)
  IN  sum[Len(s)]

decomposition_needed(s) == \E j \in DOMAIN s : DecompositionLength(s[j]) # 0

Jamos(c) ==
  LET s == c - SBase
      l == LBase + s \div (VCount * TCount)
      v == VBase + (s % (VCount * TCount)) \div TCount
  IN  IF OpenSyllable(c) THEN <<l, v>> ELSE <<l, v, TBase + (s % TCount)>>

Pieces(c) ==
  IF Syllable(c) THEN Jamos(c) ELSE IF Canonical(c) # <<>> THEN Canonical(c) ELSE <<c>>

\* Every code point that a decomposition leaves has a combining class.
ASSUME CccAssumption ==
  \A c \in DOMAIN Decomposition : \A i \in DOMAIN Pieces(c) : get_ccc(Pieces(c)[i]) \in Nat

-----------------------------------------------------------------------------
(* Normalization Form C as Unicode defines it, with no buffer and no index *)
(* (UAX 15): decompose, order the marks, and let each code point compose   *)
(* with the last starter unless something between blocks it.  The code's   *)
(* compose() is called on one decomposition by is_already_nfc(), where     *)
(* Composed stands for it: the property Normalizes is what justifies that. *)

Decomposed(s) == FlattenSeq([j \in DOMAIN s |-> Pieces(s[j])])

Starter(c) == get_ccc(c) = 0

\* A mark goes ahead of those before it that have a higher class, up to a starter.
Passes(s, j, k) ==
  /\ \A m \in j + 1 .. k : ~Starter(s[m])
  /\ get_ccc(s[k]) < get_ccc(s[j])

Before(s, j, k) == IF j < k THEN ~Passes(s, j, k) ELSE Passes(s, k, j)

Ordered(s) ==
  LET Behind(j) == Cardinality({k \in DOMAIN s : Before(s, k, j)})
  IN  [i \in DOMAIN s |-> s[CHOOSE j \in DOMAIN s : Behind(j) = i - 1]]

Combine(first, second) ==
  CASE HangulL(first) /\ HangulV(second)      -> {SyllableOf(first, second)}
    [] OpenSyllable(first) /\ HangulT(second) -> {first + second - TBase}
    [] Composes(first, second) -> {Composition[<<first, second>>]}
    [] OTHER -> {}

ComposeWith(t, c) ==
  LET starter == SelectLastInSeq(t, Starter)
      blocked == starter < Len(t) /\ get_ccc(Last(t)) >= get_ccc(c)
  IN  IF starter = 0 \/ blocked \/ Combine(t[starter], c) = {} THEN Append(t, c)
      ELSE [t EXCEPT ![starter] = CHOOSE d \in Combine(@, c) : TRUE]

\* Hangul code points are starters, in ranges apart from each other, and composed by
\* arithmetic alone; what the table composes is starters too, for Unicode excludes
\* all other pairs.  A decomposition of the table is in canonical order.
ASSUME CompositionAssumption ==
  LET Leading   == LBase .. LBase + LCount - 1
      Others    == VBase .. VBase + VCount - 1 \cup TBase + 1 .. TBase + TCount - 1
      Syllables == SBase .. SBase + LCount * VCount * TCount - 1
      HangulSet == Leading \cup Others \cup Syllables
  IN  /\ Leading \cap (Others \cup Syllables) = {} /\ Others \cap Syllables = {}
      /\ \A c \in HangulSet : Starter(c)
      /\ \A pair \in DOMAIN Composition :
           /\ Starter(pair[1]) /\ Starter(Composition[pair])
           /\ {pair[1], pair[2], Composition[pair]} \cap HangulSet = {}
      /\ \A c \in DOMAIN Decomposition :
           /\ ToSet(Canonical(c)) \cap HangulSet = {}
           /\ \A i \in 2 .. Len(Canonical(c)) :
                Starter(Canonical(c)[i])
                  \/ get_ccc(Canonical(c)[i - 1]) <= get_ccc(Canonical(c)[i])

Composed(s) ==
  LET upto[n \in 0 .. Len(s)] ==
        IF n = 0 THEN <<>> ELSE ComposeWith(upto[n - 1], s[n])
  IN  upto[Len(s)]

\* A composite is decomposed to what the first of its pair is, and to the second, which
\* is not decomposed any more, and these compose to it again.  Decompositions are full.
ASSUME CompositesAssumption ==
  /\ \A pair \in DOMAIN Composition :
       LET c == Composition[pair]
       IN  /\ pair[1] \in DOMAIN Decomposition /\ Canonical(pair[2]) = <<>>
           /\ Canonical(c) = Append(Pieces(pair[1]), pair[2])
           /\ Composed(Canonical(c)) = <<c>>
  /\ \A c \in DOMAIN Decomposition : \A i \in DOMAIN Pieces(c) : Canonical(Pieces(c)[i]) = <<>>

Nfc(s) == Composed(Ordered(Decomposed(s)))

-----------------------------------------------------------------------------
(* is_already_nfc(), once it has the tables.                               *)

\* Mutant: each code point is judged without the one before it.
ComposesAlone(s, j) == FALSE

\* The first of a decomposition composes with the code point before it.
ComposesBackward(s, j) == j > 1 /\ Composes(s[j - 1], Canonical(s[j])[1])

decomposition_is_not_nfc(s, j) ==
  LET d == Canonical(s[j])
  IN  d # <<>> /\ (Len(d) = 1 \/ Composed(d) # <<s[j]>> \/ ComposesBackward(s, j))

trailing_ccc(c) ==
  get_ccc(IF Canonical(c) = <<>> THEN c ELSE Last(Canonical(c)))

MarksOutOfOrder(s) ==
  \E j \in 2 .. Len(s) : get_ccc(s[j]) # 0 /\ trailing_ccc(s[j - 1]) > get_ccc(s[j])

\* Where the scan of would_compose() begins to look for compositions: marks are
\* passed together with the code point before them, unless that is Hangul.
Hangul(c) == HangulL(c) \/ Syllable(c)
ScanStart(s, j) == j = 1 \/ get_ccc(s[j]) = 0 \/ Hangul(s[j - 1])

would_compose(s) ==
  \/ \E j \in 1 .. Len(s) - 1 :
       \/ HangulL(s[j]) /\ HangulV(s[j + 1])
       \/ OpenSyllable(s[j]) /\ HangulT(s[j + 1])
  \/ \E j, k \in DOMAIN s :
       /\ j < k /\ ScanStart(s, j) /\ ~Hangul(s[j])
       /\ \A m \in j + 1 .. k - 1 : get_ccc(s[m]) # 0
       /\ k > j + 1 => get_ccc(s[k - 1]) < get_ccc(s[k])
       /\ Composes(s[j], s[k])

is_already_nfc(s) ==
  /\ \A j \in DOMAIN s : ~decomposition_is_not_nfc(s, j)
  /\ ~MarksOutOfOrder(s)
  /\ ~would_compose(s)

-----------------------------------------------------------------------------
(* normalize().                                                            *)

Init ==
  /\ pc = "idle" /\ source = <<>> /\ input = <<>> /\ ok = FALSE
  /\ input_count = 0 /\ descending_idx = 0
  /\ idx = 0 /\ back_idx = 0 /\ current_character = 0
  /\ composition_count = 0 /\ initial_composition_count = 0
  /\ previous_ccc = -1 /\ row = 0

Return(answer) == pc' = "done" /\ ok' = answer

\* ensure_tables() answers false, or the string is normal, or the work begins:
\* decompose() grows the string and goes through it from the back.
Call(s) ==
  /\ pc = "idle"
  /\ source' = s
  /\ \/ Return(FALSE) /\ input' = s /\ UNCHANGED <<decomposeVars, idx>>
     \/ is_already_nfc(s) /\ Return(TRUE) /\ input' = s /\ UNCHANGED <<decomposeVars, idx>>
     \/ /\ ~is_already_nfc(s)
        /\ UNCHANGED ok
        /\ \/ /\ decomposition_needed(s)
              /\ input' = s \o [j \in 1 .. additional_elements(s) |-> 0]
              /\ input_count' = Len(s) /\ descending_idx' = Len(input')
              /\ pc' = "decompose"
              /\ UNCHANGED idx
           \/ /\ ~decomposition_needed(s)
              /\ input' = s
              /\ idx' = 2 /\ pc' = "sort"
              /\ UNCHANGED decomposeVars
  /\ UNCHANGED <<back_idx, current_character, composeVars>>

DecomposeTurn ==
  /\ pc = "decompose" /\ input_count > 0
  /\ LET pieces == Pieces(input[input_count])
         start  == descending_idx - Len(pieces)
     IN  /\ input' = [j \in DOMAIN input |->
                        IF j \in start + 1 .. descending_idx THEN pieces[j - start]
                        ELSE input[j]]
         /\ descending_idx' = start
  /\ input_count' = input_count - 1
  /\ UNCHANGED <<pc, source, sortVars, composeVars, ok>>

EndDecompose ==
  /\ pc = "decompose" /\ input_count = 0
  /\ pc' = "sort" /\ idx' = 2
  /\ UNCHANGED <<source, input, decomposeVars, back_idx, current_character, composeVars, ok>>

PassStarter ==
  /\ pc = "sort" /\ idx <= Len(input) /\ Starter(input[idx])
  /\ idx' = idx + 1
  /\ UNCHANGED <<pc, source, input, decomposeVars, back_idx, current_character, composeVars, ok>>

TakeMark ==
  /\ pc = "sort" /\ idx <= Len(input) /\ ~Starter(input[idx])
  /\ current_character' = input[idx]
  /\ back_idx' = idx
  /\ pc' = "shift"
  /\ UNCHANGED <<source, input, decomposeVars, idx, composeVars, ok>>

\* Mutant: marks of one class change places.
MovesBehindEqual(c) == get_ccc(c) >= get_ccc(current_character)

MovesBehind(c) == get_ccc(c) > get_ccc(current_character)

ShiftMark ==
  /\ pc = "shift" /\ back_idx # 1 /\ MovesBehind(input[back_idx - 1])
  /\ input' = [input EXCEPT ![back_idx] = input[back_idx - 1]]
  /\ back_idx' = back_idx - 1
  /\ UNCHANGED <<pc, source, decomposeVars, idx, current_character, composeVars, ok>>

PlaceMark ==
  /\ pc = "shift" /\ (back_idx # 1 => ~MovesBehind(input[back_idx - 1]))
  /\ input' = [input EXCEPT ![back_idx] = current_character]
  /\ idx' = idx + 1
  /\ pc' = "sort"
  /\ UNCHANGED <<source, decomposeVars, back_idx, current_character, composeVars, ok>>

EndSort ==
  /\ pc = "sort" /\ idx > Len(input)
  /\ pc' = "compose" /\ input_count' = 1 /\ composition_count' = 1
  /\ UNCHANGED <<source, input, descending_idx, sortVars, initial_composition_count, previous_ccc, row, ok>>

\* The code point at distance n from the one that is read, if there is one.
Ahead(n, Test(_)) == input_count + n <= Len(input) /\ Test(input[input_count + n])

\* input[composition_count] = c, and the read position passes n code points.
WriteStarter(c, n) ==
  /\ input' = [input EXCEPT ![composition_count] = c]
  /\ input_count' = input_count + n
  /\ composition_count' = composition_count + 1

ComposeHangul ==
  /\ pc = "compose" /\ input_count <= Len(input)
  /\ LET c == input[input_count]
     IN  \/ /\ HangulL(c) /\ Ahead(1, HangulV)
            /\ LET open == SyllableOf(c, input[input_count + 1])
               IN  IF Ahead(2, HangulT)
                   THEN WriteStarter(open + input[input_count + 2] - TBase, 3)
                   ELSE WriteStarter(open, 2)
         \/ /\ OpenSyllable(c) /\ Ahead(1, HangulT)
            /\ WriteStarter(c + input[input_count + 1] - TBase, 2)
         \/ /\ Hangul(c)
            /\ ~(HangulL(c) /\ Ahead(1, HangulV))
            /\ ~(OpenSyllable(c) /\ Ahead(1, HangulT))
            /\ WriteStarter(c, 1)
  /\ UNCHANGED <<pc, source, descending_idx, sortVars, initial_composition_count, previous_ccc, row, ok>>

BeginMarks ==
  /\ pc = "compose" /\ input_count <= Len(input) /\ ~Hangul(input[input_count])
  /\ input' = [input EXCEPT ![composition_count] = input[input_count]]
  /\ initial_composition_count' = composition_count
  /\ previous_ccc' = -1
  /\ row' = input[input_count]
  /\ pc' = "marks"
  /\ UNCHANGED <<source, decomposeVars, sortVars, composition_count, ok>>

\* Mutant: only marks compose, as before Unicode 16.
ComposesMark ==
  Ahead(1, LAMBDA c : Composes(row, c) /\ previous_ccc < get_ccc(c) /\ ~Starter(c))

\* Does the code point after the one that is read compose with the row?
ComposesNext ==
  Ahead(1, LAMBDA c : Composes(row, c) /\ previous_ccc < get_ccc(c))

ComposeMark ==
  /\ pc = "marks" /\ ComposesNext
  /\ LET c == Composition[<<row, input[input_count + 1]>>]
     IN  /\ input' = [input EXCEPT ![initial_composition_count] = c]
         /\ row' = c
  /\ input_count' = input_count + 1
  /\ UNCHANGED <<pc, source, descending_idx, sortVars, composition_count, initial_composition_count, previous_ccc, ok>>

KeepMark ==
  /\ pc = "marks" /\ ~ComposesNext
  /\ Ahead(1, LAMBDA c : ~Starter(c))
  /\ previous_ccc' = get_ccc(input[input_count + 1])
  /\ input_count' = input_count + 1
  /\ composition_count' = composition_count + 1
  /\ input' = [input EXCEPT ![composition_count + 1] = input[input_count + 1]]
  /\ UNCHANGED <<pc, source, descending_idx, sortVars, initial_composition_count, row, ok>>

EndMarks ==
  /\ pc = "marks" /\ ~ComposesNext
  /\ ~Ahead(1, LAMBDA c : ~Starter(c))
  /\ pc' = "compose"
  /\ input_count' = input_count + 1
  /\ composition_count' = composition_count + 1
  /\ UNCHANGED <<source, input, descending_idx, sortVars, initial_composition_count, previous_ccc, row, ok>>

Finish ==
  /\ pc = "compose" /\ input_count > Len(input)
  /\ input' = SubSeq(input, 1, composition_count - 1)
  /\ Return(TRUE)
  /\ UNCHANGED <<source, decomposeVars, sortVars, composeVars>>

Step ==
  \/ DecomposeTurn \/ EndDecompose
  \/ PassStarter \/ TakeMark \/ ShiftMark \/ PlaceMark \/ EndSort
  \/ ComposeHangul \/ BeginMarks \/ ComposeMark \/ KeepMark \/ EndMarks \/ Finish

Next == (\E s \in Inputs : Call(s)) \/ Step

Spec == Init /\ [][Next]_vars

-----------------------------------------------------------------------------
\* Types, and the order of the indices: each pass writes at or behind (compose)
\* or beyond (decompose) the place it reads, and inside the string.
TypeOK ==
  /\ pc \in {"idle", "decompose", "sort", "shift", "compose", "marks", "done"}
  /\ ok \in BOOLEAN
  /\ pc = "decompose" =>
       input_count \in 0 .. descending_idx /\ descending_idx <= Len(input)
  /\ pc = "decompose" /\ input_count = 0 => descending_idx = 0
  /\ pc = "sort" => idx \in 2 .. Len(input) + 1 \/ (input = <<>> /\ idx = 2)
  /\ pc = "shift" => idx \in 2 .. Len(input) /\ back_idx \in 1 .. idx
  /\ pc \in {"compose", "marks"} => composition_count \in 1 .. input_count
  /\ pc = "marks" =>
       input_count <= Len(input) /\ initial_composition_count \in 1 .. composition_count

\* decompose() works from the back in the string it has grown: it finds the given
\* code points, and leaves the decomposition of the whole string.
DecomposesInPlace ==
  pc = "decompose" =>
    /\ SubSeq(input, 1, input_count) = SubSeq(source, 1, input_count)
    /\ input_count = 0 => input = Decomposed(source)

\* sort_marks() has put in order what it has passed (while it moves a mark, with
\* one code point there twice), and what it moved behind the mark has a higher class.
OutOfOrder(s, j) == ~Starter(s[j]) /\ get_ccc(s[j - 1]) > get_ccc(s[j])

MarksInOrder ==
  /\ pc = "sort" => \A j \in 2 .. idx - 1 : ~OutOfOrder(input, j)
  /\ pc = "shift" =>
       /\ \A j \in 2 .. idx : j < idx \/ back_idx < idx => ~OutOfOrder(input, j)
       /\ back_idx < idx => input[back_idx] = input[back_idx + 1]
       /\ \A j \in back_idx + 1 .. idx : MovesBehind(input[j])

\* It never moves a starter, nor a mark past one.
StartersStay ==
  pc \in {"sort", "shift"} =>
    /\ Len(input) = Len(Decomposed(source))
    /\ \A j \in DOMAIN input :
         /\ Starter(input[j]) <=> Starter(Decomposed(source)[j])
         /\ Starter(input[j]) => input[j] = Decomposed(source)[j]

\* Working in place never damages what is still to be read, down to compose(),
\* which finds the decomposed and ordered string.
UnreadKept ==
  /\ DecomposesInPlace /\ MarksInOrder /\ StartersStay
  /\ pc \in {"compose", "marks"} =>
       \A j \in input_count + 1 .. Len(input) :
         input[j] = Ordered(Decomposed(source))[j]

\* The three passes together compute Normalization Form C.
Normalizes == pc = "done" /\ ok => input = Nfc(source)

\* The shortcut is sound, for to_ascii() and normalize() leave alone what it
\* accepts; and it only misses strings in which a mark follows a composite of a
\* higher class and yet stays there.
ShortcutIsSound ==
  pc # "idle" =>
    /\ is_already_nfc(source) => Nfc(source) = source
    /\ Nfc(source) = source => is_already_nfc(source) \/ MarksOutOfOrder(source)

\* "Returns true if `input` is already in Unicode Normalization Form C"
\* (include/ada/idna/normalization.h:9).
TrueIfNormal == pc # "idle" /\ Nfc(source) = source => is_already_nfc(source)
=============================================================================
