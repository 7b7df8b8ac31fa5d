---------------------------- MODULE MCTableSearch ----------------------------
(* TableSearch for TLC: every table over few code points.                       *)
EXTENDS TableSearch, SequencesExt

Numbers == 0 .. 8

\* The ranges of a set of numbers cut after each number of another.
Cut(S, C) ==
  LET first == {n \in S : n - 1 \notin S \/ n - 1 \in C}
      End(n) == CHOOSE m \in S : m >= n /\ n .. m \subseteq S /\ (m + 1 \notin S \/ m \in C)
                                  /\ \A k \in n .. m - 1 : k \notin C
  IN  SetToSortSeq({<<n, End(n)>> : n \in first}, LAMBDA e, f : e[1] < f[1])

\* A row of the odd numbers of a set, and every set of numbers.
MCRanges == {Cut(S, C) : S \in SUBSET (1 .. 7), C \in SUBSET {2, 3, 4}}
MCRows   == {[i \in 1 .. Len(s) |-> <<s[i], 100 + s[i]>>] :
               s \in {SetToSortSeq(S, <) : S \in SUBSET (1 .. 7)}}
MCIdStart    == <<<<1, 2>>, <<6, 6>>>>
MCIdContinue == <<<<1, 3>>, <<5, 7>>>>
=============================================================================
