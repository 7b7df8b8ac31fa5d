--------------------------- MODULE MCNormalization ---------------------------
(* Normalization for TLC: a small Unicode.  Hangul has one leading consonant,   *)
(* two vowels and two final consonants; the other code points are one of each   *)
(* kind that the comments of the code name.                                     *)
EXTENDS Normalization

a == 1                                   \* a letter
overlay == 2  below == 3                 \* marks of classes 1, 220
above == 4    above2 == 5                \* two of class 230
aAbove == 6                              \* composites: a and above,
aBelow == 7   aBelowAbove == 8           \* ... a and below, and that and above
singleton == 9                           \* decomposes to a alone
excluded == 10                           \* to a and above2, which do not compose
tonos == 11                              \* to a and above, which compose to aAbove
dialytika == 12                          \* a mark that decomposes to two marks
compat == 13                             \* has a compatibility decomposition
p == 14  e == 15  ee == 16  pe == 17  pee == 18   \* U+16D63, 16D67 to 16D6A
leading == 20  vowel == 30  final == 41  open == 50  closed == 52

Marks == (overlay :> 1) @@ (below :> 220) @@ (above :> 230) @@ (above2 :> 230)
  @@ (dialytika :> 230)

CodePoints == 1 .. 18 \cup {leading, vowel, final} \cup 50 .. 55

MCCcc == [c \in CodePoints \cup {31, 42} |-> IF c \in DOMAIN Marks THEN Marks[c] ELSE 0]

Mapping ==
  (aAbove :> <<a, above>>) @@ (aBelow :> <<a, below>>)
  @@ (aBelowAbove :> <<a, below, above>>) @@ (singleton :> <<a>>)
  @@ (excluded :> <<a, above2>>) @@ (tonos :> <<a, above>>)
  @@ (dialytika :> <<above, above2>>) @@ (compat :> <<a, a>>)
  @@ (ee :> <<e, e>>) @@ (pe :> <<p, e>>) @@ (pee :> <<p, e, e>>)

MCDecomposition ==
  [c \in DOMAIN MCCcc |-> IF c \in DOMAIN Mapping THEN Mapping[c] ELSE <<>>]

MCCompatOnly == {compat}

MCComposition ==
  (<<a, above>> :> aAbove) @@ (<<a, below>> :> aBelow)
  @@ (<<aBelow, above>> :> aBelowAbove)
  @@ (<<e, e>> :> ee) @@ (<<p, e>> :> pe) @@ (<<pe, e>> :> pee)

Strings(S, n) == UNION {[1 .. l -> S] : l \in 0 .. n}

\* All short strings, and longer ones of what interacts.
MCInputs ==
  Strings(CodePoints, 2)
  \cup Strings({a, below, above, aAbove, aBelow, aBelowAbove, dialytika, e, ee, p, pe}, 3)
  \cup Strings({overlay, excluded, singleton, leading, vowel, final, open, closed}, 3)
  \cup [1 .. 4 -> {a, overlay, below, above, above2}]
=============================================================================
