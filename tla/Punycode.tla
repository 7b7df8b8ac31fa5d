------------------------------ MODULE Punycode ------------------------------
(***************************************************************************)
(* What the three functions of src/punycode.cpp share: the parameters of   *)
(* RFC 3492's bootstring and its arithmetic on them.                       *)
(*                                                                         *)
(* A code point, and an octet of encoded text, is a natural number.  The   *)
(* parameters are constants, so that TLC can be given small ones and the   *)
(* proofs are about all of them.  MaxInt is the 0x7fffffff that the code   *)
(* guards its int32_t arithmetic with.                                     *)
(***************************************************************************)
EXTENDS Integers, Sequences

CONSTANTS
  Base, TMin, TMax, Skew, Damp, InitialBias,
  InitialN,      \* the first code point that is not basic (0x80)
  MaxInt,        \* the largest int32_t
  Delimiter,     \* '-'
  DigitChar,     \* digit -> its basic code point
  AcePrefix      \* "xn--", in basic code points

ASSUME PunycodeAssumption ==
  /\ Base \in Nat /\ TMin \in Nat \ {0} /\ TMax \in TMin .. Base - 1
  /\ Skew \in Nat \ {0} /\ Damp \in Nat \ {0, 1}
  /\ InitialBias \in Nat
  /\ InitialN \in Nat
  /\ MaxInt \in Nat /\ InitialN <= MaxInt /\ Base <= MaxInt
  /\ Delimiter \in 0 .. InitialN - 1
  /\ DigitChar \in [0 .. Base - 1 -> 0 .. InitialN - 1]
  /\ \A d \in 0 .. Base - 1 : DigitChar[d] # Delimiter
  /\ \A d, e \in 0 .. Base - 1 : DigitChar[d] = DigitChar[e] => d = e
  /\ AcePrefix \in Seq(0 .. InitialN - 1)

Basic(c) == c < InitialN

IsDigit(c) == \E d \in 0 .. Base - 1 : DigitChar[d] = c

char_to_digit_value(c) == CHOOSE d \in 0 .. Base - 1 : DigitChar[d] = c

digit_to_char(d) == DigitChar[d]

\* t, which separates the last digit of a variable-length integer (< t) from
\* the others.
Threshold(k, bias) ==
  IF k <= bias THEN TMin ELSE IF k >= bias + TMax THEN TMax ELSE k - bias

\* Mutant: the first delta is damped like the others.
ScaleUndamped(d, points, firsttime) == d \div 2 + (d \div 2) \div points

\* adapt() before, in, and after its loop: the halved and spread delta, the
\* test and step of the loop, and the bias made from what it leaves.
ScaleDelta(d, points, firsttime) ==
  LET halved == d \div (IF firsttime THEN Damp ELSE 2)
  IN  halved + halved \div points

NeedsScaling(d) == d > ((Base - TMin) * TMax) \div 2

ScaledDelta(d) == d \div (Base - TMin)

NewBias(d, k) == k + ((Base - TMin + 1) * d) \div (d + Skew)
=============================================================================
