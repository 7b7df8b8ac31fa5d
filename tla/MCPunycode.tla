----------------------------- MODULE MCPunycode -----------------------------
(* Small bootstring parameters for the Punycode modules.  Of the six basic  *)
(* code points 0 .. 5, 0 is the delimiter, 1 .. 4 are the digits of base 4  *)
(* (not in the order of their values) and 5 is no digit.                    *)
EXTENDS Integers, Sequences, SequencesExt

MCDigitChar == [d \in 0 .. 3 |-> IF d < 2 THEN d + 3 ELSE d - 1]

\* "xn--", shortened to three code points.
MCAcePrefix == <<1, 0, 0>>

\* Encoded strings: 6 is the octet that is not ASCII.
MCStrings == BoundedSeq(0 .. 5, 4) \cup BoundedSeq(0 .. 6, 3)
  \cup BoundedSeq(1 .. 4, 5)
  \cup {MCAcePrefix \o s : s \in BoundedSeq(0 .. 4, 3)}

\* Labels: 6 is the first code point that is not basic, 9 a surrogate, 11 too
\* large; runs of equal, rising and falling code points.
MCLabels == BoundedSeq({0, 3, 5, 6, 7, 10}, 4)
  \cup BoundedSeq({1, 8, 9, 10, 11}, 3)
  \cup {MCAcePrefix \o s : s \in BoundedSeq({0, 6, 8}, 2)}

MCSurrogates == {9}
=============================================================================
