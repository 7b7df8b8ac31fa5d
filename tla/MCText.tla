------------------------------- MODULE MCText -------------------------------
(* Text for TLC: octets and code points from both sides of every limit, and a
   mapping table with every kind of block. *)
EXTENDS Text, SequencesExt

Boundary == {65, 127, 128, 143, 144, 159, 160, 191, 193, 194, 223, 224, 225, 237, 239,
             240, 241, 244, 245, 255}
Leads  == {223, 224, 225, 237, 240, 241, 244}
Others == {65, 128, 143, 144, 159, 160, 191}
MCOctets ==
  BoundedSeq(Boundary, 2) \cup {<<a, b, c>> : a \in Boundary, b \in Others, c \in Boundary}
  \cup {<<a>> \o s : a \in Leads, s \in SeqOf(Others, 3)}
  \cup {<<65, 90, 65>> \o s : s \in BoundedSeq(Boundary, 2)}

MCCodePoints ==
  BoundedSeq({0, 127, 128, 2047, 2048, 55295, 55296, 57343, 57344, 65535, 65536,
              1114111, 1114112}, 3)

\* Blocks of 64: ASCII maps its capitals; the second is disallowed; 160 .. 191 has an
\* ignored code point; then long mappings; then two equal blocks of bits; nothing;
\* and a last one that ends with a code point that maps to nothing.
MCValid == (0 .. 127 \ 65 .. 90) \cup 160 .. 172 \cup {223, 320, 325, 384, 389} \cup 448 .. 510
MCMapsTo ==
  [c \in 65 .. 90 |-> <<c + 32>>]
  @@ (173 :> <<>>) @@ (192 :> <<224, 8364>>) @@ (193 :> <<128512>>)
  @@ (194 :> <<97, 128512, 233>>) @@ (195 :> <<97>>) @@ (511 :> <<>>)

MCLabels ==
  BoundedSeq({65, 97, 128, 173, 192, 193, 194, 223, 320, 321, 389, 511, 512, 55296,
              917759, 917760, 917999, 918000}, 2)
  \cup SeqOf({65, 173, 192, 194, 320}, 3)

MCAsciiTexts == BoundedSeq({64, 65, 90, 91, 127}, 4) \cup BoundedSeq({0, 77, 96, 97, 122}, 3)
=============================================================================
