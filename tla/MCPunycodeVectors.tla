------------------------ MODULE MCPunycodeVectors ------------------------
(* The encoder with the code's own parameters, on pairs taken from          *)
(* tests/fixtures/utf8_punycode_alternating.txt, and at the real limit.     *)
EXTENDS PunycodeEncode

RealDigitChar == [v \in 0 .. 35 |-> IF v < 26 THEN v + 97 ELSE v + 22]
RealAcePrefix == <<120, 110, 45, 45>>
RealSurrogates == 55296 .. 57343

\* Label and encoding, as code points.
Vectors == {
  << <<97>>,
     <<97, 45>> >>,
  << <<45, 45>>,
     <<45, 45, 45>> >>,
  << <<252>>,
     <<116, 100, 97>> >>,
  << <<20363>>,
     <<102, 115, 113>> >>,
  << <<128521>>,
     <<110, 50, 56, 104>> >>,
  << <<945, 946, 947>>,
     <<109, 120, 97, 99, 100>> >>,
  << <<77, 252, 110, 99, 104, 101, 110>>,
     <<77, 110, 99, 104, 101, 110, 45, 51, 121, 97>> >>,
  << <<1087, 1088, 1072, 1074, 1076, 1072>>,
     <<56, 48, 97, 97, 102, 105, 54, 99, 103>> >>,
  << <<12489, 12513, 12452, 12531, 21517, 20363>>,
     <<101, 99, 107, 119, 100, 52, 99, 55, 99, 117, 52, 55, 114, 50, 119, 102>> >>,
  << <<22242, 28100>>,
     <<51, 98, 115, 56, 53, 52, 99>> >> }

\* So many letters a and then c.
Far(letters, c) == Append([j \in 1 .. letters |-> 97], c)

\* The longest way to the last code point whose delta is an int32_t; one that is a
\* letter longer; and one on which the count of those passed over goes too far.
AtLimit   == Far(1926, 1114111)
PastLimit == {Far(1927, 1114111), Far(1929, 1112813)}

VectorLabels == {v[1] : v \in Vectors} \cup {AtLimit} \cup PastLimit

\* The encoder writes what the fixture says (tests/punycode_tests.cpp:82-93), with
\* the parameters of punycode.cpp:7-13, and gives up exactly where a delta would not
\* fit (punycode.cpp:215, 222).
MatchesFixture ==
  pc = "done" => IF input \in PastLimit THEN ~ok
                 ELSE ok /\ (input = AtLimit \/ <<input, out>> \in Vectors)
=============================================================================
