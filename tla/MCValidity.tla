----------------------------- MODULE MCValidity -----------------------------
(* Validity for TLC: one code point for each kind that the rules tell apart.    *)
EXTENDS Validity

\* Bidi class and joining type of each.
Classes ==
  ("latin" :> <<"L", "U">>) @@ ("mongolian" :> <<"L", "L">>)
  @@ ("hebrew" :> <<"R", "U">>) @@ ("alef" :> <<"AL", "R">>) @@ ("beh" :> <<"AL", "D">>)
  @@ ("european" :> <<"EN", "U">>) @@ ("arabic" :> <<"AN", "U">>)
  @@ ("hyphen" :> <<"ES", "U">>) @@ ("symbol" :> <<"ON", "U">>) @@ ("space" :> <<"WS", "U">>)
  @@ ("mark" :> <<"NSM", "T">>) @@ ("virama" :> <<"NSM", "T">>)
  @@ ("zwnj" :> <<"BN", "U">>) @@ ("zwj" :> <<"BN", "C">>)

MCDirection == [c \in DOMAIN Classes |-> Classes[c][1]]
MCJoining   == [c \in DOMAIN Classes |-> Classes[c][2]]
MCCombining == {"mark", "virama"}
MCVirama    == {"virama"}

Strings(S, n) == UNION {[1 .. l -> S] : l \in 0 .. n}

\* All labels of up to three code points, and longer ones of joiners and what is
\* around them, and of right-to-left text with digits.
MCInputs ==
  Strings(DOMAIN Classes, 3)
  \cup [1 .. 4 -> {"beh", "alef", "mongolian", "mark", "virama", "zwnj", "zwj"}]
  \cup [1 .. 4 -> {"hebrew", "beh", "european", "arabic", "symbol", "mark"}]

\* The labels of a domain.
MCLabels == Strings({"latin", "hebrew", "arabic", "european", "hyphen"}, 2)
=============================================================================
