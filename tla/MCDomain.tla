------------------------------ MODULE MCDomain ------------------------------
(***************************************************************************)
(* Symbols for TLC, and what the called functions make of them.  All the   *)
(* symbols are records of one shape, so that they can be compared.         *)
(***************************************************************************)
EXTENDS Integers, Sequences, SequencesExt

Char(name) == [name |-> name, label |-> <<>>]

\* The digits that encode a label, and the same with a capital digit in them,
\* which is none to the decoder and becomes one in lower case.
Puny(label) == [name |-> "puny", label |-> label]
PunyCapital(label) == [name |-> "PUNY", label |-> label]

dot == Char(".")    ace == Char("xn--")
e == Char("e")      E == Char("E")         \* ASCII letters
acute == Char("acute")                     \* a combining mark
eacute == Char("eacute")                   \* e and the mark, composed
Eacute == Char("Eacute")                   \* maps to eacute
stop == Char("ideographic full stop")      \* maps to dot
wide == Char("fullwidth xn--")             \* maps to ace
hyphen == Char("soft hyphen")              \* ignored
joiner == Char("zero width joiner")        \* breaks ContextJ
ligature == Char("ligature")               \* maps to three times eacute
forbidden == Char("forbidden")
garbage == Char("garbage")                 \* bytes that are not UTF-8

MCAscii(c) == c.name \in {".", "xn--", "e", "E", "puny", "PUNY"}

LowerLetter(c) == IF c = E THEN e ELSE c

MCLower(c) ==
  IF c.name \in {"puny", "PUNY"}
  THEN Puny([j \in DOMAIN c.label |-> LowerLetter(c.label[j])])
  ELSE LowerLetter(c)

MCWellFormed(c) == c # garbage

\* An encoded label is shorter than the label, once it is long.
MCBytes(c) == IF c = ace THEN 4 ELSE IF MCAscii(c) THEN 1 ELSE 2

MCDisallowed(c) == c = forbidden

MCMapsTo(c) ==
  CASE MCAscii(c)  -> <<MCLower(c)>>
    [] c = Eacute  -> <<eacute>>
    [] c = ligature -> <<eacute, eacute, eacute>>
    [] c = stop    -> <<dot>>
    [] c = wide    -> <<ace>>
    [] c = hyphen  -> <<>>
    [] OTHER       -> <<c>>

MCNfc(s) ==
  FoldLeft(LAMBDA t, c : IF c = acute /\ t # <<>> /\ Last(t) = e
                         THEN Append(Front(t), eacute) ELSE Append(t, c),
           <<>>, s)

MCValid(s) == Head(s) # acute /\ ~Contains(s, joiner)

MCUndecodable == <<Char("undecodable")>>

\* Other strings of digits do not decode, and no "xn--" label is decoded.
MCDecode(s) ==
  IF s = <<>> THEN <<>>
  ELSE IF Len(s) = 1 /\ s[1].name = "puny" /\ Head(s[1].label) # ace
  THEN s[1].label ELSE MCUndecodable

MCUnencodable == <<Char("unencodable")>>

\* Some labels are too long to be encoded: the delta is no int32_t.
MCEncode(s) == IF Len(s) > 3 THEN MCUnencodable ELSE <<Puny(s)>>

\* Encodings: of a good label, of a capital one, of ones that are not stable, not
\* NFC, only ASCII, not valid, and of an encoding; and one with a capital digit.
Encodings ==
  {Puny(l) : l \in {<<eacute>>, <<E, eacute>>, <<Eacute>>, <<e, acute>>, <<e>>,
                    <<acute>>, <<ace, eacute>>}}
    \cup {PunyCapital(<<eacute>>)}

Symbols ==
  Encodings \cup {dot, ace, e, E, acute, eacute, Eacute, stop, wide, hyphen,
                  joiner, ligature, forbidden, garbage}

\* All the short strings, and domains of two or three labels: encodings of every
\* kind, one in wide letters, and labels that are not encoded; one that grows.
Strings(len) == UNION {[1 .. l -> Symbols] : l \in 0 .. len}

EncodedLabels == {<<ace, p>> : p \in Encodings} \cup {<<wide, Puny(<<eacute>>)>>}

Plain == {<<>>, <<e>>, <<eacute>>, <<E, acute>>, <<eacute, e, e, eacute>>, <<ace, eacute>>}

Dotted(a, b) == a \o <<dot>> \o b

Domains ==
  LET labels == EncodedLabels \cup Plain
      pairs  == {Dotted(a, b) : a \in labels, b \in labels}
  IN  {Dotted(<<ligature>>, <<ligature>>)} \cup pairs
        \cup {Dotted(<<ace, Puny(<<eacute>>)>>, d) : d \in pairs}

\* The tables are stable, as the code takes for granted: what map() returns, and
\* what normalising that gives, map() leaves alone.
ASSUME \A c \in Symbols \ {forbidden, garbage} :
         \A d \in ToSet(MCMapsTo(c)) : MCMapsTo(d) = <<d>>
ASSUME MCMapsTo(eacute) = <<eacute>>
=============================================================================
