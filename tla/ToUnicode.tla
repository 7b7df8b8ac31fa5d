----------------------------- MODULE ToUnicode -----------------------------
(***************************************************************************)
(* to_unicode() of src/to_unicode.cpp, one action per kind of label.  It   *)
(* asks for the tables again for every label it decodes, so the answer may *)
(* change between two labels of one call: see NoGoingBack.                 *)
(***************************************************************************)
EXTENDS Domain

CONSTANT Inputs    \* the strings it is called with

\* Punycode decodes to a string, with no dot that was not in its digits.
ASSUME DecodeAssumption ==
  \A s \in Inputs :
    /\ IsString(s)
    /\ \A j, k \in DOMAIN s :
         LET label == SubSeq(s, j, k)
         IN  ~Contains(label, Dot) /\ Encoded(label) /\ Decodes(label) =>
               IsString(Decoded(label)) /\ ~Contains(Decoded(label), Dot)

VARIABLES
  pc,      \* "idle", "labels" or "done"
  source,  \* input
  rest,    \* what of it begins at label_start
  out,     \* the answer so far
  kept,    \* history: label by label, "kept", "refused" or "decoded"
  ok       \* is it one, once pc = "done"

callVars == <<pc, source, rest, out, kept, ok>>
vars == <<tableVars, callVars>>

Idle ==
  /\ pc = "idle" /\ source = <<>> /\ rest = <<>> /\ out = <<>> /\ kept = <<>>
  /\ ok = FALSE

Init == Tables!Init /\ Idle

Call(s) ==
  /\ pc = "idle"
  /\ source' = s
  /\ out' = <<>>
  /\ IF TooLong(s) THEN pc' = "done" /\ ok' = FALSE /\ UNCHANGED rest
                   ELSE pc' = "labels" /\ rest' = s /\ UNCHANGED ok
  /\ UNCHANGED <<kept, tableVars>>

Write(label, how) ==
  /\ out' = out \o label \o DotAfter(rest)
  /\ kept' = Append(kept, how)
  /\ rest' = AfterLabel(rest)
  /\ UNCHANGED <<pc, source, ok>>

\* Not encoded, or not an encoding of anything: copied, empty or not, ASCII or
\* not, UTF-8 or not.
KeepLabel ==
  /\ pc = "labels" /\ rest # <<>>
  /\ LET label == NextLabel(rest)
     IN  /\ Encoded(label) => ~Decodes(label)
         /\ Write(label, "kept")
  /\ UNCHANGED tableVars

\* Mutant: without tables, the label is decoded and left unchecked.
DecodedUnchecked(label) == Decoded(label)

WithoutTables(label) == label

\* map() is the first to ask for the tables; normalize() and is_label_valid()
\* are only asked once it was told "true", and are told so too.  The decoded
\* label is in range, as map() let it pass, so utf32_to_utf8() cannot fail.
DecodeLabel ==
  /\ pc = "labels" /\ rest # <<>>
  /\ LET label == NextLabel(rest)
     IN  /\ Encoded(label) /\ Decodes(label)
         /\ \/ Granted /\ Accepted(label) /\ Write(Decoded(label), "decoded")
            \/ Granted /\ ~Accepted(label) /\ Write(label, "kept")
            \/ Refused /\ Write(WithoutTables(label), "refused")

Finish ==
  /\ pc = "labels" /\ rest = <<>>
  /\ pc' = "done" /\ ok' = TRUE
  /\ UNCHANGED <<source, rest, out, kept, tableVars>>

Step == KeepLabel \/ DecodeLabel \/ Finish

Others == OtherThreads /\ UNCHANGED callVars

Next == (\E s \in Inputs : Call(s)) \/ Step \/ Others

Spec == Init /\ [][Next]_vars

-----------------------------------------------------------------------------
\* Types, and no label decoded before the tables were granted.
TypeOK ==
  /\ pc \in {"idle", "labels", "done"}
  /\ ok \in BOOLEAN
  /\ kept \in Seq({"kept", "refused", "decoded"})
  /\ Contains(kept, "decoded") => answer[Caller] = "true"

\* "ToUnicode never fails": whatever becomes of the tables while it runs, each
\* label of the answer is the label of the input in its place or, only if all
\* of its checks passed, the label that one encodes; never a part of it, and
\* never one that a check was skipped for.
LabelByLabel ==
  pc = "done" /\ ok =>
    /\ Dots(out) = Dots(source)
    /\ \A n \in 0 .. Dots(source) :
         \A given \in LabelsAt(source, n), answered \in LabelsAt(out, n) :
           \/ answered = given
           \/ LET d == Decoded(given)
              IN  /\ Encoded(given) /\ answered = d
                  /\ d # Undecodable /\ ~is_ascii(d)
                  /\ Mappable(d) /\ map(d) = d /\ Nfc(d) = d /\ Valid(d)

\* Labels may stay encoded because the tables were not there yet, but only up to
\* the first one that is decoded: no call decodes a label and then leaves a later
\* one encoded that it could decode.
NoGoingBack ==
  \A j, k \in DOMAIN kept : j < k /\ kept[j] = "decoded" => kept[k] # "refused"
=============================================================================
