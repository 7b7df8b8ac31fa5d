------------------------------ MODULE ToAscii ------------------------------
(***************************************************************************)
(* to_ascii() of src/to_ascii.cpp, one action per stage and, in its scan   *)
(* over the mapped string, one per step that writes to out and one per     *)
(* exit: an ACE label is appended first and checked then, so a check that  *)
(* fails must undo that, and all that was written before.                  *)
(*                                                                         *)
(* map() is the first to ask for the tables.  Once it was told "true",     *)
(* TablesPromise never tells this thread "false" again, so the checks that *)
(* is_already_nfc(), normalize() and is_label_valid() repeat cannot fail:  *)
(* TypeOK says so, and the actions for the labels rely on it.             *)
(***************************************************************************)
EXTENDS Domain

CONSTANT Inputs    \* the strings it is called with

VARIABLES
  pc,      \* "idle", "map", "nfc", "labels", "ace", "puny" or "done"
  source,  \* ut8_string
  mapped,  \* the mapped string; in the scan, from the label at hand on
  out,     \* the caller's string: the answer so far
  ok       \* is it one, once pc = "done"

callVars == <<pc, source, mapped, out, ok>>
vars == <<tableVars, callVars>>

\* The caller's string may hold an earlier answer.
Idle ==
  /\ pc = "idle" /\ source = <<>> /\ mapped = <<>> /\ ok = FALSE
  /\ out \in {<<>>, <<Ace>>}

Init == Tables!Init /\ Idle

Return(answered) == pc' = "done" /\ ok' = answered

\* Mutant: the bound on the length comes first.
ShortAscii(s) == is_ascii(s) /\ ~TooLong(s)

FastPath(s) == is_ascii(s)

\* An ASCII string, of any length, is only made lower case.  Another one must
\* be UTF-8 and not too long.
Call(s) ==
  /\ pc = "idle"
  /\ source' = s
  /\ \/ /\ FastPath(s)
        /\ out' = from_ascii_to_ascii(s)
        /\ Return(TRUE)
     \/ /\ ~FastPath(s)
        /\ out' = <<>>
        /\ IF TooLong(s) \/ \E j \in DOMAIN s : ~WellFormed(s[j])
           THEN Return(FALSE)
           ELSE pc' = "map" /\ UNCHANGED ok
  /\ UNCHANGED <<mapped, tableVars>>

\* Nothing is written yet, so a failure leaves out as Call has cleared it.
Map ==
  /\ pc = "map"
  /\ \/ /\ Granted /\ Mappable(source)
        /\ mapped' = map(source)
        /\ pc' = "nfc"
        /\ UNCHANGED ok
     \/ /\ (Granted /\ ~Mappable(source)) \/ Refused
        /\ Return(FALSE)
        /\ UNCHANGED mapped
  /\ UNCHANGED <<source, out>>

Normalize ==
  /\ pc = "nfc"
  /\ mapped' = IF is_ascii(mapped) THEN mapped ELSE Nfc(mapped)
  /\ pc' = "labels"
  /\ UNCHANGED <<source, out, ok, tableVars>>

-----------------------------------------------------------------------------
(* The scan.                                                               *)
label_view == NextLabel(mapped)

AtAceLabel == pc = "labels" /\ mapped # <<>> /\ is_ace_prefix(label_view)
AtOtherLabel == pc = "labels" /\ mapped # <<>> /\ ~is_ace_prefix(label_view)

\* Something is appended, and the label is not done with.
AppendAndGoTo(ascii, where) ==
  /\ out' = out \o ascii
  /\ pc' = where
  /\ UNCHANGED <<source, mapped, ok, tableVars>>

\* The last of a label is appended, and the dot behind it; on to the next.
Write(ascii) ==
  /\ out' = out \o ascii \o DotAfter(mapped)
  /\ mapped' = AfterLabel(mapped)
  /\ pc' = "labels"
  /\ UNCHANGED <<source, ok, tableVars>>

\* The call fails at this label.  What becomes of out is up to each exit.
FailHere == Return(FALSE) /\ UNCHANGED <<source, mapped, tableVars>>

NonAsciiAce ==
  AtAceLabel /\ ~is_ascii(label_view) /\ out' = <<>> /\ FailHere

AppendAce ==
  AtAceLabel /\ is_ascii(label_view) /\ AppendAndGoTo(label_view, "ace")

\* The digits are looked at where they were appended, behind the prefix.
puny_segment_ascii == SubSeq(out, Len(out) - Len(label_view) + 2, Len(out))
working == Decode(puny_segment_ascii)

\* The checks of an ACE label, in their order.
Decodable  == working # Undecodable
NotOnlyAscii == Decodable /\ ~is_ascii(working)
MapsStably == NotOnlyAscii /\ MappedToItself(working)
NormalToo  == MapsStably /\ Normal(working)

UndecodableAce == pc = "ace" /\ ~Decodable /\ out' = <<>> /\ FailHere

AsciiAce == pc = "ace" /\ Decodable /\ ~NotOnlyAscii /\ out' = <<>> /\ FailHere

UnmappedAce == pc = "ace" /\ NotOnlyAscii /\ ~MapsStably /\ out' = <<>> /\ FailHere

\* Mutant: this exit does not clear out.
DenormalAceLeft == pc = "ace" /\ MapsStably /\ ~NormalToo /\ out' = out /\ FailHere

DenormalAce == pc = "ace" /\ MapsStably /\ ~NormalToo /\ out' = <<>> /\ FailHere

InvalidAce == pc = "ace" /\ NormalToo /\ ~Valid(working) /\ out' = <<>> /\ FailHere

AcceptAce == pc = "ace" /\ NormalToo /\ Valid(working) /\ Write(<<>>)

\* An empty label, too.
AsciiLabel == AtOtherLabel /\ is_ascii(label_view) /\ Write(label_view)

InvalidLabel ==
  /\ AtOtherLabel /\ ~is_ascii(label_view) /\ ~Valid(label_view)
  /\ out' = <<>> /\ FailHere

AppendPrefix ==
  /\ AtOtherLabel /\ ~is_ascii(label_view) /\ Valid(label_view)
  /\ AppendAndGoTo(<<Ace>>, "puny")

EncodeLabel ==
  pc = "puny" /\ Encode(label_view) # Unencodable /\ Write(Encode(label_view))

\* The prefix is there, and what utf32_to_punycode() wrote before it gave up.
UnencodableLabel ==
  pc = "puny" /\ Encode(label_view) = Unencodable /\ out' = <<>> /\ FailHere

Finish ==
  /\ pc = "labels" /\ mapped = <<>>
  /\ Return(TRUE)
  /\ UNCHANGED <<source, mapped, out, tableVars>>

AceLabel ==
  \/ NonAsciiAce \/ AppendAce \/ AcceptAce
  \/ UndecodableAce \/ AsciiAce \/ UnmappedAce \/ DenormalAce \/ InvalidAce

UnicodeLabel == InvalidLabel \/ AppendPrefix \/ EncodeLabel \/ UnencodableLabel

Step == Map \/ Normalize \/ AceLabel \/ AsciiLabel \/ UnicodeLabel \/ Finish

Others == OtherThreads /\ UNCHANGED callVars

Next == (\E s \in Inputs : Call(s)) \/ Step \/ Others

Spec == Init /\ [][Next]_vars

-----------------------------------------------------------------------------
\* Types, and what the header comment of this module relies on: past map(),
\* the tables are there for good.
TypeOK ==
  /\ pc \in {"idle", "map", "nfc", "labels", "ace", "puny", "done"}
  /\ ok \in BOOLEAN
  /\ pc \in {"nfc", "labels", "ace", "puny"} => answer[Caller] = "true"

\* Whichever exit it takes, before anything is written or in the middle of a label
\* after others, a failed call leaves the caller's string empty: neither an earlier
\* answer nor part of this one.
FailureLeavesNothing == pc = "done" /\ ~ok => out = <<>>

\* No label is lost, joined to another or split: an answer has as many dots, and
\* so as many labels, as the mapped string.
LabelsKept ==
  pc = "done" /\ ok /\ ~is_ascii(source) => Dots(out) = Dots(map(source))
=============================================================================
