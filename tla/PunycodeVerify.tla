--------------------------- MODULE PunycodeVerify ---------------------------
(***************************************************************************)
(* verify_punycode() of src/punycode.cpp: decodes without keeping what it  *)
(* decodes, but for the first code points, which it needs to recognise a   *)
(* doubly encoded "xn--" label.                                            *)
(***************************************************************************)
EXTENDS PunycodeLoop

CONSTANT Inputs   \* the strings it is called with

VARIABLES
  first4,       \* the first code points decoded so far, index from 0
  written_out   \* how many there are in all

vars == <<loopVars, first4, written_out>>

Slots == 0 .. Len(AcePrefix) - 1

Init ==
  /\ LoopInit
  /\ first4 = [j \in Slots |-> 0]
  /\ written_out = 0

\* The ASCII part of s with its delimiter is e octets long, 0 if there is none.
\* Any delimiter ends it, the first octet of the input included.
AsciiPart(s, e) ==
  /\ \A j \in e + 1 .. Len(s) : s[j] # Delimiter
  /\ e > 0 => s[e] = Delimiter

\* The first code points of a string; slots without one are 0.
First4(s) == [j \in Slots |-> IF j < Len(s) THEN s[j + 1] ELSE 0]

Copy(octets) == first4' = First4(octets) /\ written_out' = Len(octets)

Call(s) ==
  /\ pc = "idle"
  /\ source' = s
  /\ \E e \in 0 .. Len(s) :
       /\ AsciiPart(s, e)
       /\ \/ /\ \A j \in 1 .. e - 1 : Basic(s[j])
             /\ Copy(SubSeq(s, 1, e - 1))
             /\ LoopStart(SubSeq(s, e + 1, Len(s)))
          \/ \E f \in 1 .. e - 1 :
               /\ ~Basic(s[f])
               /\ \A j \in 1 .. f - 1 : Basic(s[j])
               /\ Copy(SubSeq(s, 1, f - 1))
               /\ Return(FALSE)
               /\ UNCHANGED <<input, n, i, bias, oldi, w, k, delta>>

\* Mutant: the slots behind the insertion are not moved.
OverwriteSlot(at, c) == [first4 EXCEPT ![at] = c]

InsertSlot(at, c) ==
  [j \in Slots |-> IF j < at THEN first4[j]
                   ELSE IF j = at THEN c ELSE first4[j - 1]]

Insert ==
  \E at \in 0 .. written_out :
    /\ Advance(written_out, at)
    /\ first4' = IF at \in Slots THEN InsertSlot(at, n') ELSE first4
    /\ written_out' = written_out + 1

\* Nothing left to decode: reject a doubly encoded label.
Finish ==
  /\ pc = "outer"
  /\ input = <<>>
  /\ Return(~(/\ written_out >= Len(AcePrefix)
              /\ \A j \in Slots : first4[j] = AcePrefix[j + 1]))
  /\ UNCHANGED <<source, input, n, i, bias, oldi, w, k, delta, first4, written_out>>

Step == \/ LoopStep(written_out) /\ UNCHANGED <<first4, written_out>>
        \/ Insert
        \/ Finish

Next == (\E s \in Inputs : Call(s)) \/ Step

Spec == Init /\ [][Next]_vars

-----------------------------------------------------------------------------
\* "A leading '-' therefore starts the encoded part, is not a digit, and the
\* input is invalid" (tests/punycode_tests.cpp:118-119).
LeadingDelimiterRejected ==
  pc = "done" /\ source # <<>> /\ AsciiPart(source, 1) => ~ok
=============================================================================
