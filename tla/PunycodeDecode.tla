--------------------------- MODULE PunycodeDecode ---------------------------
(***************************************************************************)
(* punycode_to_utf32() of src/punycode.cpp, called with an empty out as    *)
(* to_ascii() and to_unicode() call it.                                    *)
(***************************************************************************)
EXTENDS PunycodeLoop, SequencesExt

CONSTANT Inputs   \* the strings it is called with

\* written_out and the places in out are int32_t.
ASSUME InputsAssumption ==
  Inputs \subseteq {s \in Seq(Nat) : Len(s) <= MaxInt}

VARIABLE out      \* the code points decoded so far

vars == <<loopVars, out>>

Init == LoopInit /\ out = <<>>

\* Mutant: a leading delimiter is consumed like any other.
AnyDelimiter(s, e) ==
  /\ \A j \in e + 1 .. Len(s) : s[j] # Delimiter
  /\ e > 0 => s[e] = Delimiter

\* The ASCII part of s with its delimiter is e octets long, 0 if there is none.
\* A leading delimiter is left among the digits, where it is an error.
AsciiPart(s, e) ==
  \/ e = 0 /\ \A j \in 2 .. Len(s) : s[j] # Delimiter
  \/ /\ e > 1 /\ s[e] = Delimiter
     /\ \A j \in e + 1 .. Len(s) : s[j] # Delimiter

\* The octets before the delimiter are copied, up to one that is not ASCII.
Call(s) ==
  /\ pc = "idle"
  /\ source' = s
  /\ \E e \in 0 .. Len(s) :
       /\ AsciiPart(s, e)
       /\ \/ /\ \A j \in 1 .. e - 1 : Basic(s[j])
             /\ out' = SubSeq(s, 1, e - 1)
             /\ LoopStart(SubSeq(s, e + 1, Len(s)))
          \/ \E f \in 1 .. e - 1 :
               /\ ~Basic(s[f])
               /\ \A j \in 1 .. f - 1 : Basic(s[j])
               /\ out' = SubSeq(s, 1, f - 1)
               /\ Return(FALSE)
               /\ UNCHANGED <<input, n, i, bias, oldi, w, k, delta>>

\* out.insert(out.begin() + at, n)
Insert ==
  \E at \in 0 .. Len(out) :
    /\ Advance(Len(out), at)
    /\ out' = SubSeq(out, 1, at) \o <<n'>> \o SubSeq(out, at + 1, Len(out))

Finish ==
  /\ pc = "outer"
  /\ input = <<>>
  /\ Return(~IsPrefix(AcePrefix, out))
  /\ UNCHANGED <<source, input, n, i, bias, oldi, w, k, delta, out>>

Step == \/ LoopStep(Len(out)) /\ UNCHANGED out
        \/ Insert
        \/ Finish

Next == (\E s \in Inputs : Call(s)) \/ Step

Spec == Init /\ [][Next]_vars

-----------------------------------------------------------------------------
\* Types, and the int32_t arithmetic: nothing the loop computes leaves the
\* range its guards are there to keep, on any input.
TypeOK ==
  /\ pc \in {"idle", "outer", "digit", "adapt", "insert", "done"}
  /\ ok \in BOOLEAN
  /\ source \in Seq(Nat) /\ input \in Seq(Nat) /\ out \in Seq(0 .. MaxInt)
  /\ n \in InitialN .. MaxInt
  /\ i \in 0 .. MaxInt
  /\ oldi \in 0 .. MaxInt /\ w \in 1 .. MaxInt /\ delta \in 0 .. MaxInt
  /\ bias \in Nat /\ k \in Nat

\* verify_punycode() is punycode_to_utf32() that forgets all but the length and
\* the first code points of out: step by step it reads the same digits, rejects
\* the same strings and sees the same "xn--".  They part at a leading delimiter.
Verify == INSTANCE PunycodeVerify WITH
  first4      <- [j \in 0 .. Len(AcePrefix) - 1 |->
                    IF j < Len(out) THEN out[j + 1] ELSE 0],
  written_out <- Len(out)

LeadingDelimiter(s) == s # <<>> /\ Verify!AsciiPart(s, 1)

AgreesWithVerify ==
  Verify!Init /\ [][Verify!Call(source') \/ Verify!Step \/ LeadingDelimiter(source')]_vars
=============================================================================
