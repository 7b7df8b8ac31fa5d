--------------------------- MODULE PunycodeEncode ---------------------------
(***************************************************************************)
(* utf32_to_punycode() of src/punycode.cpp, one action per turn of each of *)
(* its loops.  out is what the call appends: to_ascii() calls it with      *)
(* "xn--" already in place.                                                *)
(***************************************************************************)
EXTENDS Punycode, SequencesExt

CONSTANTS
  Labels,        \* the strings of code points it is called with
  MaxCodePoint,  \* 0x10FFFF
  Surrogates     \* 0xD800 .. 0xDFFF

\* adapt() is given the number of code points as an int32_t.
ASSUME EncodeAssumption ==
  /\ MaxCodePoint \in InitialN .. MaxInt
  /\ Surrogates \subseteq InitialN .. MaxCodePoint
  /\ Labels \subseteq {s \in Seq(Nat) : Len(s) <= MaxInt}

VARIABLES
  pc,     \* "idle", "copy", "outer", "scan", "digit", "adapt" or "done"
  input, out, n, d, bias, h, b,   \* the locals of those names
  pos,    \* how far the copying, or the scan of the input for n, has come
  q, k,   \* the integer being written and its digit's place
  delta,  \* adapt()'s d
  ok      \* the answer, once pc = "done"

vars == <<pc, input, out, n, d, bias, h, b, pos, q, k, delta, ok>>

Init ==
  /\ pc = "idle" /\ input = <<>> /\ out = <<>> /\ ok = FALSE
  /\ n = InitialN /\ d = 0 /\ bias = InitialBias /\ h = 0 /\ b = 0
  /\ pos = 1 /\ q = 0 /\ k = Base /\ delta = 0

Return(answer) == pc' = "done" /\ ok' = answer

Encodable(c) == c <= MaxCodePoint /\ c \notin Surrogates

Call(s) ==
  /\ pc = "idle"
  /\ input' = s
  /\ pc' = "copy"
  /\ UNCHANGED <<out, n, d, bias, h, b, pos, q, k, delta, ok>>

\* The basic code points are copied in order; the first one that cannot be
\* encoded ends the call there.
CopyTurn ==
  /\ pc = "copy" /\ pos <= Len(input)
  /\ LET c == input[pos]
     IN  /\ IF Basic(c) THEN h' = h + 1 /\ out' = Append(out, c)
                        ELSE UNCHANGED <<h, out>>
         /\ \/ Encodable(c) /\ pos' = pos + 1 /\ UNCHANGED <<pc, ok>>
            \/ ~Encodable(c) /\ Return(FALSE) /\ UNCHANGED pos
  /\ UNCHANGED <<input, n, d, bias, b, q, k, delta>>

EndCopy ==
  /\ pc = "copy" /\ pos > Len(input)
  /\ b' = h
  /\ out' = IF h > 0 THEN Append(out, Delimiter) ELSE out
  /\ pc' = "outer"
  /\ UNCHANGED <<input, n, d, bias, h, pos, q, k, delta, ok>>

\* Mutant: the code point n itself is passed over.
CodePointAfter ==
  LET pending == {c \in ToSet(input) : c > n /\ c < MaxCodePoint}
  IN  IF pending = {} THEN MaxCodePoint
      ELSE CHOOSE c \in pending : \A e \in pending : c <= e

\* The smallest code point not yet written.
NextCodePoint ==
  LET pending == {c \in ToSet(input) : c >= n /\ c < MaxCodePoint}
  IN  IF pending = {} THEN MaxCodePoint
      ELSE CHOOSE c \in pending : \A e \in pending : c <= e

\* Mutant: the product is not tested before it is added.
JumpUnchecked(m) == TRUE

JumpFits(m) == m - n <= (MaxInt - d) \div (h + 1)

StartScan ==
  /\ pc = "outer"
  /\ h < Len(input)
  /\ JumpFits(NextCodePoint)
  /\ d' = d + (NextCodePoint - n) * (h + 1)
  /\ n' = NextCodePoint
  /\ pos' = 1
  /\ pc' = "scan"
  /\ UNCHANGED <<input, out, bias, h, b, q, k, delta, ok>>

RejectJump ==
  /\ pc = "outer"
  /\ h < Len(input)
  /\ ~JumpFits(NextCodePoint)
  /\ Return(FALSE)
  /\ UNCHANGED <<input, out, n, d, bias, h, b, pos, q, k, delta>>

Finish ==
  /\ pc = "outer"
  /\ h >= Len(input)
  /\ Return(TRUE)
  /\ UNCHANGED <<input, out, n, d, bias, h, b, pos, q, k, delta>>

\* Mutant: d is not counted up at code points already written.
PassOverFirst(c) == d' = d

\* A code point below n has been written: one more place to skip.
PassOver(c) == d' = IF c < n THEN d + 1 ELSE d

Skip ==
  /\ pc = "scan"
  /\ pos <= Len(input)
  /\ input[pos] # n
  /\ input[pos] < n => d # MaxInt
  /\ PassOver(input[pos])
  /\ pos' = pos + 1
  /\ UNCHANGED <<pc, input, out, n, bias, h, b, q, k, delta, ok>>

RejectSkip ==
  /\ pc = "scan"
  /\ pos <= Len(input)
  /\ input[pos] < n /\ d = MaxInt
  /\ Return(FALSE)
  /\ UNCHANGED <<input, out, n, d, bias, h, b, pos, q, k, delta>>

StartInteger ==
  /\ pc = "scan"
  /\ pos <= Len(input)
  /\ input[pos] = n
  /\ q' = d /\ k' = Base
  /\ pc' = "digit"
  /\ UNCHANGED <<input, out, n, d, bias, h, b, pos, delta, ok>>

WriteDigit ==
  /\ pc = "digit"
  /\ LET t == Threshold(k, bias)
     IN  \/ /\ q >= t
            /\ out' = Append(out, digit_to_char(t + ((q - t) % (Base - t))))
            /\ q' = (q - t) \div (Base - t)
            /\ k' = k + Base
            /\ UNCHANGED <<pc, delta>>
         \/ /\ q < t
            /\ out' = Append(out, digit_to_char(q))
            /\ delta' = ScaleDelta(d, h + 1, h = b)
            /\ k' = 0
            /\ pc' = "adapt"
            /\ UNCHANGED q
  /\ UNCHANGED <<input, n, d, bias, h, b, pos, ok>>

AdaptScale ==
  /\ pc = "adapt"
  /\ NeedsScaling(delta)
  /\ delta' = ScaledDelta(delta)
  /\ k' = k + Base
  /\ UNCHANGED <<pc, input, out, n, d, bias, h, b, pos, q, ok>>

AdaptEnd ==
  /\ pc = "adapt"
  /\ ~NeedsScaling(delta)
  /\ bias' = NewBias(delta, k)
  /\ d' = 0
  /\ h' = h + 1
  /\ pos' = pos + 1
  /\ pc' = "scan"
  /\ UNCHANGED <<input, out, n, b, q, k, delta, ok>>

EndScan ==
  /\ pc = "scan"
  /\ pos > Len(input)
  /\ d' = d + 1
  /\ n' = n + 1
  /\ pc' = "outer"
  /\ UNCHANGED <<input, out, bias, h, b, pos, q, k, delta, ok>>

Step == \/ CopyTurn \/ EndCopy
        \/ StartScan \/ RejectJump \/ Finish
        \/ Skip \/ RejectSkip \/ StartInteger \/ WriteDigit
        \/ AdaptScale \/ AdaptEnd \/ EndScan

Next == (\E s \in Labels : Call(s)) \/ Step

Spec == Init /\ [][Next]_vars

-----------------------------------------------------------------------------
\* Types, and the int32_t arithmetic of d: no loop takes it out of range, the
\* unguarded increment at the end of a scan included.
TypeOK ==
  /\ pc \in {"idle", "copy", "outer", "scan", "digit", "adapt", "done"}
  /\ ok \in BOOLEAN
  /\ input \in Seq(Nat) /\ out \in Seq(0 .. InitialN - 1)
  /\ n \in InitialN .. MaxCodePoint + 1
  /\ d \in 0 .. MaxInt /\ q \in 0 .. MaxInt /\ delta \in 0 .. MaxInt
  /\ h \in 0 .. Len(input) /\ b \in 0 .. Len(input)
  /\ pos \in 1 .. Len(input) + 1
  /\ bias \in Nat /\ k \in Nat

\* h counts exactly the code points written, the condition under which d skips
\* the right number of places: at the head of the outer loop, those below n.
CountsWritten ==
  pc = "outer" =>
    h = Cardinality({p \in DOMAIN input : input[p] < n})
=============================================================================
