---------------------------- MODULE PunycodeLoop ----------------------------
(***************************************************************************)
(* The loop over the encoded digits, which punycode_to_utf32() and         *)
(* verify_punycode() of src/punycode.cpp contain line for line: read one   *)
(* generalised variable-length integer into i, then adapt the bias.  What  *)
(* the two functions do with each decoded code point is their own.         *)
(***************************************************************************)
EXTENDS Punycode

VARIABLES
  pc,     \* "idle", "outer", "digit", "adapt", "insert" or "done"
  source, \* the argument of the call
  input,  \* its octets that are not yet consumed
  n, i, bias, oldi, w, k,  \* the locals of those names
  delta,  \* adapt()'s d
  ok      \* the answer, once pc = "done"

loopVars == <<pc, source, input, n, i, bias, oldi, w, k, delta, ok>>

LoopInit ==
  /\ pc = "idle" /\ source = <<>> /\ input = <<>> /\ ok = FALSE
  /\ n = InitialN /\ i = 0 /\ bias = InitialBias
  /\ oldi = 0 /\ w = 1 /\ k = Base /\ delta = 0

Return(answer) == pc' = "done" /\ ok' = answer

\* The ASCII part is consumed: rest is left, all the other locals are as new.
LoopStart(rest) ==
  /\ pc' = "outer" /\ input' = rest
  /\ UNCHANGED <<n, i, bias, oldi, w, k, delta, ok>>

StartInteger ==
  /\ pc = "outer"
  /\ input # <<>>
  /\ pc' = "digit"
  /\ oldi' = i /\ w' = 1 /\ k' = Base
  /\ UNCHANGED <<source, input, n, i, bias, delta, ok>>

\* Mutant: the test that i stays an int32_t is missing.
DigitUnchecked(digit) == TRUE

DigitFits(digit) == digit <= (MaxInt - i) \div w

WeightFits(t) == w <= MaxInt \div (Base - t)

\* One turn of the loop over k; points is written_out.
ReadDigit(points) ==
  /\ pc = "digit"
  /\ input # <<>>
  /\ LET c     == Head(input)
         digit == char_to_digit_value(c)
         t     == Threshold(k, bias)
     IN  /\ IsDigit(c) /\ DigitFits(digit)
         /\ i' = i + digit * w
         /\ \/ /\ digit < t
               /\ pc' = "adapt"
               /\ delta' = ScaleDelta(i' - oldi, points + 1, oldi = 0)
               /\ k' = 0
               /\ UNCHANGED <<w, ok>>
            \/ /\ digit >= t /\ WeightFits(t)
               /\ w' = w * (Base - t)
               /\ k' = k + Base
               /\ UNCHANGED <<pc, delta, ok>>
            \/ /\ digit >= t /\ ~WeightFits(t)
               /\ Return(FALSE)
               /\ UNCHANGED <<w, k, delta>>
  /\ input' = Tail(input)
  /\ UNCHANGED <<source, n, bias, oldi>>

Truncated == input = <<>>

\* No digit left, not a digit, or one that would overflow i.
RejectDigit ==
  /\ pc = "digit"
  /\ \/ Truncated /\ UNCHANGED input
     \/ /\ input # <<>>
        /\ LET c == Head(input)
           IN  IsDigit(c) => ~DigitFits(char_to_digit_value(c))
        /\ input' = Tail(input)
  /\ Return(FALSE)
  /\ UNCHANGED <<source, n, i, bias, oldi, w, k, delta>>

AdaptScale ==
  /\ pc = "adapt"
  /\ NeedsScaling(delta)
  /\ delta' = ScaledDelta(delta)
  /\ k' = k + Base
  /\ UNCHANGED <<source, pc, input, n, i, bias, oldi, w, ok>>

AdaptEnd ==
  /\ pc = "adapt"
  /\ ~NeedsScaling(delta)
  /\ bias' = NewBias(delta, k)
  /\ pc' = "insert"
  /\ UNCHANGED <<source, input, n, i, oldi, w, k, delta, ok>>

\* The next code point would not be an int32_t.
CodePointOverflows(points) == i \div (points + 1) > MaxInt - n

\* n and i as they are when the code point n is inserted at position at.  The
\* code then tests n < 0x80, which cannot be: n never falls below InitialN.
Advance(points, at) ==
  /\ pc = "insert"
  /\ ~CodePointOverflows(points)
  /\ n' = n + i \div (points + 1)
  /\ at = i % (points + 1)
  /\ i' = at + 1
  /\ pc' = "outer"
  /\ UNCHANGED <<source, input, bias, oldi, w, k, delta, ok>>

RejectCodePoint(points) ==
  /\ pc = "insert"
  /\ CodePointOverflows(points)
  /\ Return(FALSE)
  /\ UNCHANGED <<source, input, n, i, bias, oldi, w, k, delta>>

LoopStep(points) ==
  StartInteger \/ ReadDigit(points) \/ RejectDigit \/ AdaptScale \/ AdaptEnd
    \/ RejectCodePoint(points)
=============================================================================
