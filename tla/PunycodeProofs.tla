--------------------------- MODULE PunycodeProofs ---------------------------
(***************************************************************************)
(* Proofs about punycode_to_utf32() and utf32_to_punycode(), each by       *)
(* itself and one after the other: for every choice of the parameters and  *)
(* every input of at most MaxInt octets or code points.                    *)
(***************************************************************************)
EXTENDS PunycodeRoundTrip, TLAPS, SequenceTheorems, FiniteSetTheorems

\* There is room for the code points still to come: each takes at least one
\* octet, and the one being inserted has had its own.
Room ==
  /\ pc = "done" => Len(out) <= MaxInt
  /\ pc \in {"outer", "digit"} => Len(out) + Len(input) <= MaxInt
  /\ pc \in {"adapt", "insert"} => Len(out) + Len(input) < MaxInt

IInv ==
  /\ TypeOK
  /\ Room
  /\ pc = "digit" => oldi <= i

-----------------------------------------------------------------------------
(* The arithmetic, guard by guard.                                         *)
LEMMA Parameters ==
  /\ Base \in Nat /\ TMin \in Nat \ {0} /\ TMax \in Nat
  /\ TMin <= TMax /\ TMax < Base /\ Base <= MaxInt
  /\ Skew \in Nat \ {0} /\ Damp \in Nat /\ Damp >= 2
  /\ InitialBias \in Nat /\ InitialN \in Nat
  /\ MaxInt \in Nat /\ InitialN <= MaxInt
  BY PunycodeAssumption

LEMMA DivNat ==
  ASSUME NEW x \in Nat, NEW y \in Nat \ {0}
  PROVE  /\ x \div y \in 0 .. x
         /\ y * (x \div y) <= x
         /\ x % y \in 0 .. y - 1
  OBVIOUS

LEMMA TimesMonotone ==
  ASSUME NEW x \in Nat, NEW y \in Nat, NEW z \in Nat, x <= y
  PROVE  z * x <= z * y
  OBVIOUS

\* digit > (0x7fffffff - i) / w is the right test for i + digit * w.
LEMMA DigitKeepsInt ==
  ASSUME TypeOK, NEW digit \in Nat, DigitFits(digit)
  PROVE  i + digit * w \in i .. MaxInt
  <1>1. MaxInt \in Nat /\ i \in 0 .. MaxInt /\ w \in Nat \ {0}
    BY Parameters DEF TypeOK
  <1> DEFINE room == MaxInt - i
             r == room \div w
  <1>2. room \in Nat
    BY <1>1
  <1>4. digit <= r
    BY DEF DigitFits
  <1>6. digit * w = w * digit /\ digit * w \in Nat
    BY <1>1
  <1>7. ASSUME w * digit <= room
        PROVE  i + digit * w \in i .. MaxInt
    BY <1>1, <1>6, <1>7
  <1> HIDE DEF room
  <1>3. r \in Nat /\ w * r <= room
    BY <1>1, <1>2, DivNat
  <1>5. w * digit <= w * r
    BY <1>1, <1>3, <1>4, TimesMonotone
  <1>8. w * digit \in Nat /\ w * r \in Nat
    BY <1>1, <1>3
  <1> HIDE DEF r
  <1> QED
    BY <1>2, <1>3, <1>5, <1>7, <1>8

\* Not TMin .. TMax: k - bias is at least 1, which is what tmin is.
LEMMA ThresholdRange ==
  ASSUME NEW kk \in Nat, NEW bb \in Nat
  PROVE  Threshold(kk, bb) \in 1 .. TMax
  BY Parameters DEF Threshold

\* w > 0x7fffffff / (base - t) is the right test for w * (base - t).
LEMMA WeightKeepsInt ==
  ASSUME TypeOK, NEW t \in 1 .. TMax, WeightFits(t)
  PROVE  w * (Base - t) \in 1 .. MaxInt
  <1>1. MaxInt \in Nat /\ w \in Nat \ {0} /\ Base - t \in Nat \ {0}
    BY Parameters DEF TypeOK
  <1> DEFINE y == Base - t
             r == MaxInt \div y
  <1>0. y \in Nat \ {0} /\ w <= r
    BY <1>1 DEF WeightFits
  <1> HIDE DEF y
  <1>2. r \in Nat /\ y * r <= MaxInt
    BY <1>0, <1>1, DivNat
  <1>3. w <= r
    BY <1>0
  <1>4. y * w <= y * r
    BY <1>0, <1>1, <1>2, <1>3, TimesMonotone
  <1>5. y * w \in Nat \ {0} /\ w * y = y * w /\ y * r \in Nat
    BY <1>0, <1>1, <1>2
  <1> HIDE DEF r
  <1>6. w * y \in 1 .. MaxInt
    BY <1>1, <1>2, <1>4, <1>5
  <1> QED
    BY <1>6 DEF y

\* adapt() never leaves more than it was given.
LEMMA ScaleDeltaRange ==
  ASSUME NEW x \in Nat, NEW points \in Nat \ {0}, NEW firsttime \in BOOLEAN
  PROVE  ScaleDelta(x, points, firsttime) \in 0 .. x
  <1> DEFINE y == IF firsttime THEN Damp ELSE 2
             halved == x \div y
  <1>1. y \in Nat /\ y >= 2
    BY Parameters
  <1> HIDE DEF y
  <1>2. halved \in Nat /\ y * halved <= x
    BY <1>1, DivNat
  <1>3. halved \div points \in 0 .. halved
    BY <1>2, DivNat
  <1>4. halved * 2 <= halved * y
    BY <1>1, <1>2, TimesMonotone
  <1>5. halved * y = y * halved /\ y * halved \in Nat
    BY <1>1, <1>2
  <1>6. ScaleDelta(x, points, firsttime) = halved + halved \div points
    BY DEF ScaleDelta, y
  <1> HIDE DEF halved
  <1> QED
    BY <1>2, <1>3, <1>4, <1>5, <1>6

LEMMA NewBiasNat ==
  ASSUME NEW x \in Nat, NEW kk \in Nat
  PROVE  NewBias(x, kk) \in Nat
  <1> DEFINE y == (Base - TMin + 1) * x
             z == x + Skew
  <1>1. y \in Nat /\ z \in Nat \ {0}
    BY Parameters
  <1> HIDE DEF y, z
  <1>2. y \div z \in Nat
    BY <1>1, DivNat
  <1> QED
    BY <1>2 DEF NewBias, y, z

-----------------------------------------------------------------------------
(* One step of each kind.                                                  *)
LEMMA DigitValue ==
  ASSUME NEW c, IsDigit(c)
  PROVE  char_to_digit_value(c) \in Nat
  <1>1. \E d \in 0 .. Base - 1 : DigitChar[d] = c
    BY DEF IsDigit
  <1>2. char_to_digit_value(c) \in 0 .. Base - 1
    BY <1>1 DEF char_to_digit_value
  <1> QED
    BY <1>2, Parameters

LEMMA InitIInv == Init => IInv
  <1> SUFFICES ASSUME Init PROVE IInv
    OBVIOUS
  <1>1. /\ n \in InitialN .. MaxInt /\ i \in 0 .. MaxInt
        /\ oldi \in 0 .. MaxInt /\ w \in 1 .. MaxInt /\ delta \in 0 .. MaxInt
        /\ bias \in Nat /\ k \in Nat
    BY Parameters DEF Init, LoopInit
  <1>2. source = <<>> /\ input = <<>> /\ out = <<>> /\ ok = FALSE /\ pc = "idle"
    BY DEF Init, LoopInit
  <1>3. source \in Seq(Nat) /\ input \in Seq(Nat) /\ out \in Seq(0 .. MaxInt)
    BY <1>2
  <1> QED
    BY <1>1, <1>2, <1>3 DEF IInv, TypeOK, Room

LEMMA OutFits ==
  ASSUME IInv, pc # "idle"
  PROVE  Len(out) \in Nat /\ Len(out) <= MaxInt
  <1>1. Len(out) \in Nat /\ Len(input) \in Nat /\ MaxInt \in Nat
    BY Parameters DEF IInv, TypeOK
  <1>2. pc = "done" \/ Len(out) + Len(input) <= MaxInt \/ Len(out) + Len(input) < MaxInt
    BY DEF IInv, TypeOK, Room
  <1> QED
    BY <1>1, <1>2 DEF IInv, Room

LEMMA CallKeeps ==
  ASSUME IInv, NEW s \in Inputs, Call(s)
  PROVE  IInv'
  <1>1. s \in Seq(Nat) /\ Len(s) \in 0 .. MaxInt
    BY InputsAssumption
  <1>2. PICK e \in 0 .. Len(s) :
          \/ /\ \A j \in 1 .. e - 1 : Basic(s[j])
             /\ out' = SubSeq(s, 1, e - 1)
             /\ LoopStart(SubSeq(s, e + 1, Len(s)))
          \/ \E f \in 1 .. e - 1 :
               /\ \A j \in 1 .. f - 1 : Basic(s[j])
               /\ out' = SubSeq(s, 1, f - 1)
               /\ Return(FALSE)
               /\ UNCHANGED <<input, n, i, bias, oldi, w, k, delta>>
    BY DEF Call
  <1>3. source' = s
    BY DEF Call
  <1>4. ASSUME NEW g \in 0 .. Len(s), \A j \in 1 .. g : Basic(s[j])
        PROVE  /\ SubSeq(s, 1, g) \in Seq(0 .. MaxInt)
               /\ Len(SubSeq(s, 1, g)) = g
    <2>1. \A j \in 1 .. g : s[j] \in 0 .. MaxInt
      BY <1>1, <1>4, Parameters, SMTT(60) DEF Basic
    <2> QED
      BY <1>1, <2>1, SubSeqProperties
  <1>5. CASE /\ \A j \in 1 .. e - 1 : Basic(s[j])
             /\ out' = SubSeq(s, 1, e - 1)
             /\ LoopStart(SubSeq(s, e + 1, Len(s)))
    <2>1. SubSeq(s, e + 1, Len(s)) \in Seq(Nat)
          /\ Len(SubSeq(s, e + 1, Len(s))) = Len(s) - e
      <3>1. /\ \A j \in e + 1 .. Len(s) : s[j] \in Nat
            /\ e + 1 \in Int /\ Len(s) \in Int
        BY <1>1
      <3>2. /\ SubSeq(s, e + 1, Len(s)) \in Seq(Nat)
            /\ Len(SubSeq(s, e + 1, Len(s)))
                 = IF e + 1 <= Len(s) THEN Len(s) - (e + 1) + 1 ELSE 0
        BY ONLY <3>1, SubSeqProperties
      <3>3. (IF e + 1 <= Len(s) THEN Len(s) - (e + 1) + 1 ELSE 0) = Len(s) - e
        BY <3>1
      <3> QED
        BY ONLY <3>2, <3>3
    <2>2. out' \in Seq(0 .. MaxInt) /\ Len(out') <= e
      <3>1. CASE e = 0
        <4>1. out' = <<>>
          BY <1>5, <3>1, SubSeqEmpty
        <4> QED
          BY <3>1, <4>1
      <3>2. CASE e > 0
        <4>1. e - 1 \in 0 .. Len(s)
          BY <1>1, <3>2
        <4> QED
          BY <1>4, <1>5, <4>1, SMTT(60)
      <3> QED
        BY <1>1, <3>1, <3>2
    <2>3. Len(out') + Len(input') <= MaxInt
      <3>1. input' = SubSeq(s, e + 1, Len(s))
        BY <1>5 DEF LoopStart
      <3>2. Len(input') = Len(s) - e /\ Len(out') \in Nat
        BY <2>1, <2>2, <3>1
      <3> QED
        BY <1>1, <2>2, <3>2, Parameters
    <2> QED
      BY <1>1, <1>3, <1>5, <2>1, <2>2, <2>3 DEF LoopStart, IInv, TypeOK, Room
  <1>6. ASSUME NEW f \in 1 .. e - 1,
               \A j \in 1 .. f - 1 : Basic(s[j]),
               out' = SubSeq(s, 1, f - 1),
               Return(FALSE),
               UNCHANGED <<input, n, i, bias, oldi, w, k, delta>>
        PROVE  IInv'
    <2>1. f - 1 \in 0 .. Len(s)
      BY <1>1
    <2>2. out' \in Seq(0 .. MaxInt) /\ Len(out') = f - 1
      BY <1>4, <1>6, <2>1
    <2>3. Len(out') <= MaxInt
      BY <1>1, <2>2, Parameters
    <2> QED
      BY <1>1, <1>3, <1>6, <2>2, <2>3 DEF Return, IInv, TypeOK, Room
  <1> QED
    BY <1>2, <1>5, <1>6

LEMMA StartIntegerKeeps ==
  ASSUME IInv, StartInteger, UNCHANGED out
  PROVE  IInv'
  BY Parameters DEF StartInteger, IInv, TypeOK, Room

LEMMA ReadDigitKeeps ==
  ASSUME IInv, ReadDigit(Len(out)), UNCHANGED out
  PROVE  IInv'
  <1> DEFINE c == Head(input)
             digit == char_to_digit_value(c)
             t == Threshold(k, bias)
  <1>1. pc = "digit" /\ input # <<>> /\ IsDigit(c) /\ DigitFits(digit)
        /\ i' = i + digit * w /\ input' = Tail(input)
        /\ UNCHANGED <<source, n, bias, oldi>>
    BY DEF ReadDigit
  <1>2. t \in 1 .. TMax
    BY ThresholdRange DEF IInv, TypeOK
  <1>3. i' \in i .. MaxInt
    BY <1>1, DigitValue, DigitKeepsInt DEF IInv
  <1>4. /\ input' \in Seq(Nat) /\ Len(input') = Len(input) - 1
    BY <1>1, HeadTailProperties DEF IInv, TypeOK
  <1>5. /\ oldi \in Nat /\ i \in Nat /\ i' \in Nat /\ oldi <= i' /\ i' <= MaxInt
        /\ Len(out) \in Nat /\ Len(input) \in Nat
        /\ Len(out) + Len(input) <= MaxInt
    BY <1>1, <1>3, Parameters, SMTT(60) DEF IInv, TypeOK, Room
  <1>6. Len(out) + Len(input') < MaxInt
    BY <1>4, <1>5, Parameters
  <1>7. CASE /\ pc' = "adapt" /\ k' = 0 /\ UNCHANGED <<w, ok>>
             /\ delta' = ScaleDelta(i' - oldi, Len(out) + 1, oldi = 0)
    <2>0. Len(out) + 1 \in Nat \ {0}
      BY <1>5
    <2>1. i' - oldi \in Nat /\ i' - oldi <= MaxInt
      <3>1. \A x, y \in Nat : y <= x /\ x <= MaxInt
                               => x - y \in Nat /\ x - y <= MaxInt
        BY Parameters
      <3> QED
        BY <1>5, <3>1
    <2>2. delta' \in 0 .. i' - oldi
      BY <1>7, <2>0, <2>1, ScaleDeltaRange
    <2>3. delta' \in 0 .. MaxInt
      BY <2>1, <2>2, Parameters
    <2> QED
      BY <1>1, <1>3, <1>4, <1>5, <1>6, <1>7, <2>3, Parameters
      DEF IInv, TypeOK, Room
  <1>8. CASE /\ WeightFits(t) /\ w' = w * (Base - t) /\ k' = k + Base
             /\ UNCHANGED <<pc, delta, ok>>
    <2>1. w' \in 1 .. MaxInt
      BY <1>2, <1>8, WeightKeepsInt DEF IInv
    <2>2. k' \in Nat
      BY <1>8, Parameters DEF IInv, TypeOK
    <2> QED
      BY <1>1, <1>3, <1>4, <1>5, <1>6, <1>8, <2>1, <2>2, Parameters
      DEF IInv, TypeOK, Room
  <1>9. CASE Return(FALSE) /\ UNCHANGED <<w, k, delta>>
    <2>1. i' \in 0 .. MaxInt
      BY <1>5, Parameters
    <2>2. pc' = "done" /\ ok' = FALSE
      BY <1>9 DEF Return
    <2> QED
      BY <1>1, <1>4, <1>9, <2>1, <2>2, OutFits DEF IInv, TypeOK, Room
  <1> QED
    BY <1>7, <1>8, <1>9 DEF ReadDigit

LEMMA RejectDigitKeeps ==
  ASSUME IInv, RejectDigit, UNCHANGED out
  PROVE  IInv'
  <1>1. input' \in Seq(Nat)
    BY HeadTailProperties DEF RejectDigit, IInv, TypeOK
  <1> QED
    BY <1>1, OutFits DEF RejectDigit, Return, IInv, TypeOK, Room

LEMMA AdaptScaleKeeps ==
  ASSUME IInv, AdaptScale, UNCHANGED out
  PROVE  IInv'
  <1> DEFINE y == Base - TMin
  <1>1. y \in Nat \ {0} /\ delta \in Nat /\ delta <= MaxInt
    BY Parameters DEF IInv, TypeOK
  <1>2. delta' = delta \div y
    BY DEF AdaptScale, ScaledDelta
  <1> HIDE DEF y
  <1>3. delta' \in 0 .. delta
    BY <1>1, <1>2, DivNat
  <1>4. delta' \in 0 .. MaxInt /\ k' \in Nat
    BY <1>1, <1>3, Parameters DEF AdaptScale, IInv, TypeOK
  <1> QED
    BY <1>4 DEF AdaptScale, IInv, TypeOK, Room

LEMMA AdaptEndKeeps ==
  ASSUME IInv, AdaptEnd, UNCHANGED out
  PROVE  IInv'
  <1>1. bias' \in Nat
    BY NewBiasNat, Parameters DEF AdaptEnd, IInv, TypeOK
  <1> QED
    BY <1>1 DEF AdaptEnd, IInv, TypeOK, Room

LEMMA RejectCodePointKeeps ==
  ASSUME IInv, RejectCodePoint(Len(out)), UNCHANGED out
  PROVE  IInv'
  BY OutFits DEF RejectCodePoint, Advance, Return, IInv, TypeOK, Room

LEMMA InsertKeeps ==
  ASSUME IInv, Insert
  PROVE  IInv'
  <1>1. PICK at \in 0 .. Len(out) :
          /\ Advance(Len(out), at)
          /\ out' = SubSeq(out, 1, at) \o <<n'>> \o SubSeq(out, at + 1, Len(out))
    BY DEF Insert
  <1> DEFINE q == i \div (Len(out) + 1)
  <1>2. /\ i \in Nat /\ n \in Nat /\ n >= InitialN /\ n <= MaxInt
        /\ Len(out) \in Nat /\ Len(input) \in Nat
        /\ pc = "insert" /\ Len(out) + Len(input) < MaxInt
    <2>1. pc = "insert"
      BY <1>1 DEF Advance
    <2>2. /\ i \in Nat /\ n \in Nat /\ n >= InitialN /\ n <= MaxInt
      BY Parameters DEF IInv, TypeOK
    <2>3. Len(out) \in Nat /\ Len(input) \in Nat
      BY DEF IInv, TypeOK
    <2>4. Len(out) + Len(input) < MaxInt
      BY <2>1, <2>3, Parameters DEF IInv, Room
    <2> QED
      BY <2>1, <2>2, <2>3, <2>4
  <1>3. q \in Nat
    <2> DEFINE y == Len(out) + 1
    <2>1. y \in Nat \ {0}
      BY <1>2
    <2> HIDE DEF y
    <2>2. i \div y \in 0 .. i
      BY <1>2, <2>1, DivNat
    <2> QED
      BY <1>2, <2>2 DEF y
  <1>4. q <= MaxInt - n /\ n' = n + q
    BY <1>1, <1>2, <1>3, Parameters, SMTT(60) DEF Advance, CodePointOverflows
  <1> HIDE DEF q
  <1>5. n' \in InitialN .. MaxInt
    BY <1>2, <1>3, <1>4, Parameters
  <1>6. i' \in 0 .. MaxInt
    BY <1>1, <1>2, Parameters, SMTT(60) DEF Advance
  <1>7. out' \in Seq(0 .. MaxInt) /\ Len(out') = Len(out) + 1
    <2> DEFINE S == 0 .. MaxInt
               before == SubSeq(out, 1, at)
               after == SubSeq(out, at + 1, Len(out))
    <2>0. n' \in S
      BY <1>5, Parameters
    <2>1. out \in Seq(S) /\ <<n'>> \in Seq(S) /\ Len(<<n'>>) = 1
      BY <2>0 DEF IInv, TypeOK
    <2>7. \A p \in 1 .. Len(out) : out[p] \in S
      <3> HIDE DEF S
      <3> QED
        BY <2>1
    <2>2. before \in Seq(S) /\ Len(before) = at
      <3>1. \A p \in 1 .. at : out[p] \in S
        BY <1>2, <2>7
      <3> HIDE DEF S
      <3>2. before \in Seq(S) /\ Len(before) = IF 1 <= at THEN at - 1 + 1 ELSE 0
        BY <3>1, SubSeqProperties
      <3> QED
        BY <3>2
    <2>3. after \in Seq(S) /\ Len(after) = Len(out) - at
      <3>1. \A p \in at + 1 .. Len(out) : out[p] \in S
        BY <1>2, <2>7
      <3> HIDE DEF S
      <3>2. /\ after \in Seq(S)
            /\ Len(after) = IF at + 1 <= Len(out) THEN Len(out) - (at + 1) + 1
                            ELSE 0
        BY <1>2, <3>1, SubSeqProperties
      <3> QED
        BY <1>2, <3>2
    <2>4. out' = (before \o <<n'>>) \o after
      BY <1>1
    <2> HIDE DEF S, before, after
    <2>5. before \o <<n'>> \in Seq(S) /\ Len(before \o <<n'>>) = at + 1
      BY <2>1, <2>2, ConcatProperties
    <2> DEFINE front == before \o <<n'>>
    <2>8. front \in Seq(S) /\ Len(front) = at + 1 /\ out' = front \o after
      BY <2>4, <2>5
    <2> HIDE DEF front
    <2>9. front \o after \in Seq(S) /\ Len(front \o after) = Len(front) + Len(after)
      BY <2>3, <2>8, ConcatProperties
    <2>6. out' \in Seq(S) /\ Len(out') = (at + 1) + (Len(out) - at)
      BY <2>3, <2>8, <2>9
    <2> QED
      BY <1>2, <2>6 DEF S
  <1> QED
    <2>1. pc' = "outer" /\ UNCHANGED <<source, input, bias, oldi, w, k, delta, ok>>
      BY <1>1 DEF Advance
    <2>3. Len(out') + Len(input) <= MaxInt
      BY ONLY <1>2, <1>7, Parameters
    <2>2. TypeOK'
      BY <1>5, <1>6, <1>7, <2>1 DEF IInv, TypeOK
    <2> QED
      BY <2>1, <2>2, <2>3, Zenon DEF IInv, Room

LEMMA FinishKeeps ==
  ASSUME IInv, Finish
  PROVE  IInv'
  <1>1. ok' \in BOOLEAN
    BY DEF Finish, Return, IsPrefix
  <1> QED
    BY <1>1 DEF Finish, Return, IInv, TypeOK, Room

LEMMA NextIInv == IInv /\ [Next]_vars => IInv'
  <1> SUFFICES ASSUME IInv, [Next]_vars
               PROVE  IInv'
    OBVIOUS
  <1>1. CASE UNCHANGED vars
    BY <1>1 DEF vars, loopVars, IInv, TypeOK, Room
  <1>2. CASE Next
    BY <1>2, CallKeeps, StartIntegerKeeps, ReadDigitKeeps, RejectDigitKeeps,
       AdaptScaleKeeps, AdaptEndKeeps, RejectCodePointKeeps, InsertKeeps,
       FinishKeeps
    DEF Next, Step, LoopStep
  <1> QED
    BY <1>1, <1>2

\* No int32_t of punycode_to_utf32() overflows and no code point it inserts is
\* basic, for all inputs and all parameters: the guards are sufficient.
THEOREM NoOverflow == Spec => []TypeOK
  <1>1. IInv => TypeOK
    BY DEF IInv
  <1> QED
    BY <1>1, InitIInv, NextIInv, PTL DEF Spec

-----------------------------------------------------------------------------
(* utf32_to_punycode().                                                    *)

\* The places of the code points below m, and of those equal to m before place j.
Places(m, j) ==
  {p \in 1 .. Len(einput) : einput[p] < m \/ (einput[p] = m /\ p < j)}

\* The basic code points before place j.
BasicBefore(j) == {p \in 1 .. j - 1 : einput[p] < InitialN}

InScan == epc \in {"scan", "digit", "adapt"}

\* h counts what is written, at every place in the loops.
Counted ==
  /\ epc = "copy" => eh = Cardinality(BasicBefore(epos))
  /\ epc = "outer" => eh = Cardinality(Places(en, 1))
  /\ InScan => eh = Cardinality(Places(en, epos))

\* A scan is for a code point that occurs, so that n stays one.
InRange ==
  /\ epc = "copy" => \A p \in 1 .. epos - 1 : einput[p] <= MaxCodePoint
  /\ epc = "outer" \/ InScan => \A p \in 1 .. Len(einput) : einput[p] <= MaxCodePoint
  /\ InScan => \E p \in 1 .. Len(einput) : einput[p] = en
  /\ epc \in {"digit", "adapt"} => epos <= Len(einput) /\ einput[epos] = en

\* d was set to zero in this scan, and has only counted places since.
Restarted ==
  InScan /\ (\E p \in 1 .. epos - 1 : einput[p] = en) => ed <= epos - 2

EncoderIInv ==
  /\ E!TypeOK
  /\ Len(einput) <= MaxInt
  /\ epc = "idle" => eh = 0 /\ eb = 0 /\ epos = 1
  /\ epc \in {"idle", "copy"} => en = InitialN
  /\ Counted /\ InRange /\ Restarted

-----------------------------------------------------------------------------
(* Counting.                                                               *)
LEMMA UpTo ==
  ASSUME NEW c \in Nat
  PROVE  IsFiniteSet(1 .. c) /\ Cardinality(1 .. c) = c
  <1>1. 1 \in Int /\ c \in Int
    OBVIOUS
  <1>2. IsFiniteSet(1 .. c) /\ Cardinality(1 .. c) = IF 1 > c THEN 0 ELSE c - 1 + 1
    BY <1>1, FS_Interval
  <1> QED
    BY <1>2

LEMMA LeastNatural ==
  ASSUME NEW S \in SUBSET Nat, S # {}
  PROVE  \E least \in S : \A c \in S : least <= c
  <1> DEFINE R == {ss \in Nat \X Nat : ss[1] < ss[2]}
  <1>1. IsWellFoundedOn(R, Nat)
    BY NatLessThanWellFounded DEF OpToRel
  <1>2. PICK least \in S : \A c \in S : ~(<<c, least>> \in R)
    <2> HIDE DEF R
    <2> QED
      BY <1>1, WFMin
  <1>3. ASSUME NEW c \in S
        PROVE  least <= c
    <2>1. least \in Nat /\ c \in Nat /\ ~(c < least)
      BY <1>2
    <2> QED
      BY <2>1
  <1> QED
    BY <1>3

LEMMA PlacesFinite ==
  ASSUME einput \in Seq(Nat), NEW m, NEW j
  PROVE  /\ IsFiniteSet(Places(m, j))
         /\ Cardinality(Places(m, j)) \in 0 .. Len(einput)
         /\ Cardinality(Places(m, j)) = Len(einput) => Places(m, j) = 1 .. Len(einput)
  <1>1. Len(einput) \in Nat /\ Places(m, j) \in SUBSET (1 .. Len(einput))
    BY DEF Places
  <1>2. IsFiniteSet(1 .. Len(einput)) /\ Cardinality(1 .. Len(einput)) = Len(einput)
    BY <1>1, UpTo
  <1>3. /\ IsFiniteSet(Places(m, j))
        /\ Cardinality(Places(m, j)) <= Len(einput)
        /\ Cardinality(Places(m, j)) = Len(einput) => Places(m, j) = 1 .. Len(einput)
    BY <1>1, <1>2, FS_Subset
  <1>4. Cardinality(Places(m, j)) \in Nat
    BY <1>3, FS_CardinalityType
  <1> QED
    BY <1>1, <1>3, <1>4

\* One more place is one more in the count.
LEMMA PlacesAdd ==
  ASSUME einput \in Seq(Nat), NEW j \in 1 .. Len(einput), NEW m \in Nat, einput[j] = m
  PROVE  /\ Cardinality(Places(m, j + 1)) = Cardinality(Places(m, j)) + 1
         /\ Cardinality(Places(m, j)) < Len(einput)
  <1>1. Places(m, j + 1) = Places(m, j) \cup {j} /\ j \notin Places(m, j)
    <2>1. ASSUME NEW p \in 1 .. Len(einput)
          PROVE  p < j + 1 <=> p < j \/ p = j
      OBVIOUS
    <2>2. ~(einput[j] < m)
      OBVIOUS
    <2> QED
      BY <2>1, <2>2 DEF Places
  <1>2. Cardinality(Places(m, j + 1)) = Cardinality(Places(m, j)) + 1
    BY <1>1, PlacesFinite, FS_AddElement
  <1>3. Cardinality(Places(m, j + 1)) <= Len(einput) /\ Cardinality(Places(m, j)) \in Nat
    BY PlacesFinite
  <1> QED
    BY <1>2, <1>3

\* The places before the first one, and all of them, are those below.
LEMMA PlacesAtEnds ==
  ASSUME einput \in Seq(Nat), NEW m \in Nat
  PROVE  /\ Places(m, 1) = {p \in 1 .. Len(einput) : einput[p] < m}
         /\ Places(m, Len(einput) + 1) = Places(m + 1, 1)
  <1>1. ASSUME NEW p \in 1 .. Len(einput)
        PROVE  /\ ~(p < 1) /\ p < Len(einput) + 1
               /\ einput[p] < m \/ einput[p] = m <=> einput[p] < m + 1
    OBVIOUS
  <1> QED
    BY <1>1 DEF Places

LEMMA BasicFinite ==
  ASSUME einput \in Seq(Nat), NEW j \in 1 .. Len(einput) + 1
  PROVE  /\ IsFiniteSet(BasicBefore(j))
         /\ Cardinality(BasicBefore(j)) \in 0 .. j - 1
  <1>1. j - 1 \in Nat /\ BasicBefore(j) \in SUBSET (1 .. j - 1)
    BY DEF BasicBefore
  <1>2. IsFiniteSet(1 .. j - 1) /\ Cardinality(1 .. j - 1) = j - 1
    BY <1>1, UpTo
  <1>3. IsFiniteSet(BasicBefore(j)) /\ Cardinality(BasicBefore(j)) <= j - 1
    BY <1>1, <1>2, FS_Subset
  <1> QED
    BY <1>1, <1>3, FS_CardinalityType

LEMMA BasicStep ==
  ASSUME einput \in Seq(Nat), NEW j \in 1 .. Len(einput)
  PROVE  Cardinality(BasicBefore(j + 1)) =
           Cardinality(BasicBefore(j)) + IF einput[j] < InitialN THEN 1 ELSE 0
  <1>0. (j + 1) - 1 = j /\ 1 .. j = 1 .. (j - 1) \cup {j} /\ j \notin 1 .. j - 1
    OBVIOUS
  <1>1. IsFiniteSet(BasicBefore(j)) /\ Cardinality(BasicBefore(j)) \in Nat
    BY BasicFinite
  <1>2. CASE einput[j] < InitialN
    <2>1. BasicBefore(j + 1) = BasicBefore(j) \cup {j} /\ j \notin BasicBefore(j)
      BY <1>0, <1>2 DEF BasicBefore
    <2> QED
      BY <1>1, <1>2, <2>1, FS_AddElement
  <1>3. CASE ~(einput[j] < InitialN)
    <2>1. BasicBefore(j + 1) = BasicBefore(j)
      BY <1>0, <1>3 DEF BasicBefore
    <2> QED
      BY <1>1, <1>3, <2>1
  <1> QED
    BY <1>2, <1>3

-----------------------------------------------------------------------------
(* One step of each kind, of the encoder.                                  *)
LEMMA EncoderParameters ==
  /\ MaxCodePoint \in Nat /\ InitialN <= MaxCodePoint /\ MaxCodePoint <= MaxInt
  /\ \A c \in Surrogates : InitialN <= c /\ c <= MaxCodePoint
  BY EncodeAssumption, Parameters

\* What TypeOK says of the numbers, spelled out.
LEMMA EncoderTypes ==
  ASSUME EncoderIInv
  PROVE  /\ einput \in Seq(Nat) /\ Len(einput) \in 0 .. MaxInt
         /\ \A p \in 1 .. Len(einput) : einput[p] \in Nat
         /\ en \in Nat /\ ed \in Nat /\ ed <= MaxInt /\ eh \in Nat /\ eh <= Len(einput)
         /\ epos \in 1 .. Len(einput) + 1
  BY Parameters, EncoderParameters, SMTT(60) DEF EncoderIInv, E!TypeOK

\* As long as something is left to write, there is a next code point, and it is
\* none that the scan of m would miss.
LEMMA NextOccurs ==
  ASSUME EncoderIInv, epc = "outer", eh < Len(einput)
  PROVE  /\ E!NextCodePoint \in en .. MaxCodePoint
         /\ \E p \in 1 .. Len(einput) : einput[p] = E!NextCodePoint
         /\ \A p \in 1 .. Len(einput) :
              einput[p] < E!NextCodePoint <=> einput[p] < en
  <1> DEFINE pending == {c \in ToSet(einput) : c >= en /\ c < MaxCodePoint}
             m == E!NextCodePoint
  <1>1. einput \in Seq(Nat) /\ en \in Nat /\ MaxCodePoint \in Nat
        /\ \A p \in 1 .. Len(einput) : einput[p] \in Nat /\ einput[p] <= MaxCodePoint
    BY EncoderTypes, EncoderParameters DEF EncoderIInv, InRange
  <1>2. PICK left \in 1 .. Len(einput) : einput[left] >= en
    <2>1. Places(en, 1) # 1 .. Len(einput)
      <3>1. Cardinality(1 .. Len(einput)) = Len(einput)
        BY <1>1, UpTo
      <3>2. eh = Cardinality(Places(en, 1))
        BY DEF EncoderIInv, Counted
      <3> QED
        BY <3>1, <3>2, EncoderTypes
    <2>2. Places(en, 1) = {p \in 1 .. Len(einput) : einput[p] < en}
      BY <1>1, PlacesAtEnds
    <2>3. PICK p \in 1 .. Len(einput) : ~(einput[p] < en)
      BY <2>1, <2>2
    <2> QED
      BY <1>1, <2>3
  <1>3. /\ \A c \in pending : c \in Nat /\ c >= en /\ c < MaxCodePoint
        /\ \A c \in pending : \E p \in 1 .. Len(einput) : einput[p] = c
        /\ \A p \in 1 .. Len(einput) :
             einput[p] >= en /\ einput[p] < MaxCodePoint => einput[p] \in pending
    BY <1>1, SMTT(60) DEF ToSet
  <1>4. m = IF pending = {} THEN MaxCodePoint
            ELSE CHOOSE c \in pending : \A e \in pending : c <= e
    BY Zenon DEF E!NextCodePoint, E!ToSet, ToSet
  <1> HIDE DEF pending, m
  <1>5. CASE pending = {}
    <2>1. m = MaxCodePoint
      BY <1>4, <1>5
    <2>2. \A p \in 1 .. Len(einput) : einput[p] < en \/ einput[p] = MaxCodePoint
      BY <1>1, <1>3, <1>5
    <2>3. einput[left] = MaxCodePoint /\ en <= MaxCodePoint
      BY <1>1, <1>2, <2>2
    <2> QED
      BY <1>1, <2>1, <2>2, <2>3 DEF m
  <1>6. CASE pending # {}
    <2>1. \E c \in pending : \A e \in pending : c <= e
      <3>1. pending \in SUBSET Nat
        BY <1>3
      <3> QED
        BY <1>6, <3>1, LeastNatural
    <2>2. m \in pending /\ \A e \in pending : m <= e
      BY <1>4, <1>6, <2>1
    <2>3. m \in Nat /\ m >= en /\ m < MaxCodePoint
          /\ \E p \in 1 .. Len(einput) : einput[p] = m
      BY <1>3, <2>2
    <2>4. ASSUME NEW p \in 1 .. Len(einput), einput[p] < m
          PROVE  einput[p] < en
      <3>1. CASE einput[p] >= en
        <4>1. einput[p] \in pending
          BY <1>1, <1>3, <2>3, <2>4, <3>1, SMTT(60)
        <4>2. m <= einput[p]
          BY <2>2, <4>1
        <4> QED
          BY <1>1, <2>3, <2>4, <4>2, SMTT(60)
      <3> QED
        BY <1>1, <3>1
    <2>5. ASSUME NEW p \in 1 .. Len(einput), einput[p] < en
          PROVE  einput[p] < m
      BY <1>1, <2>3, <2>5, SMTT(60)
    <2>6. m \in en .. MaxCodePoint
      BY <1>1, <2>3
    <2> QED
      BY <2>3, <2>4, <2>5, <2>6 DEF m
  <1> QED
    BY <1>5, <1>6

\* m - n > (0x7fffffff - d) / (h + 1) is the right test for d + (m - n) * (h + 1).
LEMMA JumpKeepsInt ==
  ASSUME NEW x \in Nat, NEW y \in Nat \ {0}, NEW z \in Nat, z <= MaxInt,
         x <= (MaxInt - z) \div y
  PROVE  z + x * y \in z .. MaxInt
  <1> DEFINE room == MaxInt - z
             r == room \div y
  <1>1. room \in Nat /\ MaxInt \in Nat
    BY Parameters
  <1>2. x <= r
    OBVIOUS
  <1>3. ASSUME y * x <= room
        PROVE  z + x * y \in z .. MaxInt
    <2>1. y * x = x * y /\ x * y \in Nat
      OBVIOUS
    <2> QED
      BY <1>1, <1>3, <2>1
  <1> HIDE DEF room
  <1>4. r \in Nat /\ y * r <= room
    BY <1>1, DivNat
  <1> HIDE DEF r
  <1>5. y * x <= y * r
    BY <1>2, <1>4, TimesMonotone
  <1>6. y * x \in Nat /\ y * r \in Nat
    BY <1>4
  <1> QED
    BY <1>1, <1>3, <1>4, <1>5, <1>6

\* The instance has its own names for what both functions share.
LEMMA SharedOperators ==
  /\ \A S : E!Cardinality(S) = Cardinality(S)
  /\ \A c : E!Basic(c) <=> Basic(c)
  /\ \A d : E!digit_to_char(d) = DigitChar[d]
  /\ \A kk, bb : E!Threshold(kk, bb) = Threshold(kk, bb)
  /\ \A x, points, first : E!ScaleDelta(x, points, first) = ScaleDelta(x, points, first)
  /\ \A x : E!NeedsScaling(x) <=> NeedsScaling(x)
  /\ \A x : E!ScaledDelta(x) = ScaledDelta(x)
  /\ \A x, kk : E!NewBias(x, kk) = NewBias(x, kk)
  <1>1. \A S : E!Cardinality(S) = Cardinality(S)
    BY DEF E!Cardinality, Cardinality
  <1>2. \A c : E!Basic(c) <=> Basic(c)
    BY DEF E!Basic, Basic
  <1>3. \A d : E!digit_to_char(d) = DigitChar[d]
    BY DEF E!digit_to_char
  <1>4. \A kk, bb : E!Threshold(kk, bb) = Threshold(kk, bb)
    BY DEF E!Threshold, Threshold
  <1>5. \A x, points, first : E!ScaleDelta(x, points, first) = ScaleDelta(x, points, first)
    BY DEF E!ScaleDelta, ScaleDelta
  <1>6. \A x : E!NeedsScaling(x) <=> NeedsScaling(x)
    BY DEF E!NeedsScaling, NeedsScaling
  <1>7. \A x : E!ScaledDelta(x) = ScaledDelta(x)
    BY DEF E!ScaledDelta, ScaledDelta
  <1>8. \A x, kk : E!NewBias(x, kk) = NewBias(x, kk)
    BY DEF E!NewBias, NewBias
  <1> QED
    BY <1>1, <1>2, <1>3, <1>4, <1>5, <1>6, <1>7, <1>8

LEMMA EncoderInit == ASSUME E!Init PROVE EncoderIInv
  <1>1. /\ epc = "idle" /\ einput = <<>> /\ eout = <<>> /\ eok = FALSE
        /\ en = InitialN /\ ed = 0 /\ ebias = InitialBias /\ eh = 0 /\ eb = 0
        /\ epos = 1 /\ eq = 0 /\ ek = Base /\ edelta = 0
    BY DEF E!Init
  <1>2. einput \in Seq(Nat) /\ eout \in Seq(0 .. InitialN - 1) /\ Len(einput) = 0
    BY <1>1
  <1>3. en \in InitialN .. MaxCodePoint + 1
    BY <1>1, Parameters, EncoderParameters
  <1>4. /\ ed \in 0 .. MaxInt /\ eq \in 0 .. MaxInt /\ edelta \in 0 .. MaxInt
        /\ ebias \in Nat /\ ek \in Nat
    BY <1>1, Parameters
  <1>5. /\ eh \in 0 .. Len(einput) /\ eb \in 0 .. Len(einput)
        /\ epos \in 1 .. Len(einput) + 1
    BY <1>1, <1>2
  <1>6. E!TypeOK
    BY <1>1, <1>2, <1>3, <1>4, <1>5 DEF E!TypeOK
  <1> QED
    BY <1>1, <1>2, <1>6, Parameters DEF EncoderIInv, Counted, InRange, Restarted, InScan

LEMMA EncoderCallKeeps ==
  ASSUME EncoderIInv, NEW s \in Seq(Nat), Len(s) <= MaxInt, E!Call(s)
  PROVE  EncoderIInv'
  <1>1. /\ epc = "idle" /\ epc' = "copy" /\ einput' = s
        /\ UNCHANGED <<eout, en, ed, ebias, eh, eb, epos, eq, ek, edelta, eok>>
        /\ eh = 0 /\ eb = 0 /\ en = InitialN /\ epos = 1
    BY DEF E!Call, EncoderIInv
  <1>2. /\ Len(s) \in Nat /\ eh \in 0 .. Len(s) /\ eb \in 0 .. Len(s)
        /\ epos \in 1 .. Len(s) + 1
    BY <1>1
  <1>3. E!TypeOK'
    BY <1>1, <1>2 DEF EncoderIInv, E!TypeOK
  <1>4. BasicBefore(epos)' = {}
    BY <1>1 DEF BasicBefore
  <1>5. Counted'
    <2>1. Cardinality({}) = 0
      BY FS_EmptySet
    <2> QED
      BY <1>1, <1>4, <2>1 DEF Counted, InScan
  <1>6. InRange'
    <2>1. 1 .. epos' - 1 = {}
      BY <1>1
    <2> QED
      BY <1>1, <2>1 DEF InRange, InScan
  <1> QED
    BY <1>1, <1>3, <1>5, <1>6 DEF EncoderIInv, Restarted, InScan

LEMMA CopyTurnKeeps ==
  ASSUME EncoderIInv, E!CopyTurn
  PROVE  EncoderIInv'
  <1> DEFINE c == einput[epos]
  <1>1. /\ epc = "copy" /\ epos \in 1 .. Len(einput) /\ c \in Nat
        /\ einput \in Seq(Nat) /\ en = InitialN
        /\ UNCHANGED <<einput, en, ed, ebias, eb, eq, ek, edelta>>
    BY EncoderTypes, SMTT(60) DEF E!CopyTurn, EncoderIInv
  <1>2. eh' = eh + (IF c < InitialN THEN 1 ELSE 0)
        /\ eh' = Cardinality(BasicBefore(epos + 1)) /\ eh' \in 0 .. epos
    <2>1. eh = Cardinality(BasicBefore(epos))
      BY <1>1 DEF EncoderIInv, Counted
    <2>2. eh' = IF c < InitialN THEN eh + 1 ELSE eh
      BY SharedOperators DEF E!CopyTurn, Basic
    <2>3. Cardinality(BasicBefore(epos + 1)) \in 0 .. (epos + 1) - 1
      <3>1. epos + 1 \in 1 .. Len(einput) + 1
        BY <1>1
      <3> QED
        BY <1>1, <3>1, BasicFinite
    <2>4. eh \in Nat
      BY EncoderTypes
    <2> QED
      BY <1>1, <2>1, <2>2, <2>3, <2>4, BasicStep, SMTT(60)
  <1>3. eout' \in Seq(0 .. InitialN - 1)
    <2>1. eout' = IF c < InitialN THEN Append(eout, c) ELSE eout
      BY SharedOperators DEF E!CopyTurn, Basic
    <2>2. eout \in Seq(0 .. InitialN - 1)
      BY DEF EncoderIInv, E!TypeOK
    <2>3. c < InitialN => c \in 0 .. InitialN - 1
      BY <1>1, Parameters, SMTT(60)
    <2> QED
      BY <2>1, <2>2, <2>3, AppendProperties
  <1>4. CASE E!Encodable(c) /\ epos' = epos + 1 /\ UNCHANGED <<epc, eok>>
    <2>1. epos' \in 1 .. Len(einput) + 1 /\ BasicBefore(epos)' = BasicBefore(epos')
      BY <1>1, <1>4 DEF BasicBefore
    <2>2. E!TypeOK'
      BY <1>1, <1>2, <1>3, <1>4, <2>1, SMTT(60) DEF EncoderIInv, E!TypeOK
    <2>3. Counted'
      BY <1>1, <1>2, <1>4, <2>1 DEF Counted, InScan
    <2>4. InRange'
      <3>1. c <= MaxCodePoint /\ \A p \in 1 .. epos - 1 : einput[p] <= MaxCodePoint
        BY <1>1, <1>4 DEF E!Encodable, EncoderIInv, InRange
      <3>2. \A p \in 1 .. epos' - 1 : p = epos \/ p \in 1 .. epos - 1
        BY <1>1, <1>4
      <3> QED
        BY <1>1, <1>4, <3>1, <3>2 DEF InRange, InScan
    <2> QED
      BY <1>1, <1>4, <2>2, <2>3, <2>4 DEF EncoderIInv, Restarted, InScan
  <1>5. CASE E!Return(FALSE) /\ UNCHANGED epos
    <2>1. epc' = "done" /\ eok' = FALSE
      BY <1>5 DEF E!Return
    <2>2. eh' \in 0 .. Len(einput)
      BY <1>1, <1>2
    <2>3. E!TypeOK'
      BY <1>1, <1>3, <1>5, <2>1, <2>2 DEF EncoderIInv, E!TypeOK
    <2> QED
      BY <1>1, <2>1, <2>3 DEF EncoderIInv, Counted, InRange, Restarted, InScan
  <1> QED
    BY <1>4, <1>5 DEF E!CopyTurn

\* All basic code points have been copied, and none of them is n = 0x80 or more.
LEMMA EndCopyKeeps ==
  ASSUME EncoderIInv, E!EndCopy
  PROVE  EncoderIInv'
  <1>1. /\ epc = "copy" /\ epc' = "outer" /\ epos > Len(einput)
        /\ eb' = eh /\ en = InitialN
        /\ UNCHANGED <<einput, en, ed, ebias, eh, epos, eq, ek, edelta, eok>>
    BY DEF E!EndCopy, EncoderIInv
  <1>2. einput \in Seq(Nat) /\ epos = Len(einput) + 1
    BY <1>1, EncoderTypes
  <1>3. eout' \in Seq(0 .. InitialN - 1)
    <2>1. eout \in Seq(0 .. InitialN - 1) /\ Delimiter \in 0 .. InitialN - 1
      BY PunycodeAssumption DEF EncoderIInv, E!TypeOK
    <2>2. eout' = IF eh > 0 THEN Append(eout, Delimiter) ELSE eout
      BY DEF E!EndCopy
    <2> QED
      BY <2>1, <2>2, AppendProperties
  <1>4. E!TypeOK'
    BY <1>1, <1>3 DEF EncoderIInv, E!TypeOK
  <1>5. eh = Cardinality(Places(en, 1))
    <2>1. 1 .. epos - 1 = 1 .. Len(einput)
      BY <1>2
    <2>2. BasicBefore(epos) = {p \in 1 .. Len(einput) : einput[p] < en}
      BY <1>1, <2>1 DEF BasicBefore
    <2>3. BasicBefore(epos) = Places(en, 1)
      BY <1>2, <2>2, PlacesAtEnds, EncoderTypes
    <2> QED
      BY <1>1, <2>3 DEF EncoderIInv, Counted
  <1>6. Counted'
    BY <1>1, <1>5 DEF Counted, InScan, Places
  <1>7. InRange'
    <2>1. 1 .. epos - 1 = 1 .. Len(einput)
      BY <1>2
    <2> QED
      BY <1>1, <2>1 DEF EncoderIInv, InRange, InScan
  <1> QED
    BY <1>1, <1>4, <1>6, <1>7 DEF EncoderIInv, Restarted, InScan

LEMMA StartScanKeeps ==
  ASSUME EncoderIInv, E!StartScan
  PROVE  EncoderIInv'
  <1> DEFINE m == E!NextCodePoint
  <1>1. /\ epc = "outer" /\ eh < Len(einput) /\ E!JumpFits(m)
        /\ ed' = ed + (m - en) * (eh + 1)
        /\ en' = m /\ epos' = 1 /\ epc' = "scan"
        /\ UNCHANGED <<einput, eout, ebias, eh, eb, eq, ek, edelta, eok>>
    BY DEF E!StartScan
  <1>2. /\ m \in en .. MaxCodePoint
        /\ \E p \in 1 .. Len(einput) : einput[p] = m
        /\ \A p \in 1 .. Len(einput) : einput[p] < m <=> einput[p] < en
    BY <1>1, NextOccurs
  <1>3. m - en <= (MaxInt - ed) \div (eh + 1)
    BY <1>1 DEF E!JumpFits
  <1> HIDE DEF m
  <1>4. /\ einput \in Seq(Nat) /\ en \in Nat /\ ed \in Nat /\ ed <= MaxInt
        /\ eh \in Nat /\ MaxCodePoint \in Nat /\ InitialN \in Nat
        /\ en \in InitialN .. MaxCodePoint + 1 /\ Len(einput) \in Nat
    BY EncoderTypes, EncoderParameters, Parameters DEF EncoderIInv, E!TypeOK
  <1>5. m \in Nat /\ m - en \in Nat /\ eh + 1 \in Nat \ {0} /\ m \in InitialN .. MaxCodePoint + 1
    BY <1>2, <1>4
  <1>6. ed' \in 0 .. MaxInt
    <2>1. ed' \in ed .. MaxInt
      BY <1>1, <1>3, <1>4, <1>5, JumpKeepsInt
    <2> QED
      BY <1>4, <2>1, Parameters
  <1>7. E!TypeOK'
    <2>1. epos' \in 1 .. Len(einput) + 1
      BY <1>1, <1>4
    <2> QED
      BY <1>1, <1>5, <1>6, <2>1 DEF EncoderIInv, E!TypeOK
  <1>8. Counted'
    <2>1. Places(m, 1) = Places(en, 1)
      BY <1>2, <1>4, <1>5, PlacesAtEnds
    <2>2. Places(en, epos)' = Places(m, 1)
      BY <1>1 DEF Places
    <2> QED
      BY <1>1, <2>1, <2>2 DEF EncoderIInv, Counted, InScan
  <1>9. InRange'
    BY <1>1, <1>2 DEF EncoderIInv, InRange, InScan
  <1>10. Restarted'
    <2>1. 1 .. epos' - 1 = {}
      BY <1>1
    <2> QED
      BY <2>1 DEF Restarted
  <1> QED
    BY <1>1, <1>4, <1>7, <1>8, <1>9, <1>10 DEF EncoderIInv

LEMMA EncoderReturnKeeps ==
  ASSUME EncoderIInv, NEW answer \in BOOLEAN, E!Return(answer),
         UNCHANGED <<einput, eout, en, ed, ebias, eh, eb, epos, eq, ek, edelta>>
  PROVE  EncoderIInv'
  <1>1. epc' = "done" /\ eok' = answer
    BY DEF E!Return
  <1>2. E!TypeOK'
    BY <1>1 DEF EncoderIInv, E!TypeOK
  <1> QED
    BY <1>1, <1>2 DEF EncoderIInv, Counted, InRange, Restarted, InScan

\* A place is passed over: it counts for d if its code point has been written.
LEMMA SkipKeeps ==
  ASSUME EncoderIInv, E!Skip
  PROVE  EncoderIInv'
  <1> DEFINE c == einput[epos]
  <1>1. /\ epc = "scan" /\ epos \in 1 .. Len(einput) /\ c # en
        /\ c < en => ed # MaxInt
        /\ ed' = IF c < en THEN ed + 1 ELSE ed
        /\ epos' = epos + 1
        /\ UNCHANGED <<epc, einput, eout, en, ebias, eh, eb, eq, ek, edelta, eok>>
    BY EncoderTypes DEF E!Skip, E!PassOver
  <1>2. /\ einput \in Seq(Nat) /\ Len(einput) \in Nat /\ ed \in Nat /\ ed <= MaxInt
        /\ epos \in Nat
    BY <1>1, EncoderTypes
  <1>3. E!TypeOK'
    <2>1. ed' \in 0 .. MaxInt /\ epos' \in 1 .. Len(einput) + 1
      BY <1>1, <1>2, Parameters
    <2> QED
      BY <1>1, <2>1 DEF EncoderIInv, E!TypeOK
  <1>4. Places(en, epos') = Places(en, epos)
    <2>1. ASSUME NEW p \in 1 .. Len(einput), einput[p] = en
          PROVE  p < epos + 1 <=> p < epos
      <3>1. p # epos
        BY <1>1, <2>1
      <3> QED
        BY <1>2, <3>1
    <2> QED
      BY <1>1, <2>1 DEF Places
  <1>5. Counted'
    <2>1. Places(en, epos)' = Places(en, epos')
      BY <1>1 DEF Places
    <2> QED
      BY <1>1, <1>4, <2>1 DEF EncoderIInv, Counted, InScan
  <1>6. Restarted'
    <2>1. ASSUME NEW p \in 1 .. epos' - 1, einput'[p] = en'
          PROVE  ed' <= epos' - 2
      <3>1. p \in 1 .. epos - 1
        BY <1>1, <1>2, <2>1
      <3>2. ed <= epos - 2
        BY <1>1, <2>1, <3>1 DEF EncoderIInv, Restarted, InScan
      <3> QED
        BY <1>1, <1>2, <3>2
    <2> QED
      BY <2>1 DEF Restarted
  <1> QED
    BY <1>1, <1>3, <1>5, <1>6 DEF EncoderIInv, InRange, InScan

LEMMA StartIntegerKeepsEncoder ==
  ASSUME EncoderIInv, E!StartInteger
  PROVE  EncoderIInv'
  <1>1. /\ epc = "scan" /\ epc' = "digit" /\ epos <= Len(einput) /\ einput[epos] = en
        /\ eq' = ed /\ ek' = Base
        /\ UNCHANGED <<einput, eout, en, ed, ebias, eh, eb, epos, edelta, eok>>
    BY DEF E!StartInteger
  <1>2. E!TypeOK'
    BY <1>1, Parameters DEF EncoderIInv, E!TypeOK
  <1>3. Counted'
    BY <1>1 DEF EncoderIInv, Counted, InScan, Places
  <1> QED
    BY <1>1, <1>2, <1>3 DEF EncoderIInv, InRange, Restarted, InScan

LEMMA WriteDigitKeeps ==
  ASSUME EncoderIInv, E!WriteDigit
  PROVE  EncoderIInv'
  <1> DEFINE t == Threshold(ek, ebias)
  <1>1. /\ epc = "digit" /\ epc' \in {"digit", "adapt"}
        /\ UNCHANGED <<einput, en, ed, ebias, eh, eb, epos, eok>>
    BY DEF E!WriteDigit
  <1>2. /\ eq \in Nat /\ eq <= MaxInt /\ ek \in Nat /\ ebias \in Nat
        /\ eout \in Seq(0 .. InitialN - 1)
        /\ edelta \in 0 .. MaxInt
        /\ ed \in Nat /\ ed <= MaxInt /\ eh + 1 \in Nat \ {0}
    BY Parameters DEF EncoderIInv, E!TypeOK
  <1>3. t \in Nat /\ t >= 1 /\ t <= TMax /\ t < Base /\ Base - t \in Nat \ {0}
    <2>1. t \in 1 .. TMax
      BY <1>2, ThresholdRange
    <2> HIDE DEF t
    <2> QED
      BY <2>1, Parameters
  <1>4. E!Threshold(ek, ebias) = t
    BY SharedOperators
  <1> HIDE DEF t
  <1>5. /\ eout' \in Seq(0 .. InitialN - 1)
        /\ eq' \in 0 .. MaxInt /\ ek' \in Nat /\ edelta' \in 0 .. MaxInt
    <2>1. ASSUME NEW d \in 0 .. Base - 1
          PROVE  E!digit_to_char(d) \in 0 .. InitialN - 1
      BY <2>1, SharedOperators, PunycodeAssumption
    <2>2. CASE /\ eq >= t
               /\ eout' = Append(eout, E!digit_to_char(t + ((eq - t) % (Base - t))))
               /\ eq' = (eq - t) \div (Base - t)
               /\ ek' = ek + Base
               /\ UNCHANGED <<epc, edelta>>
      <3> DEFINE x == eq - t
                 y == Base - t
      <3>1. x \in Nat /\ x <= MaxInt /\ y \in Nat \ {0} /\ t + y = Base
        BY <1>2, <1>3, <2>2, Parameters
      <3>2. eq' = x \div y /\ eout' = Append(eout, E!digit_to_char(t + (x % y)))
        BY <2>2
      <3> HIDE DEF x, y
      <3>3. x \div y \in 0 .. x /\ x % y \in 0 .. y - 1
        BY <3>1, DivNat
      <3>4. t + (x % y) \in 0 .. Base - 1
        BY <1>3, <3>1, <3>3, Parameters
      <3>5. eq' \in 0 .. MaxInt
        BY <3>1, <3>2, <3>3, Parameters
      <3>6. E!digit_to_char(t + (x % y)) \in 0 .. InitialN - 1
        BY <2>1, <3>4
      <3>7. eout' \in Seq(0 .. InitialN - 1)
        BY <1>2, <3>2, <3>6, AppendProperties
      <3>8. ek' \in Nat /\ edelta' = edelta
        BY <1>2, <2>2, Parameters
      <3> QED
        BY <1>2, <3>5, <3>7, <3>8
    <2>3. CASE /\ eq < t
               /\ eout' = Append(eout, E!digit_to_char(eq))
               /\ edelta' = E!ScaleDelta(ed, eh + 1, eh = eb)
               /\ ek' = 0
               /\ epc' = "adapt"
               /\ UNCHANGED eq
      <3>1. eq \in 0 .. Base - 1
        BY <1>2, <1>3, <2>3, Parameters
      <3>2. E!digit_to_char(eq) \in 0 .. InitialN - 1
        BY <2>1, <3>1
      <3>3. eout' \in Seq(0 .. InitialN - 1)
        BY <1>2, <2>3, <3>2, AppendProperties
      <3>4. edelta' \in 0 .. ed
        <4>1. (eh = eb) \in BOOLEAN
          OBVIOUS
        <4>2. edelta' = ScaleDelta(ed, eh + 1, eh = eb)
          BY <2>3, SharedOperators
        <4> QED
          BY <1>2, <4>1, <4>2, ScaleDeltaRange
      <3>5. edelta' \in 0 .. MaxInt
        BY <1>2, <3>4, Parameters
      <3> QED
        BY <1>2, <2>3, <3>3, <3>5, Parameters
    <2> QED
      BY <1>4, <2>2, <2>3, Zenon DEF E!WriteDigit
  <1>6. E!TypeOK'
    BY <1>1, <1>5 DEF EncoderIInv, E!TypeOK
  <1>7. Counted'
    BY <1>1 DEF EncoderIInv, Counted, InScan, Places
  <1> QED
    BY <1>1, <1>6, <1>7 DEF EncoderIInv, InRange, Restarted, InScan

LEMMA AdaptScaleKeepsEncoder ==
  ASSUME EncoderIInv, E!AdaptScale
  PROVE  EncoderIInv'
  <1> DEFINE y == Base - TMin
  <1>1. /\ epc = "adapt" /\ ek' = ek + Base /\ edelta' = edelta \div y
        /\ UNCHANGED <<epc, einput, eout, en, ed, ebias, eh, eb, epos, eq, eok>>
    BY SharedOperators DEF E!AdaptScale, ScaledDelta
  <1>2. y \in Nat \ {0} /\ edelta \in Nat /\ edelta <= MaxInt /\ ek \in Nat
    BY Parameters DEF EncoderIInv, E!TypeOK
  <1> HIDE DEF y
  <1>3. edelta' \in 0 .. edelta
    BY <1>1, <1>2, DivNat
  <1>4. edelta' \in 0 .. MaxInt /\ ek' \in Nat
    BY <1>1, <1>2, <1>3, Parameters
  <1>5. E!TypeOK'
    BY <1>1, <1>4 DEF EncoderIInv, E!TypeOK
  <1>6. Counted'
    BY <1>1 DEF EncoderIInv, Counted, InScan, Places
  <1> QED
    BY <1>1, <1>5, <1>6 DEF EncoderIInv, InRange, Restarted, InScan

\* The place of the code point just written is now one of those counted.
LEMMA AdaptEndKeepsEncoder ==
  ASSUME EncoderIInv, E!AdaptEnd
  PROVE  EncoderIInv'
  <1>1. /\ epc = "adapt" /\ epc' = "scan"
        /\ ebias' = NewBias(edelta, ek) /\ ed' = 0 /\ eh' = eh + 1 /\ epos' = epos + 1
        /\ UNCHANGED <<einput, eout, en, eb, eq, ek, edelta, eok>>
    BY SharedOperators DEF E!AdaptEnd
  <1>2. /\ einput \in Seq(Nat) /\ Len(einput) \in Nat /\ en \in Nat
        /\ epos \in 1 .. Len(einput) /\ einput[epos] = en
    BY <1>1, EncoderTypes DEF EncoderIInv, InRange
  <1>3. eh = Cardinality(Places(en, epos))
    BY <1>1 DEF EncoderIInv, Counted, InScan
  <1>4. eh' = Cardinality(Places(en, epos + 1)) /\ eh < Len(einput) /\ eh \in Nat
    BY <1>1, <1>2, <1>3, PlacesAdd, EncoderTypes, SMTT(60)
  <1>5. E!TypeOK'
    <2>1. ebias' \in Nat
      BY <1>1, NewBiasNat, Parameters, SMTT(60) DEF EncoderIInv, E!TypeOK
    <2>2. ed' \in 0 .. MaxInt /\ eh' \in 0 .. Len(einput) /\ epos' \in 1 .. Len(einput) + 1
      BY <1>1, <1>2, <1>4, Parameters
    <2> QED
      BY <1>1, <2>1, <2>2 DEF EncoderIInv, E!TypeOK
  <1>6. Counted'
    <2>1. Places(en, epos)' = Places(en, epos + 1)
      BY <1>1 DEF Places
    <2> QED
      BY <1>1, <1>4, <2>1 DEF Counted, InScan
  <1>7. Restarted'
    <2>1. ed' <= epos' - 2
      BY <1>1, <1>2
    <2> QED
      BY <2>1 DEF Restarted
  <1> QED
    BY <1>1, <1>5, <1>6, <1>7 DEF EncoderIInv, InRange, InScan

\* n was found, so d is short of the length of the input: neither increment
\* overflows.
LEMMA EndScanKeeps ==
  ASSUME EncoderIInv, E!EndScan
  PROVE  EncoderIInv'
  <1>1. /\ epc = "scan" /\ epc' = "outer" /\ epos > Len(einput)
        /\ ed' = ed + 1 /\ en' = en + 1
        /\ UNCHANGED <<einput, eout, ebias, eh, eb, epos, eq, ek, edelta, eok>>
    BY DEF E!EndScan
  <1>2. /\ einput \in Seq(Nat) /\ Len(einput) \in Nat /\ Len(einput) <= MaxInt
        /\ en \in Nat /\ ed \in Nat /\ epos = Len(einput) + 1
        /\ MaxInt \in Nat /\ MaxCodePoint \in Nat /\ InitialN \in Nat
        /\ en \in InitialN .. MaxCodePoint + 1
    <2>1. /\ einput \in Seq(Nat) /\ Len(einput) \in Nat /\ Len(einput) <= MaxInt
          /\ en \in Nat /\ ed \in Nat /\ epos \in 1 .. Len(einput) + 1
      BY EncoderTypes, Parameters
    <2>2. MaxInt \in Nat /\ MaxCodePoint \in Nat /\ InitialN \in Nat
      BY Parameters, EncoderParameters
    <2>3. en \in InitialN .. MaxCodePoint + 1
      BY <1>1 DEF EncoderIInv, E!TypeOK
    <2> QED
      BY <1>1, <2>1, <2>2, <2>3
  <1>3. PICK p \in 1 .. Len(einput) : einput[p] = en
    BY <1>1 DEF EncoderIInv, InRange, InScan
  <1>4. ed' \in 0 .. MaxInt
    <2>1. p \in 1 .. epos - 1
      BY <1>2
    <2>2. ed <= epos - 2
      BY <1>1, <1>3, <2>1 DEF EncoderIInv, Restarted, InScan
    <2> QED
      BY <1>1, <1>2, <2>2
  <1>5. en' \in InitialN .. MaxCodePoint + 1
    <2>1. en <= MaxCodePoint
      BY <1>1, <1>3 DEF EncoderIInv, InRange, InScan
    <2> QED
      BY <1>1, <1>2, <2>1
  <1>6. E!TypeOK'
    BY <1>1, <1>4, <1>5 DEF EncoderIInv, E!TypeOK
  <1>7. Counted'
    <2>1. eh = Cardinality(Places(en, Len(einput) + 1))
      BY <1>1, <1>2 DEF EncoderIInv, Counted, InScan
    <2>2. Places(en, Len(einput) + 1) = Places(en + 1, 1)
      BY <1>2, PlacesAtEnds
    <2>3. Places(en, 1)' = Places(en + 1, 1)
      BY <1>1 DEF Places
    <2> QED
      BY <1>1, <2>1, <2>2, <2>3 DEF Counted, InScan
  <1> QED
    BY <1>1, <1>6, <1>7 DEF EncoderIInv, InRange, Restarted, InScan

LEMMA EncoderStepKeeps ==
  ASSUME EncoderIInv, E!Step
  PROVE  EncoderIInv'
  <1>1. CASE E!RejectJump \/ E!Finish \/ E!RejectSkip
    BY <1>1, EncoderReturnKeeps DEF E!RejectJump, E!Finish, E!RejectSkip
  <1> QED
    BY <1>1, CopyTurnKeeps, EndCopyKeeps, StartScanKeeps, SkipKeeps,
       StartIntegerKeepsEncoder, WriteDigitKeeps, AdaptScaleKeepsEncoder,
       AdaptEndKeepsEncoder, EndScanKeeps
    DEF E!Step

-----------------------------------------------------------------------------
(* One after the other.  What the decoder is given when the encoder has    *)
(* been called is what that one wrote; before that, its own invariant      *)
(* bounds what the encoder will be given.                                  *)
BothIInv ==
  /\ EncoderIInv
  /\ epc = "idle" => IInv

LEMMA BothInitIInv == BothInit => BothIInv
  BY InitIInv, EncoderInit DEF BothInit, BothIInv

LEMMA NextBothIInv == BothIInv /\ [BothNext]_allVars => BothIInv'
  <1> SUFFICES ASSUME BothIInv, [BothNext]_allVars
               PROVE  BothIInv'
    OBVIOUS
  <1>0. ASSUME UNCHANGED encodeVars
        PROVE  EncoderIInv'
    BY <1>0 DEF BothIInv, encodeVars, EncoderIInv, E!TypeOK, Counted, InRange,
                Restarted, InScan, Places, BasicBefore
  <1>1. CASE UNCHANGED allVars
    <2>1. UNCHANGED vars /\ UNCHANGED encodeVars
      BY <1>1 DEF allVars
    <2> QED
      BY <1>0, <2>1, NextIInv DEF BothIInv, encodeVars
  <1>2. ASSUME NEW s \in Labels, EncodeFirst(s)
        PROVE  BothIInv'
    <2>1. s \in Seq(Nat) /\ Len(s) <= MaxInt
      BY EncodeAssumption
    <2>2. E!Call(s)
      BY <1>2 DEF EncodeFirst
    <2> QED
      BY <2>1, <2>2, EncoderCallKeeps DEF BothIInv, E!Call
  <1>3. CASE ThenDecode
    BY <1>0, <1>3 DEF ThenDecode, BothIInv, encodeVars
  <1>4. ASSUME NEW s \in Inputs, DecodeFirst(s)
        PROVE  BothIInv'
    <2>1. IInv /\ Call(s)
      BY <1>4 DEF DecodeFirst, BothIInv
    <2> QED
      BY <1>0, <1>4, <2>1, CallKeeps DEF DecodeFirst, BothIInv
  <1>5. CASE ThenEncode
    <2>1. IInv /\ pc = "done" /\ E!Call(out)
      BY <1>5 DEF ThenEncode, BothIInv
    <2>2. Len(out) <= MaxInt /\ out \in Seq(0 .. MaxInt)
      BY <2>1 DEF IInv, TypeOK, Room
    <2>3. out \in Seq(Nat)
      <3>1. \A j \in 1 .. Len(out) : out[j] \in Nat
        BY <2>2, ElementOfSeq, Parameters
      <3> QED
        BY <2>2, <3>1
    <2> QED
      BY <2>1, <2>2, <2>3, EncoderCallKeeps DEF BothIInv, E!Call
  <1>6. CASE E!Step /\ UNCHANGED vars
    <2>1. EncoderIInv'
      BY <1>6, EncoderStepKeeps DEF BothIInv
    <2>2. epc' # "idle"
      BY <1>6 DEF E!Step, E!CopyTurn, E!EndCopy, E!StartScan, E!RejectJump, E!Finish,
                  E!Skip, E!RejectSkip, E!StartInteger, E!WriteDigit, E!AdaptScale,
                  E!AdaptEnd, E!EndScan, E!Return
    <2> QED
      BY <2>1, <2>2 DEF BothIInv
  <1>7. CASE Step /\ UNCHANGED encodeVars
    BY <1>0, <1>7, NextIInv DEF BothIInv, encodeVars, Next
  <1> QED
    BY <1>1, <1>2, <1>3, <1>4, <1>5, <1>6, <1>7 DEF BothNext

\* No int32_t of utf32_to_punycode() overflows, the unguarded increments at the end
\* of a scan and of a digit's place included, for all labels and all parameters.
THEOREM EncoderNoOverflow == BothSpec => []EncoderTypeOK
  <1>1. BothIInv => EncoderTypeOK
    BY DEF BothIInv, EncoderIInv, EncoderTypeOK
  <1> QED
    BY <1>1, BothInitIInv, NextBothIInv, PTL DEF BothSpec

\* At the head of the outer loop h is the number of code points below n: the loop
\* stops when all are written, and each delta skips the right number of places.
THEOREM CountIsOfWritten == BothSpec => []CountsWritten
  <1>1. BothIInv => CountsWritten
    <2> SUFFICES ASSUME BothIInv, epc = "outer"
                 PROVE  eh = E!Cardinality({p \in DOMAIN einput : einput[p] < en})
      BY DEF CountsWritten, E!CountsWritten
    <2>1. einput \in Seq(Nat) /\ en \in Nat /\ DOMAIN einput = 1 .. Len(einput)
      BY EncoderTypes DEF BothIInv
    <2>2. eh = Cardinality(Places(en, 1))
      BY DEF BothIInv, EncoderIInv, Counted
    <2>3. Places(en, 1) = {p \in DOMAIN einput : einput[p] < en}
      BY <2>1, PlacesAtEnds
    <2> QED
      BY <2>2, <2>3, SharedOperators
  <1> QED
    BY <1>1, BothInitIInv, NextBothIInv, PTL DEF BothSpec

-----------------------------------------------------------------------------
(* The decoder, step by step, does what the verifier does.                 *)
LEMMA SameLoop ==
  /\ \A answer : Return(answer) => Verify!Return(answer)
  /\ \A rest : LoopStart(rest) => Verify!LoopStart(rest)
  /\ \A points : LoopStep(points) => Verify!LoopStep(points)
  /\ \A points, at : Advance(points, at) => Verify!Advance(points, at)
  <1>1. \A answer : Return(answer) => Verify!Return(answer)
    BY DEF Return, Verify!Return
  <1>2. \A rest : LoopStart(rest) => Verify!LoopStart(rest)
    BY DEF LoopStart, Verify!LoopStart
  <1>3. /\ \A kk, bb : Threshold(kk, bb) = Verify!Threshold(kk, bb)
        /\ \A c : IsDigit(c) <=> Verify!IsDigit(c)
        /\ \A c : char_to_digit_value(c) = Verify!char_to_digit_value(c)
        /\ \A x, p, f : ScaleDelta(x, p, f) = Verify!ScaleDelta(x, p, f)
        /\ \A x : NeedsScaling(x) <=> Verify!NeedsScaling(x)
        /\ \A x : ScaledDelta(x) = Verify!ScaledDelta(x)
        /\ \A x, kk : NewBias(x, kk) = Verify!NewBias(x, kk)
    <2>1. \A kk, bb : Threshold(kk, bb) = Verify!Threshold(kk, bb)
      BY DEF Threshold, Verify!Threshold
    <2>2. \A c : IsDigit(c) <=> Verify!IsDigit(c)
      BY DEF IsDigit, Verify!IsDigit
    <2>3. \A c : char_to_digit_value(c) = Verify!char_to_digit_value(c)
      BY DEF char_to_digit_value, Verify!char_to_digit_value
    <2>4. \A x, p, f : ScaleDelta(x, p, f) = Verify!ScaleDelta(x, p, f)
      BY DEF ScaleDelta, Verify!ScaleDelta
    <2>5. \A x : NeedsScaling(x) <=> Verify!NeedsScaling(x)
      BY DEF NeedsScaling, Verify!NeedsScaling
    <2>6. \A x : ScaledDelta(x) = Verify!ScaledDelta(x)
      BY DEF ScaledDelta, Verify!ScaledDelta
    <2>7. \A x, kk : NewBias(x, kk) = Verify!NewBias(x, kk)
      BY DEF NewBias, Verify!NewBias
    <2> QED
      BY <2>1, <2>2, <2>3, <2>4, <2>5, <2>6, <2>7
  <1>4. /\ StartInteger => Verify!StartInteger
        /\ RejectDigit => Verify!RejectDigit
        /\ AdaptScale => Verify!AdaptScale
        /\ AdaptEnd => Verify!AdaptEnd
        /\ \A points : RejectCodePoint(points) => Verify!RejectCodePoint(points)
        /\ \A points, at : Advance(points, at) => Verify!Advance(points, at)
    <2>1. StartInteger => Verify!StartInteger
      BY DEF StartInteger, Verify!StartInteger
    <2>2. RejectDigit => Verify!RejectDigit
      BY <1>1, <1>3 DEF RejectDigit, Verify!RejectDigit, Truncated, Verify!Truncated,
                        DigitFits, Verify!DigitFits
    <2>3. AdaptScale => Verify!AdaptScale
      BY <1>3 DEF AdaptScale, Verify!AdaptScale
    <2>4. AdaptEnd => Verify!AdaptEnd
      BY <1>3 DEF AdaptEnd, Verify!AdaptEnd
    <2>5. \A points : RejectCodePoint(points) => Verify!RejectCodePoint(points)
      BY <1>1 DEF RejectCodePoint, Verify!RejectCodePoint, CodePointOverflows,
                  Verify!CodePointOverflows
    <2>6. \A points, at : Advance(points, at) => Verify!Advance(points, at)
      BY DEF Advance, Verify!Advance, CodePointOverflows, Verify!CodePointOverflows
    <2> QED
      BY <2>1, <2>2, <2>3, <2>4, <2>5, <2>6
  <1>5. \A points : ReadDigit(points) => Verify!ReadDigit(points)
    BY <1>1, <1>3 DEF ReadDigit, Verify!ReadDigit, DigitFits, Verify!DigitFits,
                      WeightFits, Verify!WeightFits
  <1>6. \A points : LoopStep(points) => Verify!LoopStep(points)
    BY <1>4, <1>5 DEF LoopStep, Verify!LoopStep
  <1> QED
    BY <1>1, <1>2, <1>4, <1>6

\* The verifier's first4 is the front of the decoder's out.
Front4(s) == [j \in 0 .. Len(AcePrefix) - 1 |-> IF j < Len(s) THEN s[j + 1] ELSE 0]

LEMMA SameCopy ==
  ASSUME NEW s, out' = s
  PROVE  Verify!Copy(s)
  BY DEF Verify!Copy, Verify!First4, Verify!Slots

LEMMA SameCall ==
  ASSUME NEW s \in Seq(Nat), Call(s)
  PROVE  Verify!Call(source') \/ LeadingDelimiter(source')
  <1>1. pc = "idle" /\ source' = s /\ Len(s) \in Nat
    BY DEF Call
  <1>2. PICK e \in 0 .. Len(s) :
          /\ AsciiPart(s, e)
          /\ \/ /\ \A j \in 1 .. e - 1 : Basic(s[j])
                /\ out' = SubSeq(s, 1, e - 1)
                /\ LoopStart(SubSeq(s, e + 1, Len(s)))
             \/ \E f \in 1 .. e - 1 :
                  /\ ~Basic(s[f])
                  /\ \A j \in 1 .. f - 1 : Basic(s[j])
                  /\ out' = SubSeq(s, 1, f - 1)
                  /\ Return(FALSE)
                  /\ UNCHANGED <<input, n, i, bias, oldi, w, k, delta>>
    BY DEF Call
  <1>3. ASSUME Verify!AsciiPart(s, e)
        PROVE  Verify!Call(source')
    <2>1. \/ /\ \A j \in 1 .. e - 1 : Verify!Basic(s[j])
             /\ Verify!Copy(SubSeq(s, 1, e - 1))
             /\ Verify!LoopStart(SubSeq(s, e + 1, Len(s)))
          \/ \E f \in 1 .. e - 1 :
               /\ ~Verify!Basic(s[f])
               /\ \A j \in 1 .. f - 1 : Verify!Basic(s[j])
               /\ Verify!Copy(SubSeq(s, 1, f - 1))
               /\ Verify!Return(FALSE)
               /\ UNCHANGED <<input, n, i, bias, oldi, w, k, delta>>
      BY <1>2, SameLoop, SameCopy DEF Basic, Verify!Basic
    <2>2. \/ /\ \A j \in 1 .. e - 1 : Verify!Basic(source'[j])
             /\ Verify!Copy(SubSeq(source', 1, e - 1))
             /\ Verify!LoopStart(SubSeq(source', e + 1, Len(source')))
          \/ \E f \in 1 .. e - 1 :
               /\ ~Verify!Basic(source'[f])
               /\ \A j \in 1 .. f - 1 : Verify!Basic(source'[j])
               /\ Verify!Copy(SubSeq(source', 1, f - 1))
               /\ Verify!Return(FALSE)
               /\ UNCHANGED <<input, n, i, bias, oldi, w, k, delta>>
      BY <1>1, <2>1 DEF Verify!Copy, Verify!LoopStart
    <2>3. e \in 0 .. Len(source') /\ Verify!AsciiPart(source', e)
      BY <1>1, <1>3
    <2> QED
      BY <1>1, <2>2, <2>3, Zenon DEF Verify!Call
  <1>4. CASE e > 1
    <2>1. Verify!AsciiPart(s, e)
      BY <1>2, <1>4 DEF AsciiPart, Verify!AsciiPart
    <2> QED
      BY <1>3, <2>1
  <1>5. CASE ~(e > 1)
    <2>1. e = 0 /\ \A j \in 2 .. Len(s) : s[j] # Delimiter
      BY <1>2, <1>5 DEF AsciiPart
    <2>2. CASE s # <<>> /\ s[1] = Delimiter
      BY <1>1, <2>1, <2>2 DEF LeadingDelimiter, Verify!AsciiPart
    <2>3. CASE ~(s # <<>> /\ s[1] = Delimiter)
      <3>1. \A j \in 1 .. Len(s) : j = 1 \/ j \in 2 .. Len(s)
        OBVIOUS
      <3>2. Len(s) > 0 => s # <<>>
        OBVIOUS
      <3>3. \A j \in e + 1 .. Len(s) : s[j] # Delimiter
        BY <2>1, <2>3, <3>1, <3>2
      <3>4. Verify!AsciiPart(s, e)
        BY <2>1, <3>3 DEF Verify!AsciiPart
      <3> QED
        BY <1>3, <3>4
    <2> QED
      BY <2>2, <2>3
  <1> QED
    BY <1>4, <1>5

InsertedAt(s, at, c) == SubSeq(s, 1, at) \o <<c>> \o SubSeq(s, at + 1, Len(s))

\* Inserting moves the places from at on by one.
LEMMA Inserted ==
  ASSUME NEW S, NEW s \in Seq(S), NEW c \in S, NEW at \in 0 .. Len(s)
  PROVE  /\ Len(InsertedAt(s, at, c)) = Len(s) + 1
         /\ \A j \in 1 .. at : InsertedAt(s, at, c)[j] = s[j]
         /\ InsertedAt(s, at, c)[at + 1] = c
         /\ \A j \in at + 2 .. Len(s) + 1 : InsertedAt(s, at, c)[j] = s[j - 1]
  <1> DEFINE before == SubSeq(s, 1, at)
             after == SubSeq(s, at + 1, Len(s))
             front == before \o <<c>>
             r == front \o after
  <1>1. /\ before \in Seq(S) /\ Len(before) = at
        /\ \A j \in 1 .. at : before[j] = s[j]
    <2>1. Len(before) = IF 1 <= at THEN at - 1 + 1 ELSE 0
      BY SubSeqProperties
    <2>2. \A j \in 1 .. Len(before) : before[j] = s[1 + j - 1]
      BY SubSeqProperties
    <2>3. Len(before) = at
      BY <2>1
    <2>4. \A j \in 1 .. at : before[j] = s[j]
      BY <2>2, <2>3
    <2> QED
      BY <2>3, <2>4, SubSeqProperties
  <1>2. /\ after \in Seq(S) /\ Len(after) = Len(s) - at
        /\ \A j \in 1 .. Len(s) - at : after[j] = s[at + j]
    <2>1. Len(after) = IF at + 1 <= Len(s) THEN Len(s) - (at + 1) + 1 ELSE 0
      BY SubSeqProperties
    <2>2. \A j \in 1 .. Len(after) : after[j] = s[(at + 1) + j - 1]
      BY SubSeqProperties
    <2>3. Len(after) = Len(s) - at
      BY <2>1
    <2>4. \A j \in 1 .. Len(s) - at : after[j] = s[at + j]
      BY <2>2, <2>3, SMTT(60)
    <2>5. \A j \in at + 1 .. Len(s) : s[j] \in S
      BY ElementOfSeq
    <2>6. after \in Seq(S)
      BY <2>5, SubSeqProperties
    <2> QED
      BY <2>3, <2>4, <2>6
  <1> HIDE DEF before, after
  <1>3. /\ front \in Seq(S) /\ Len(front) = at + 1
        /\ \A j \in 1 .. at : front[j] = s[j]
        /\ front[at + 1] = c
    BY <1>1
  <1> HIDE DEF front
  <1>5. /\ Len(r) = Len(s) + 1
        /\ \A j \in 1 .. at + 1 : r[j] = front[j]
        /\ \A j \in at + 2 .. Len(s) + 1 : r[j] = after[j - (at + 1)]
    <2>1. front \in Seq(S) /\ after \in Seq(S)
      BY <1>2, <1>3
    <2>2. /\ Len(r) = Len(front) + Len(after)
          /\ \A j \in 1 .. Len(r) :
               r[j] = IF j <= Len(front) THEN front[j] ELSE after[j - Len(front)]
      BY ONLY <2>1, ConcatProperties
    <2>3. Len(front) = at + 1 /\ Len(after) = Len(s) - at /\ Len(s) \in Nat
      BY <1>2, <1>3
    <2> HIDE DEF r
    <2> QED
      BY <2>2, <2>3, SMTT(60)
  <1> HIDE DEF r
  <1>6. ASSUME NEW j \in at + 2 .. Len(s) + 1
        PROVE  r[j] = s[j - 1]
    <2>1. j - (at + 1) \in 1 .. Len(s) - at /\ at + (j - (at + 1)) = j - 1
      OBVIOUS
    <2> QED
      BY <1>2, <1>5, <2>1
  <1>7. InsertedAt(s, at, c) = r
    BY DEF InsertedAt, r, front, before, after
  <1> QED
    BY <1>3, <1>5, <1>6, <1>7

\* What the verifier does to first4 is what inserting does to the front of out.
LEMMA FrontInserted ==
  ASSUME NEW S, NEW s \in Seq(S), NEW c \in S, NEW at \in 0 .. Len(s),
         NEW j \in 0 .. Len(AcePrefix) - 1
  PROVE  Front4(InsertedAt(s, at, c))[j] =
           IF j < at THEN Front4(s)[j]
           ELSE IF j = at THEN c ELSE Front4(s)[j - 1]
  <1> DEFINE r == InsertedAt(s, at, c)
  <1>1. /\ Len(r) = Len(s) + 1 /\ Len(s) \in Nat /\ Len(AcePrefix) \in Nat
        /\ \A x \in 1 .. at : r[x] = s[x]
        /\ r[at + 1] = c
        /\ \A x \in at + 2 .. Len(s) + 1 : r[x] = s[x - 1]
    <2>1. Len(AcePrefix) \in Nat
      BY PunycodeAssumption
    <2> QED
      BY <2>1, Inserted
  <1> HIDE DEF r
  <1>2. Front4(r)[j] = IF j < Len(s) + 1 THEN r[j + 1] ELSE 0
    BY <1>1 DEF Front4
  <1>3. CASE j < at
    <2>1. j + 1 \in 1 .. at /\ j < Len(s) /\ j < Len(s) + 1
      BY <1>1, <1>3
    <2>2. Front4(s)[j] = s[j + 1]
      BY <2>1 DEF Front4
    <2> QED
      BY <1>1, <1>2, <1>3, <2>1, <2>2 DEF r
  <1>4. CASE j = at
    <2>1. j < Len(s) + 1 /\ ~(j < at)
      BY <1>1, <1>4
    <2> QED
      BY <1>1, <1>2, <1>4, <2>1 DEF r
  <1>5. CASE j > at
    <2>1. j - 1 \in 0 .. Len(AcePrefix) - 1 /\ (j - 1) + 1 = j /\ ~(j < at) /\ j # at
      BY <1>5
    <2>2. Front4(s)[j - 1] = IF j - 1 < Len(s) THEN s[j] ELSE 0
      BY <2>1 DEF Front4
    <2>3. Front4(r)[j] = Front4(s)[j - 1]
      <3>1. CASE j < Len(s) + 1
        <4>1. j + 1 \in at + 2 .. Len(s) + 1 /\ (j + 1) - 1 = j /\ j - 1 < Len(s)
          BY <1>1, <1>5, <3>1
        <4>2. r[j + 1] = s[j]
          BY <1>1, <4>1
        <4> QED
          BY <1>2, <2>2, <3>1, <4>1, <4>2
      <3>2. CASE ~(j < Len(s) + 1)
        <4>1. ~(j - 1 < Len(s))
          BY <1>1, <3>2
        <4> QED
          BY <1>2, <2>2, <3>2, <4>1
      <3> QED
        BY <3>1, <3>2
    <2> QED
      BY <2>1, <2>3 DEF r
  <1> QED
    BY <1>3, <1>4, <1>5

LEMMA SameInsert ==
  ASSUME IInv, Insert
  PROVE  Verify!Insert
  <1> DEFINE slots == 0 .. Len(AcePrefix) - 1
  <1>1. PICK at \in 0 .. Len(out) :
          /\ Advance(Len(out), at)
          /\ out' = SubSeq(out, 1, at) \o <<n'>> \o SubSeq(out, at + 1, Len(out))
    BY DEF Insert
  <1>2. out \in Seq(0 .. MaxInt) /\ n' \in 0 .. MaxInt
    <2>1. n' \in InitialN .. MaxInt
      BY InsertKeeps DEF IInv, TypeOK
    <2> QED
      BY <2>1, Parameters DEF IInv, TypeOK
  <1>0. out' = InsertedAt(out, at, n')
    BY <1>1 DEF InsertedAt
  <1>3. Len(out') = Len(out) + 1
    <2> DEFINE S == 0 .. MaxInt
    <2> HIDE DEF S
    <2>1. out \in Seq(S) /\ n' \in S
      BY <1>2 DEF S
    <2> QED
      BY <1>0, <2>1, Inserted
  <1>4. \A j \in slots :
          Front4(out')[j] = IF j < at THEN Front4(out)[j]
                            ELSE IF j = at THEN n' ELSE Front4(out)[j - 1]
    <2> DEFINE S == 0 .. MaxInt
    <2> HIDE DEF S
    <2>1. out \in Seq(S) /\ n' \in S
      BY <1>2 DEF S
    <2> QED
      BY <1>0, <2>1, FrontInserted
  <1>5. \A s : Front4(s) = [j \in slots |-> Front4(s)[j]]
    BY DEF Front4
  <1>6. Front4(out') = [j \in slots |-> IF j < at THEN Front4(out)[j]
                                        ELSE IF j = at THEN n' ELSE Front4(out)[j - 1]]
    BY <1>4, <1>5, Zenon
  <1>7. ASSUME at \notin slots
        PROVE  Front4(out') = Front4(out)
    <2>1. \A j \in slots : j < at
      BY <1>2, <1>7, PunycodeAssumption
    <2>2. \A j \in slots : Front4(out')[j] = Front4(out)[j]
      BY <1>4, <2>1
    <2> QED
      BY <1>5, <2>2, Zenon
  <1>8. Verify!Advance(Len(out), at)
    BY <1>1, SameLoop
  <1>9. Front4(out') = IF at \in slots THEN Verify!InsertSlot(at, n') ELSE Front4(out)
    BY <1>6, <1>7, Zenon DEF Front4, Verify!InsertSlot, Verify!Slots
  <1> QED
    BY <1>3, <1>8, <1>9, Zenon DEF Verify!Insert, Verify!Slots, Front4

LEMMA SameFinish ==
  ASSUME IInv, Finish
  PROVE  Verify!Finish
  <1> DEFINE slots == 0 .. Len(AcePrefix) - 1
             doubly == /\ Len(out) >= Len(AcePrefix)
                       /\ \A j \in slots : Front4(out)[j] = AcePrefix[j + 1]
  <1>1. /\ out \in Seq(0 .. MaxInt) /\ Len(out) \in Nat
        /\ AcePrefix \in Seq(0 .. InitialN - 1) /\ Len(AcePrefix) \in Nat
    BY PunycodeAssumption DEF IInv, TypeOK
  <1>2. IsPrefix(AcePrefix, out) <=> doubly
    <2> SUFFICES ASSUME Len(out) >= Len(AcePrefix)
                 PROVE  SubSeq(AcePrefix, 1, Len(AcePrefix)) = SubSeq(out, 1, Len(AcePrefix))
                          <=> \A j \in slots : Front4(out)[j] = AcePrefix[j + 1]
      BY <1>1 DEF IsPrefix
    <2>1. SubSeq(AcePrefix, 1, Len(AcePrefix)) = AcePrefix
      BY <1>1
    <2>2. /\ Len(SubSeq(out, 1, Len(AcePrefix))) = Len(AcePrefix)
          /\ \A j \in 1 .. Len(AcePrefix) : SubSeq(out, 1, Len(AcePrefix))[j] = out[j]
      BY <1>1
    <2>3. AcePrefix = SubSeq(out, 1, Len(AcePrefix))
            <=> \A j \in 1 .. Len(AcePrefix) : AcePrefix[j] = out[j]
      BY <1>1, <2>2
    <2>4. \A j \in slots : Front4(out)[j] = out[j + 1]
      BY <1>1 DEF Front4
    <2>5. (\A j \in 1 .. Len(AcePrefix) : AcePrefix[j] = out[j])
            <=> \A j \in slots : out[j + 1] = AcePrefix[j + 1]
      <3>1. /\ \A j \in slots : j + 1 \in 1 .. Len(AcePrefix)
            /\ \A j \in 1 .. Len(AcePrefix) : j - 1 \in slots /\ (j - 1) + 1 = j
        BY <1>1
      <3> QED
        BY <3>1
    <2> QED
      BY <2>1, <2>3, <2>4, <2>5
  <1>3. Return(~doubly)
    BY <1>2 DEF Finish
  <1>4. Verify!Return(~doubly)
    BY <1>3, SameLoop
  <1> QED
    BY <1>4 DEF Finish, Verify!Finish, Verify!Slots, Front4

\* punycode_to_utf32() implements verify_punycode(), on every string but those with
\* a leading delimiter: the two read the same digits, reject the same strings and
\* see the same "xn--".
THEOREM ImplementsVerify == Spec => AgreesWithVerify
  <1>1. Init => Verify!Init
    <2> SUFFICES ASSUME Init PROVE Verify!Init
      OBVIOUS
    <2>1. out = <<>> /\ Len(out) = 0
      BY DEF Init
    <2>2. \A j \in 0 .. Len(AcePrefix) - 1 : ~(j < 0)
      BY PunycodeAssumption
    <2> QED
      BY <2>1, <2>2 DEF Init, LoopInit, Verify!Init, Verify!LoopInit, Verify!Slots
  <1>2. IInv /\ [Next]_vars
          => [Verify!Call(source') \/ Verify!Step \/ LeadingDelimiter(source')]_vars
    <2> SUFFICES ASSUME IInv, Next
                 PROVE  Verify!Call(source') \/ Verify!Step \/ LeadingDelimiter(source')
      OBVIOUS
    <2>1. ASSUME NEW s \in Inputs, Call(s)
          PROVE  Verify!Call(source') \/ LeadingDelimiter(source')
      BY <2>1, SameCall, InputsAssumption
    <2>2. CASE LoopStep(Len(out)) /\ UNCHANGED out
      BY <2>2, SameLoop DEF Verify!Step
    <2>3. CASE Insert
      BY <2>3, SameInsert DEF Verify!Step
    <2>4. CASE Finish
      BY <2>4, SameFinish DEF Verify!Step
    <2> QED
      BY <2>1, <2>2, <2>3, <2>4 DEF Next, Step
  <1> QED
    BY <1>1, <1>2, InitIInv, NextIInv, PTL DEF Spec, AgreesWithVerify
=============================================================================
