----------------------------- MODULE TextProofs -----------------------------
(***************************************************************************)
(* Proofs about transcoding and mapping, for every text, well-formed or    *)
(* not, and every table of well-formed mappings: the buffers, which are    *)
(* sized by counting, are large enough; the decoder accepts what RFC 3629  *)
(* calls UTF-8 and nothing else; what one conversion accepts the other     *)
(* gives back.  What is left of a count is a cardinality, of the octets,   *)
(* or of the large code points, that are still ahead.                      *)
(***************************************************************************)
EXTENDS Text, FiniteSetTheorems, SequenceTheorems, WellFoundedInduction, TLAPS

Beginnings(s) == {k \in 1 .. Len(s) : Begins(s[k])}
Large(s, limit) == {k \in 1 .. Len(s) : s[k] > limit}

\* What of a set of places is ahead of place p.
Beyond(T, p) == {k \in T : k > p}
Left(T, p) == Cardinality(Beyond(T, p))
Passed(T, p, n) == Cardinality(T \cap (p + 1 .. p + n))

LeftAll(s, p) ==
  (Len(s) - p) + Left(Large(s, 127), p) + Left(Large(s, 2047), p) + Left(Large(s, 65535), p)

Types ==
  /\ pc \in {"idle", "decode", "decoded", "encode", "encoded"}
  /\ input \in Seq(Nat) /\ pos \in 0 .. Len(input) /\ out \in Seq(Nat)
  /\ room \in Nat /\ answer \in Nat /\ origin \in Seq(Nat)

Scalars == \A k \in DOMAIN out : IsScalar(out[k])
Decoding == pc = "decode"
DecodeCount == Len(out) + Left(Beginnings(input), pos) = room
\* One octet more for a code point over the limit.
Over(c, limit) == IF c > limit THEN 1 ELSE 0

Encoding == pc = "encode"
EncodeCount == Len(out) + LeftAll(input, pos) = room

\* The count of what was written and of what is ahead is the size of the buffer.
IInv ==
  /\ Types /\ WritesFit
  /\ pc = "decode" => Scalars /\ DecodeCount
  /\ pc = "encode" => EncodeCount

-----------------------------------------------------------------------------
\* Places are in a text, so there are finitely many.
Places(T) == T \subseteq Nat /\ IsFiniteSet(T)

LEMMA PlacesIn ==
  ASSUME NEW n0 \in Nat, NEW T \in SUBSET (1 .. n0)
  PROVE  Places(T)
<1>1. IsFiniteSet(1 .. n0)
  BY FS_Interval
<1>2. IsFiniteSet(T)
  BY <1>1, FS_Subset
<1> QED BY <1>2 DEF Places

LEMMA LeftType ==
  ASSUME NEW T, Places(T), NEW p \in Nat
  PROVE  Left(T, p) \in Nat
<1>1. Beyond(T, p) \in SUBSET T
  BY DEF Beyond
<1>2. IsFiniteSet(Beyond(T, p))
  BY <1>1, FS_Subset DEF Places
<1> QED BY <1>2, FS_CardinalityType DEF Left

\* Places ahead, before and after a step of n.
LEMMA LeftSplits ==
  ASSUME NEW T, Places(T), NEW p \in Nat, NEW n \in Nat
  PROVE  Left(T, p) = Left(T, p + n) + Passed(T, p, n)
<1> DEFINE A == Beyond(T, p + n)
           B == T \cap (p + 1 .. p + n)
<1>1. A \in SUBSET T /\ B \in SUBSET T
  BY DEF Beyond
<1>2. IsFiniteSet(A) /\ IsFiniteSet(B)
  BY <1>1, FS_Subset DEF Places
<1>3. A \cap B = {}
  BY DEF Beyond, Places
<1>4. Beyond(T, p) = A \cup B
  <2>1. ASSUME NEW k \in T
        PROVE  k > p <=> k > p + n \/ k \in p + 1 .. p + n
    <3>1. k \in Nat
      BY DEF Places
    <3> QED BY <3>1
  <2> QED BY <2>1 DEF Beyond
<1>5. Cardinality(A \cap B) = 0
  BY <1>3, FS_EmptySet
<1>6. Cardinality(A) \in Nat /\ Cardinality(B) \in Nat
  BY <1>2, FS_CardinalityType
<1>7. Cardinality(A \cup B) = Cardinality(A) + Cardinality(B) - Cardinality(A \cap B)
  BY <1>2, FS_Union
<1> QED BY <1>4, <1>5, <1>6, <1>7 DEF Left, Passed

\* All the places of the step are in the set.
Filled(T, p, n) == p + 1 .. p + n \subseteq T

LEMMA LeftAfterAll ==
  ASSUME NEW T, Places(T), NEW p \in Nat, NEW n \in Nat,
         Filled(T, p, n)
  PROVE  Left(T, p) = Left(T, p + n) + n
<1>1. T \cap (p + 1 .. p + n) = p + 1 .. p + n
  BY DEF Filled
<1>2. Cardinality(p + 1 .. p + n) = n
  <2>1. Cardinality(p + 1 .. p + n) = IF p + 1 > p + n THEN 0 ELSE (p + n) - (p + 1) + 1
    BY FS_Interval
  <2> QED BY <2>1
<1>3. Left(T, p) = Left(T, p + n) + Passed(T, p, n)
  BY LeftSplits
<1> QED BY <1>1, <1>2, <1>3 DEF Passed

\* Only the first is.
FirstOnly(T, p, n) == p + 1 \in T /\ \A k \in p + 2 .. p + n : k \notin T

LEMMA LeftAfterFirst ==
  ASSUME NEW T, Places(T), NEW p \in Nat, NEW n \in Nat, n > 0, FirstOnly(T, p, n)
  PROVE  Left(T, p) = Left(T, p + n) + 1
<1>0. p + 1 \in T /\ \A k \in p + 2 .. p + n : k \notin T
  BY DEF FirstOnly
<1>1. T \cap (p + 1 .. p + n) = {p + 1}
  <2>1. \A k \in T \cap (p + 1 .. p + n) : k = p + 1
    <3> SUFFICES ASSUME NEW k \in T, k \in p + 1 .. p + n, k # p + 1 PROVE FALSE
      OBVIOUS
    <3>1. k \in p + 2 .. p + n
      OBVIOUS
    <3> QED BY <3>1, <1>0
  <2>2. p + 1 \in p + 1 .. p + n
    OBVIOUS
  <2> QED BY <2>1, <2>2, <1>0
<1>2. Cardinality({p + 1}) = 1
  BY FS_Singleton
<1>3. Left(T, p) = Left(T, p + n) + Passed(T, p, n)
  BY LeftSplits
<1> QED BY <1>1, <1>2, <1>3 DEF Passed

\* None is.
LEMMA LeftAfterNone ==
  ASSUME NEW T, Places(T), NEW p \in Nat, NEW n \in Nat,
         \A k \in p + 1 .. p + n : k \notin T
  PROVE  Left(T, p) = Left(T, p + n)
<1>1. T \cap (p + 1 .. p + n) = {}
  OBVIOUS
<1>2. Cardinality({}) = 0
  BY FS_EmptySet
<1>3. p + n \in Nat /\ 0 \in Nat
  OBVIOUS
<1>4. Left(T, p + n) \in Nat
  BY <1>3, LeftType
<1>5. Left(T, p) = Left(T, p + n) + Passed(T, p, n)
  BY LeftSplits
<1> QED BY <1>1, <1>2, <1>4, <1>5 DEF Passed

\* Nothing has been left behind at the beginning.
LEMMA LeftAtStart ==
  ASSUME NEW s \in Seq(Nat)
  PROVE  /\ Left(Beginnings(s), 0) = utf32_length_from_utf8(s)
         /\ \A limit \in Nat : Left(Large(s, limit), 0) = Above(s, limit)
         /\ utf32_length_from_utf8(s) \in Nat
         /\ utf8_length_from_utf32(s) \in Nat /\ LeftAll(s, 0) = utf8_length_from_utf32(s)
<1>1. Beyond(Beginnings(s), 0) = Beginnings(s)
  BY DEF Beyond, Beginnings
<1>2. ASSUME NEW limit \in Nat
      PROVE  Beyond(Large(s, limit), 0) = Large(s, limit)
  BY DEF Beyond, Large
<1>3. Left(Beginnings(s), 0) = utf32_length_from_utf8(s)
  BY <1>1 DEF Left, Beginnings, utf32_length_from_utf8
<1>4. ASSUME NEW limit \in Nat
      PROVE  Left(Large(s, limit), 0) = Above(s, limit)
  BY <1>2 DEF Left, Large, Above
<1>5. Len(s) \in Nat /\ Beginnings(s) \in SUBSET (1 .. Len(s))
  BY DEF Beginnings
<1>6. Left(Beginnings(s), 0) \in Nat
  <2>1. Places(Beginnings(s))
    BY <1>5, PlacesIn
  <2> QED BY <2>1, LeftType
<1>7. ASSUME NEW limit \in Nat
      PROVE  Above(s, limit) \in Nat
  <2>1. Large(s, limit) \in SUBSET (1 .. Len(s))
    BY DEF Large
  <2>2. Places(Large(s, limit))
    BY <2>1, <1>5, PlacesIn
  <2>3. Left(Large(s, limit), 0) \in Nat
    BY <2>2, LeftType
  <2> QED BY <2>3, <1>4
<1>8. Above(s, 127) \in Nat /\ Above(s, 2047) \in Nat /\ Above(s, 65535) \in Nat
  BY <1>7
<1>9. utf8_length_from_utf32(s) \in Nat
  BY <1>5, <1>8 DEF utf8_length_from_utf32
<1>10. LeftAll(s, 0) = utf8_length_from_utf32(s)
  BY <1>4, <1>5 DEF LeftAll, utf8_length_from_utf32
<1> QED BY <1>3, <1>4, <1>6, <1>9, <1>10

-----------------------------------------------------------------------------
\* What is read and what is written.
LEMMA AheadIs ==
  ASSUME Types, NEW n \in Nat, pos + n <= Len(input)
  PROVE  /\ Ahead(n) \in Seq(Nat) /\ Len(Ahead(n)) = n
         /\ \A k \in 1 .. n : Ahead(n)[k] = input[pos + k]
<1>1. input \in Seq(Nat) /\ pos \in Nat
  BY DEF Types
<1> QED BY <1>1 DEF Ahead

LEMMA AppendIs ==
  ASSUME NEW a \in Seq(Nat), NEW b \in Seq(Nat)
  PROVE  /\ a \o b \in Seq(Nat) /\ Len(a \o b) = Len(a) + Len(b)
         /\ \A k \in DOMAIN (a \o b) :
              (a \o b)[k] = IF k <= Len(a) THEN a[k] ELSE b[k - Len(a)]
OBVIOUS

LEMMA FormIs ==
  ASSUME NEW o \in Nat, Form(o) > 0
  PROVE  /\ Form(o) \in 1 .. 4 /\ Begins(o)
         /\ Form(o) = 1 => o < 128
BY DEF Form, Begins

LEMMA AsciiBegins ==
  ASSUME NEW o \in Nat, o < 128
  PROVE  Begins(o)
BY DEF Begins

LEMMA ModIs ==
  ASSUME NEW a \in Nat, NEW n \in Nat \ {0}
  PROVE  a % n \in Nat
OBVIOUS

LEMMA JoinedType ==
  ASSUME NEW c \in Nat, NEW o \in Nat
  PROVE  Joined(c, o) \in Nat
<1>1. o % 64 \in Nat
  BY ModIs, SMT
<1> QED BY <1>1, SMT DEF Joined

LEMMA UnitIs ==
  ASSUME NEW u \in Seq(Nat), NEW k \in Nat \ {0}, k <= Len(u)
  PROVE  u[k] \in Nat
OBVIOUS

LEMMA CodePointType ==
  ASSUME NEW u \in Seq(Nat), Len(u) \in 1 .. 4
  PROVE  CodePoint(u) \in Nat
<1>1. 1 \in Nat \ {0} /\ 2 \in Nat \ {0} /\ 3 \in Nat \ {0} /\ 4 \in Nat \ {0}
  BY SMT
<1>2. 1 <= Len(u) => u[1] \in Nat
  BY <1>1, UnitIs, Zenon
<1>3. 2 <= Len(u) => u[2] \in Nat
  BY <1>1, UnitIs, Zenon
<1>4. 3 <= Len(u) => u[3] \in Nat
  BY <1>1, UnitIs, Zenon
<1>5. 4 <= Len(u) => u[4] \in Nat
  BY <1>1, UnitIs, Zenon
<1>6. CASE Len(u) = 1
  <2>1. CodePoint(u) = u[1]
    BY <1>6, SMT DEF CodePoint
  <2> QED BY <1>2, <1>6, <2>1, SMT
<1>7. CASE Len(u) = 2
  <2>1. CodePoint(u) = Joined(u[1] % 32, u[2])
    BY <1>7, SMT DEF CodePoint
  <2>2. u[1] \in Nat /\ u[2] \in Nat
    BY <1>2, <1>3, <1>7, SMT
  <2>3. u[1] % 32 \in Nat
    BY <2>2, ModIs, SMT
  <2> QED BY <2>1, <2>2, <2>3, JoinedType, Zenon
<1>8. CASE Len(u) = 3
  <2>1. CodePoint(u) = Joined(Joined(u[1] % 16, u[2]), u[3])
    BY <1>8, SMT DEF CodePoint
  <2>2. u[1] \in Nat /\ u[2] \in Nat /\ u[3] \in Nat
    BY <1>2, <1>3, <1>4, <1>8, SMT
  <2>3. u[1] % 16 \in Nat
    BY <2>2, ModIs, SMT
  <2>4. Joined(u[1] % 16, u[2]) \in Nat
    BY <2>2, <2>3, JoinedType, Zenon
  <2> QED BY <2>1, <2>2, <2>4, JoinedType, Zenon
<1>9. CASE Len(u) = 4
  <2>1. CodePoint(u) = Joined(Joined(Joined(u[1] % 8, u[2]), u[3]), u[4])
    BY <1>9, SMT DEF CodePoint
  <2>2. u[1] \in Nat /\ u[2] \in Nat /\ u[3] \in Nat /\ u[4] \in Nat
    BY <1>2, <1>3, <1>4, <1>5, <1>9, SMT
  <2>3. u[1] % 8 \in Nat
    BY <2>2, ModIs, SMTT(60)
  <2>4. Joined(u[1] % 8, u[2]) \in Nat
    BY <2>2, <2>3, JoinedType, Zenon
  <2>5. Joined(Joined(u[1] % 8, u[2]), u[3]) \in Nat
    BY <2>2, <2>4, JoinedType, Zenon
  <2> QED BY <2>1, <2>2, <2>5, JoinedType, Zenon
<1> QED BY <1>6, <1>7, <1>8, <1>9, SMT

LEMMA InFormIsScalar ==
  ASSUME NEW c \in Nat, NEW w \in 1 .. 4, InForm(c, w), w = 1 => c < 128
  PROVE  IsScalar(c)
BY SMT DEF InForm, Within, IsScalar, IsSurrogate

LEMMA SixBitsType ==
  ASSUME NEW c \in Nat, NEW n \in Nat \ {0}
  PROVE  SixBits(c, n) \in Nat
BY SMT DEF SixBits

LEMMA Utf8Length ==
  ASSUME NEW c \in Nat
  PROVE  /\ Utf8(c) \in Seq(Nat)
         /\ Len(Utf8(c)) = 1 + (IF c > 127 THEN 1 ELSE 0)
                             + (IF c > 2047 THEN 1 ELSE 0) + (IF c > 65535 THEN 1 ELSE 0)
BY SixBitsType, SMT DEF Utf8

-----------------------------------------------------------------------------
\* One large code point less, or not.
LEMMA LargeStep ==
  ASSUME NEW s \in Seq(Nat), NEW p \in Nat, p < Len(s), NEW limit \in Nat
  PROVE  Left(Large(s, limit), p)
           = Left(Large(s, limit), p + 1) + (IF s[p + 1] > limit THEN 1 ELSE 0)
<1>1. Places(Large(s, limit))
  <2>1. Large(s, limit) \in SUBSET (1 .. Len(s)) /\ Len(s) \in Nat
    BY DEF Large
  <2> QED BY <2>1, PlacesIn
<1>2. p + 1 \in Large(s, limit) <=> s[p + 1] > limit
  BY DEF Large
<1>3. \A k \in p + 1 .. p + 1 : k = p + 1
  OBVIOUS
<1>4. \A k \in p + 2 .. p + 1 : k \notin Large(s, limit)
  OBVIOUS
<1>5. CASE s[p + 1] > limit
  <2>1. Left(Large(s, limit), p) = Left(Large(s, limit), p + 1) + 1
    BY <1>1, <1>2, <1>4, <1>5, LeftAfterFirst DEF FirstOnly
  <2> QED BY <2>1, <1>5
<1>6. CASE ~(s[p + 1] > limit)
  <2>1. \A k \in p + 1 .. p + 1 : k \notin Large(s, limit)
    BY <1>2, <1>3, <1>6
  <2>2. Left(Large(s, limit), p) = Left(Large(s, limit), p + 1)
    BY <1>1, <2>1, LeftAfterNone
  <2>3. p + 1 \in Nat
    OBVIOUS
  <2>4. Left(Large(s, limit), p + 1) \in Nat
    BY ONLY <1>1, <2>3, LeftType
  <2> QED BY <2>2, <2>4, <1>6
<1> QED BY <1>5, <1>6

\* A run of ASCII leaves the large ones ahead.
LEMMA LargeAscii ==
  ASSUME NEW s \in Seq(Nat), NEW p \in Nat, NEW n \in Nat, p + n <= Len(s),
         \A k \in 1 .. n : s[p + k] < 128, NEW limit \in Nat, limit >= 127
  PROVE  Left(Large(s, limit), p) = Left(Large(s, limit), p + n)
<1>1. Places(Large(s, limit))
  <2>1. Large(s, limit) \in SUBSET (1 .. Len(s)) /\ Len(s) \in Nat
    BY DEF Large
  <2> QED BY <2>1, PlacesIn
<1>2. \A k \in p + 1 .. p + n : k \notin Large(s, limit)
  <2> SUFFICES ASSUME NEW k \in p + 1 .. p + n
               PROVE  k \notin Large(s, limit)
    OBVIOUS
  <2>1. k - p \in 1 .. n /\ k \in 1 .. Len(s) /\ p + (k - p) = k
    OBVIOUS
  <2>2. s[p + (k - p)] < 128
    BY <2>1
  <2>3. s[k] < 128 /\ s[k] \in Nat
    BY <2>1, <2>2
  <2> QED BY <2>3 DEF Large
<1> QED BY <1>1, <1>2, LeftAfterNone

LEMMA LeftAllType ==
  ASSUME NEW s \in Seq(Nat), NEW p \in 0 .. Len(s)
  PROVE  LeftAll(s, p) \in Nat
<1>1. ASSUME NEW limit \in Nat
      PROVE  Left(Large(s, limit), p) \in Nat
  <2>1. Large(s, limit) \in SUBSET (1 .. Len(s)) /\ Len(s) \in Nat
    BY DEF Large
  <2>2. Places(Large(s, limit))
    BY <2>1, PlacesIn
  <2> QED BY <2>2, LeftType
<1>2. /\ Left(Large(s, 127), p) \in Nat /\ Left(Large(s, 2047), p) \in Nat
      /\ Left(Large(s, 65535), p) \in Nat
  BY <1>1, SMTT(60)
<1> QED BY <1>2, SMTT(60) DEF LeftAll

LEMMA LargeLeft ==
  ASSUME NEW s \in Seq(Nat), NEW p \in Nat, NEW limit \in Nat
  PROVE  Left(Large(s, limit), p) \in Nat
<1>1. Large(s, limit) \in SUBSET (1 .. Len(s)) /\ Len(s) \in Nat
  BY DEF Large
<1>2. Places(Large(s, limit))
  BY <1>1, PlacesIn
<1> QED BY <1>2, LeftType

LEMMA BeginningsAre ==
  ASSUME NEW s \in Seq(Nat)
  PROVE  Places(Beginnings(s))
<1>1. Beginnings(s) \in SUBSET (1 .. Len(s)) /\ Len(s) \in Nat
  BY DEF Beginnings
<1> QED BY <1>1, PlacesIn

-----------------------------------------------------------------------------
\* A conversion begins with everything ahead.
LEMMA StartDecode ==
  ASSUME NEW s \in Seq(Nat), NEW from \in Seq(Nat), Decode(s, from)
  PROVE  IInv'
<1>1. /\ input' = s /\ pos' = 0 /\ out' = <<>> /\ answer' = 0 /\ origin' = from
      /\ room' = utf32_length_from_utf8(s)
  BY DEF Decode, Start
<1>2. pc' \in {"decode", "decoded"}
  BY DEF Decode, Start
<1>3. Left(Beginnings(s), 0) = utf32_length_from_utf8(s) /\ utf32_length_from_utf8(s) \in Nat
  BY LeftAtStart
<1>4. Types'
  BY <1>1, <1>2, <1>3 DEF Types
<1>5. Len(out') = 0
  BY <1>1
<1>6. WritesFit' /\ DecodeCount'
  BY <1>1, <1>3, <1>5 DEF WritesFit, DecodeCount
<1>7. Scalars'
  BY <1>1 DEF Scalars
<1>8. pc' # "encode"
  BY <1>2
<1> QED BY <1>4, <1>6, <1>7, <1>8 DEF IInv

LEMMA StartEncode ==
  ASSUME NEW s \in Seq(Nat), NEW from \in Seq(Nat), Encode(s, from)
  PROVE  IInv'
<1>1. /\ input' = s /\ pos' = 0 /\ out' = <<>> /\ answer' = 0 /\ origin' = from
      /\ room' = utf8_length_from_utf32(s)
  BY DEF Encode, Start
<1>2. pc' = "encode"
  BY DEF Encode, Start
<1>3. LeftAll(s, 0) = utf8_length_from_utf32(s) /\ utf8_length_from_utf32(s) \in Nat
  BY LeftAtStart
<1>4. Types'
  BY <1>1, <1>2, <1>3 DEF Types
<1>5. Len(out') = 0
  BY <1>1
<1>6. WritesFit' /\ EncodeCount'
  BY <1>1, <1>3, <1>5 DEF WritesFit, EncodeCount
<1>7. pc' # "decode"
  BY <1>2
<1> QED BY <1>4, <1>6, <1>7 DEF IInv

\* A conversion that returns leaves its output as it is.
LEMMA ReturnKeeps ==
  ASSUME IInv, NEW n \in Nat, NEW place \in {"decoded", "encoded"}, Return(place, n)
  PROVE  IInv'
<1>1. /\ UNCHANGED <<input, pos, out, room, origin>> /\ answer' = n
      /\ pc' = place /\ pc' # "decode" /\ pc' # "encode"
  BY DEF Return
<1>2. Types'
  BY <1>1 DEF IInv, Types
<1>3. WritesFit'
  BY <1>1 DEF IInv, WritesFit
<1> QED BY <1>1, <1>2, <1>3 DEF IInv

\* Units are read and others written.
LEMMA AdvanceTypes ==
  ASSUME Types, NEW n \in Nat, pos + n <= Len(input), NEW w \in Seq(Nat), Advance(n, w)
  PROVE  /\ Types' /\ UNCHANGED <<pc, input, room>>
         /\ pos' = pos + n /\ out' = out \o w /\ Len(out') = Len(out) + Len(w)
<1>1. /\ UNCHANGED <<pc, input, room, answer, origin>>
      /\ pos' = pos + n /\ out' = out \o w
  BY DEF Advance
<1>2. out \o w \in Seq(Nat) /\ Len(out \o w) = Len(out) + Len(w)
  BY AppendIs DEF Types
<1>3. pos + n \in 0 .. Len(input)
  BY DEF Types
<1>4. Types'
  BY <1>1, <1>2, <1>3 DEF Types
<1> QED BY <1>1, <1>2, <1>4

LEMMA AdvanceScalars ==
  ASSUME out \in Seq(Nat), NEW w \in Seq(Nat), out' = out \o w,
         Scalars, \A k \in 1 .. Len(w) : IsScalar(w[k])
  PROVE  Scalars'
<1> SUFFICES ASSUME NEW k \in DOMAIN (out \o w)
             PROVE  IsScalar((out \o w)[k])
  BY DEF Scalars
<1>1. k \in 1 .. Len(out) + Len(w)
  BY AppendIs
<1>2. CASE k <= Len(out)
  <2>1. (out \o w)[k] = out[k] /\ k \in DOMAIN out
    BY <1>1, <1>2, AppendIs
  <2> QED BY <2>1 DEF Scalars
<1>3. CASE ~(k <= Len(out))
  <2>1. (out \o w)[k] = w[k - Len(out)] /\ k - Len(out) \in 1 .. Len(w)
    BY <1>1, <1>3, AppendIs
  <2> QED BY <2>1
<1> QED BY <1>2, <1>3

LEMMA DecodeAsciiStep ==
  ASSUME IInv, DecodeAscii
  PROVE  IInv'
<1> DEFINE T == Beginnings(input)
<1>1. Types /\ pc = "decode" /\ Scalars /\ DecodeCount
  BY DEF IInv, DecodeAscii
<1>2. /\ input \in Seq(Nat) /\ pos \in Nat /\ out \in Seq(Nat) /\ room \in Nat
      /\ Block8 \in Nat /\ Len(input) \in Nat /\ Len(out) \in Nat
  BY <1>1, TextsAssumption DEF Types
<1>3. /\ pos + Block8 <= Len(input) /\ \A k \in 1 .. Block8 : input[pos + k] < 128
      /\ Advance(Block8, Ahead(Block8))
  BY DEF DecodeAscii, AsciiAhead
<1>4. /\ Ahead(Block8) \in Seq(Nat) /\ Len(Ahead(Block8)) = Block8
      /\ \A k \in 1 .. Block8 : Ahead(Block8)[k] = input[pos + k]
  BY <1>1, <1>2, <1>3, AheadIs
<1>5. /\ Types' /\ UNCHANGED <<pc, input, room>> /\ pos' = pos + Block8
      /\ out' = out \o Ahead(Block8) /\ Len(out') = Len(out) + Block8
  BY <1>1, <1>2, <1>3, <1>4, AdvanceTypes
<1>6. Filled(T, pos, Block8)
  <2> SUFFICES ASSUME NEW k \in pos + 1 .. pos + Block8
               PROVE  k \in T
    BY DEF Filled
  <2>1. k - pos \in 1 .. Block8 /\ k \in 1 .. Len(input) /\ pos + (k - pos) = k
    BY <1>2, <1>3
  <2>2. input[pos + (k - pos)] < 128
    BY <2>1, <1>3
  <2>3. input[k] < 128 /\ input[k] \in Nat
    BY <2>1, <2>2, <1>2
  <2>4. Begins(input[k])
    BY <2>3, AsciiBegins
  <2> QED BY <2>1, <2>4 DEF Beginnings
<1>7. Left(T, pos) = Left(T, pos + Block8) + Block8
  <2>1. Places(T)
    BY <1>2, BeginningsAre
  <2> QED BY <2>1, <1>2, <1>6, LeftAfterAll
<1>8. Left(T, pos + Block8) \in Nat
  <2>1. Places(T) /\ pos + Block8 \in Nat
    BY <1>2, BeginningsAre
  <2> QED BY <2>1, LeftType
<1>9. DecodeCount'
  <2>1. Len(out) + Left(T, pos) = room
    BY <1>1 DEF DecodeCount
  <2>2. Len(out) + Block8 + Left(T, pos + Block8) = room
    BY <2>1, <1>2, <1>7, <1>8
  <2> QED BY <2>2, <1>5 DEF DecodeCount
<1>10. WritesFit'
  BY <1>2, <1>5, <1>8, <1>9 DEF DecodeCount, WritesFit
<1>11. Scalars'
  <2>1. \A k \in 1 .. Block8 : IsScalar(Ahead(Block8)[k])
    <3> SUFFICES ASSUME NEW k \in 1 .. Block8
                 PROVE  IsScalar(Ahead(Block8)[k])
      OBVIOUS
    <3>1. Ahead(Block8)[k] < 128 /\ Ahead(Block8)[k] \in Nat
      BY <1>3, <1>4
    <3> QED BY <3>1, SMT DEF IsScalar, IsSurrogate, Within
  <2> QED BY <1>1, <1>2, <1>4, <1>5, <2>1, AdvanceScalars
<1>12. pc' # "encode"
  BY <1>1, <1>5
<1> QED BY <1>5, <1>9, <1>10, <1>11, <1>12 DEF IInv

\* A whole code point of w octets is read.
LEMMA DecodeWhole ==
  ASSUME IInv, Decoding, pos < Len(input),
         NEW w \in 1 .. 4, pos + w <= Len(input),
         Begins(input[pos + 1]), \A k \in 2 .. w : ~Begins(input[pos + k]),
         NEW c \in Nat, IsScalar(c), Advance(w, <<c>>)
  PROVE  IInv'
<1> DEFINE T == Beginnings(input)
<1>1. Types /\ Scalars /\ DecodeCount
  BY DEF IInv, Decoding
<1>2. input \in Seq(Nat) /\ pos \in Nat /\ out \in Seq(Nat) /\ room \in Nat
  BY <1>1 DEF Types
<1>3. Len(input) \in Nat /\ Len(out) \in Nat /\ pos + 1 \in 1 .. Len(input) /\ w \in Nat
  BY <1>2
<1>4. PICK u \in Seq(Nat) : u = <<c>>
  <2>1. <<c>> \in Seq(Nat)
    OBVIOUS
  <2> QED BY <2>1
<1>5. Len(u) = 1 /\ \A k \in 1 .. Len(u) : IsScalar(u[k])
  BY <1>4
<1>6. Advance(w, u)
  BY <1>4
<1>7. /\ Types' /\ UNCHANGED <<pc, input, room>> /\ pos' = pos + w
      /\ out' = out \o u /\ Len(out') = Len(out) + Len(u)
  BY <1>1, <1>3, <1>6, AdvanceTypes
<1>8. Places(T) /\ pos + w \in Nat
  BY <1>2, <1>3, BeginningsAre
<1>9. Left(T, pos) = Left(T, pos + w) + 1
  <2>1. pos + 1 \in T
    BY <1>3 DEF Beginnings
  <2>2. \A k \in pos + 2 .. pos + w : k \notin T
    <3> SUFFICES ASSUME NEW k \in pos + 2 .. pos + w
                 PROVE  k \notin T
      OBVIOUS
    <3>1. PICK j \in 2 .. w : k = pos + j
      <4>1. k - pos \in 2 .. w /\ k = pos + (k - pos)
        BY <1>2, <1>3
      <4> QED BY <4>1
    <3>2. ~Begins(input[k])
      BY <3>1
    <3> QED BY <3>2 DEF Beginnings
  <2>3. FirstOnly(T, pos, w) /\ w > 0
    BY <2>1, <2>2 DEF FirstOnly
  <2> QED BY <2>3, <1>2, <1>3, <1>8, LeftAfterFirst
<1>10. Left(T, pos + w) \in Nat
  BY <1>8, LeftType
<1>11. DecodeCount'
  <2>1. Len(out) + Left(T, pos) = room
    BY <1>1 DEF DecodeCount
  <2>2. Len(out) + 1 + Left(T, pos + w) = room
    BY <2>1, <1>3, <1>9, <1>10
  <2> QED BY <2>2, <1>5, <1>7 DEF DecodeCount
<1>12. WritesFit'
  <2>1. Left(Beginnings(input'), pos') \in Nat
    BY <1>7, <1>10
  <2>2. Len(out') + Left(Beginnings(input'), pos') = room'
    BY <1>11 DEF DecodeCount
  <2>3. Len(out') \in Nat /\ room' \in Nat
    BY <1>2, <1>3, <1>5, <1>7
  <2> QED BY <2>1, <2>2, <2>3 DEF WritesFit
<1>13. Scalars'
  BY <1>1, <1>2, <1>5, <1>7, AdvanceScalars
<1>14. pc' # "encode"
  BY <1>7 DEF Decoding
<1> QED BY <1>7, <1>11, <1>12, <1>13, <1>14 DEF IInv

LEMMA DecodeOneStep ==
  ASSUME IInv, DecodeOne
  PROVE  IInv'
<1>1. PICK w : w = Form(input[pos + 1])
  OBVIOUS
<1>2. Decoding /\ pos < Len(input)
  BY DEF DecodeOne, Decoding
<1>3. Types
  BY DEF IInv
<1>4. input[pos + 1] \in Nat
  <2>1. input \in Seq(Nat) /\ pos \in Nat
    BY <1>3 DEF Types
  <2> QED BY <2>1, <1>2
<1>5. IF WholeAhead(w) THEN Advance(w, <<CodePoint(Ahead(w))>>) ELSE Return("decoded", 0)
  BY <1>1 DEF DecodeOne
<1>6. CASE ~WholeAhead(w)
  <2>1. Return("decoded", 0)
    BY <1>5, <1>6
  <2> QED BY <2>1, ReturnKeeps
<1>7. CASE WholeAhead(w)
  <2>1. PICK c : c = CodePoint(Ahead(w))
    OBVIOUS
  <2>2. /\ Advance(w, <<c>>) /\ w > 0 /\ pos + w <= Len(input)
        /\ \A k \in 2 .. w : ~Begins(input[pos + k])
        /\ InForm(c, w)
    BY <1>5, <1>7, <2>1 DEF WholeAhead
  <2>3. w \in 1 .. 4 /\ Begins(input[pos + 1]) /\ (w = 1 => input[pos + 1] < 128)
    BY <1>1, <1>4, <2>2, FormIs
  <2>4. /\ Ahead(w) \in Seq(Nat) /\ Len(Ahead(w)) = w
        /\ \A k \in 1 .. w : Ahead(w)[k] = input[pos + k]
    BY <1>3, <2>2, <2>3, AheadIs
  <2>5. c \in Nat
    BY <2>1, <2>3, <2>4, CodePointType
  <2>6. w = 1 => c < 128
    <3> SUFFICES ASSUME w = 1 PROVE c < 128
      OBVIOUS
    <3>1. c = Ahead(w)[1]
      BY <2>1, <2>4, SMT DEF CodePoint
    <3> QED BY <3>1, <2>3, <2>4
  <2>7. IsScalar(c)
    BY <2>2, <2>3, <2>5, <2>6, InFormIsScalar
  <2> QED BY <1>2, <2>2, <2>3, <2>5, <2>7, DecodeWhole
<1> QED BY <1>6, <1>7

\* While code points are written, as many octets are written as are counted off.
LEMMA EncodeUnits ==
  ASSUME IInv, Encoding, NEW n \in Nat, pos + n <= Len(input), NEW u \in Seq(Nat),
         Advance(n, u), LeftAll(input, pos) = LeftAll(input, pos + n) + Len(u)
  PROVE  IInv'
<1>1. Types /\ EncodeCount
  BY DEF IInv, Encoding
<1>2. input \in Seq(Nat) /\ pos \in Nat /\ out \in Seq(Nat) /\ room \in Nat
  BY <1>1 DEF Types
<1>3. Len(input) \in Nat /\ Len(out) \in Nat /\ Len(u) \in Nat /\ pos + n \in 0 .. Len(input)
  BY <1>2
<1>4. /\ Types' /\ UNCHANGED <<pc, input, room>> /\ pos' = pos + n
      /\ out' = out \o u /\ Len(out') = Len(out) + Len(u)
  BY <1>1, AdvanceTypes
<1>5. LeftAll(input, pos + n) \in Nat
  BY <1>2, <1>3, LeftAllType
<1>6. Len(out') + LeftAll(input', pos') = room'
  <2>1. Len(out) + LeftAll(input, pos) = room
    BY <1>1 DEF EncodeCount
  <2>2. Len(out) + Len(u) + LeftAll(input, pos + n) = room
    BY <2>1, <1>3, <1>5
  <2> QED BY <2>2, <1>4
<1>7. WritesFit'
  <2>1. LeftAll(input', pos') \in Nat
    BY <1>4, <1>5
  <2>2. Len(out') \in Nat /\ room' \in Nat
    BY <1>2, <1>3, <1>4
  <2> QED BY <1>6, <2>1, <2>2 DEF WritesFit
<1>8. EncodeCount'
  BY <1>6 DEF EncodeCount
<1>9. pc' # "decode"
  BY <1>4 DEF Encoding
<1> QED BY <1>4, <1>7, <1>8, <1>9 DEF IInv

LEMMA EncodeAsciiStep ==
  ASSUME IInv, EncodeAscii
  PROVE  IInv'
<1>1. Encoding /\ Types
  BY DEF EncodeAscii, Encoding, IInv
<1>2. /\ pos + Block32 <= Len(input) /\ \A k \in 1 .. Block32 : input[pos + k] < 128
      /\ Advance(Block32, Ahead(Block32))
  BY DEF EncodeAscii, AsciiAhead
<1>3. Block32 \in Nat /\ input \in Seq(Nat) /\ pos \in Nat
  BY <1>1, TextsAssumption DEF Types
<1>4. Ahead(Block32) \in Seq(Nat) /\ Len(Ahead(Block32)) = Block32
  BY <1>1, <1>2, <1>3, AheadIs
<1>5. ASSUME NEW limit \in Nat, limit >= 127
      PROVE  Left(Large(input, limit), pos) = Left(Large(input, limit), pos + Block32)
  BY <1>2, <1>3, <1>5, LargeAscii, ZenonT(60)
<1>6. /\ Left(Large(input, 127), pos) = Left(Large(input, 127), pos + Block32)
      /\ Left(Large(input, 2047), pos) = Left(Large(input, 2047), pos + Block32)
      /\ Left(Large(input, 65535), pos) = Left(Large(input, 65535), pos + Block32)
  BY <1>5, SMT
<1>7. LeftAll(input, pos + Block32) \in Nat
  <2>1. pos + Block32 \in 0 .. Len(input)
    BY <1>2, <1>3
  <2> QED BY <2>1, <1>3, LeftAllType
<1>8. ASSUME NEW limit \in Nat
      PROVE  Left(Large(input, limit), pos + Block32) \in Nat
  <2>1. pos + Block32 \in Nat
    BY <1>3
  <2> QED BY <2>1, <1>3, LargeLeft
<1>9. LeftAll(input, pos) = LeftAll(input, pos + Block32) + Block32
  <2>1. /\ Left(Large(input, 127), pos + Block32) \in Nat
        /\ Left(Large(input, 2047), pos + Block32) \in Nat
        /\ Left(Large(input, 65535), pos + Block32) \in Nat /\ Len(input) \in Nat
    BY <1>3, <1>8, SMTT(60)
  <2> QED BY <2>1, <1>3, <1>6, SMTT(60) DEF LeftAll
<1> QED BY <1>1, <1>2, <1>3, <1>4, <1>9, EncodeUnits

LEMMA EncodeOneStep ==
  ASSUME IInv, EncodeOne
  PROVE  IInv'
<1>1. Encoding /\ Types /\ pos < Len(input)
  BY DEF EncodeOne, Encoding, IInv
<1>2. input \in Seq(Nat) /\ pos \in Nat
  BY <1>1 DEF Types
<1>3. Len(input) \in Nat /\ pos + 1 \in 0 .. Len(input) /\ input[pos + 1] \in Nat
  BY <1>1, <1>2
<1>4. PICK c \in Nat : c = input[pos + 1]
  BY <1>3
<1>5. CASE ~IsScalar(c)
  <2>1. Return("encoded", 0)
    BY <1>4, <1>5 DEF EncodeOne
  <2> QED BY <2>1, ReturnKeeps
<1>6. CASE IsScalar(c)
  <2>1. Advance(1, Utf8(c))
    BY <1>4, <1>6 DEF EncodeOne
  <2>2. /\ Utf8(c) \in Seq(Nat)
        /\ Len(Utf8(c)) = 1 + Over(c, 127)
                            + Over(c, 2047) + Over(c, 65535)
    BY Utf8Length DEF Over
  <2>3. ASSUME NEW limit \in Nat
        PROVE  /\ Left(Large(input, limit), pos)
                    = Left(Large(input, limit), pos + 1) + Over(c, limit)
               /\ Left(Large(input, limit), pos + 1) \in Nat
    <3>1. pos + 1 \in Nat
      BY <1>2
    <3>2. Left(Large(input, limit), pos + 1) \in Nat
      BY <3>1, <1>2, LargeLeft
    <3> QED BY <3>2, <1>1, <1>2, <1>4, LargeStep DEF Over
  <2>4. LeftAll(input, pos) = LeftAll(input, pos + 1) + Len(Utf8(c))
    <3>1. /\ Left(Large(input, 127), pos)
               = Left(Large(input, 127), pos + 1) + Over(c, 127)
          /\ Left(Large(input, 127), pos + 1) \in Nat
      BY <2>3, SMT
    <3>2. /\ Left(Large(input, 2047), pos)
               = Left(Large(input, 2047), pos + 1) + Over(c, 2047)
          /\ Left(Large(input, 2047), pos + 1) \in Nat
      BY <2>3, SMT
    <3>3. /\ Left(Large(input, 65535), pos)
               = Left(Large(input, 65535), pos + 1) + Over(c, 65535)
          /\ Left(Large(input, 65535), pos + 1) \in Nat
      BY <2>3, SMT
    <3>4. Over(c, 127) \in Nat /\ Over(c, 2047) \in Nat /\ Over(c, 65535) \in Nat
      BY DEF Over
    <3>5. /\ LeftAll(input, pos) = (Len(input) - pos) + Left(Large(input, 127), pos)
               + Left(Large(input, 2047), pos) + Left(Large(input, 65535), pos)
          /\ LeftAll(input, pos + 1) = (Len(input) - (pos + 1)) + Left(Large(input, 127), pos + 1)
               + Left(Large(input, 2047), pos + 1) + Left(Large(input, 65535), pos + 1)
      BY SMT DEF LeftAll
    <3>6. PICK a \in Nat : Len(input) - pos = a + 1 /\ Len(input) - (pos + 1) = a
      <4>1. Len(input) - (pos + 1) \in Nat /\ Len(input) - pos = Len(input) - (pos + 1) + 1
        BY <1>2, <1>3
      <4> QED BY <4>1
    <3>7. LeftAll(input, pos + 1) = a + Left(Large(input, 127), pos + 1)
            + Left(Large(input, 2047), pos + 1) + Left(Large(input, 65535), pos + 1)
      BY <3>5, <3>6, SMT
    <3>8. LeftAll(input, pos) = a + 1 + (Left(Large(input, 127), pos + 1) + Over(c, 127))
            + (Left(Large(input, 2047), pos + 1) + Over(c, 2047))
            + (Left(Large(input, 65535), pos + 1) + Over(c, 65535))
      BY <3>1, <3>2, <3>3, <3>5, <3>6, SMT
    <3>9. Len(Utf8(c)) = 1 + Over(c, 127) + Over(c, 2047) + Over(c, 65535)
      BY <2>2
    <3>10. PICK x \in Nat : x = Left(Large(input, 127), pos + 1)
      BY <3>1
    <3>11. PICK y \in Nat : y = Left(Large(input, 2047), pos + 1)
      BY <3>2
    <3>12. PICK z \in Nat : z = Left(Large(input, 65535), pos + 1)
      BY <3>3
    <3>13. LeftAll(input, pos + 1) = a + x + y + z
      BY <3>7, <3>10, <3>11, <3>12, SMT
    <3>14. PICK u \in Nat, v \in Nat, w \in Nat :
             u = Over(c, 127) /\ v = Over(c, 2047) /\ w = Over(c, 65535)
      BY <3>4
    <3>15. LeftAll(input, pos) = a + 1 + (x + u) + (y + v) + (z + w)
      BY <3>8, <3>10, <3>11, <3>12, <3>14, SMT
    <3>16. Len(Utf8(c)) = 1 + u + v + w
      BY <3>9, <3>14
    <3>17. a + 1 + (x + u) + (y + v) + (z + w) = (a + x + y + z) + (1 + u + v + w)
      OBVIOUS
    <3> QED BY <3>13, <3>15, <3>16, <3>17, SMT
  <2>5. pos + 1 <= Len(input)
    BY <1>3
  <2> QED BY <1>1, <2>1, <2>2, <2>4, <2>5, EncodeUnits
<1> QED BY <1>5, <1>6

-----------------------------------------------------------------------------
LEMMA Initially == Init => IInv
<1> SUFFICES ASSUME Init PROVE IInv
  OBVIOUS
<1>1. Types
  BY DEF Init, Types
<1>2. WritesFit
  BY DEF Init, WritesFit
<1>3. pc # "decode" /\ pc # "encode"
  BY DEF Init
<1> QED BY <1>1, <1>2, <1>3 DEF IInv

LEMMA Widened ==
  ASSUME NEW n \in Nat, NEW s \in Seq(0 .. n)
  PROVE  s \in Seq(Nat)
OBVIOUS

LEMMA CallStep ==
  ASSUME IInv, Call
  PROVE  IInv'
<1>1. <<>> \in Seq(Nat)
  OBVIOUS
<1>2. ASSUME NEW s \in Octets, Decode(s, <<>>)
      PROVE  IInv'
  <2>1. s \in Seq(0 .. 255)
    BY TextsAssumption
  <2>2. s \in Seq(Nat)
    BY <2>1, 255 \in Nat, Widened, ZenonT(60)
  <2> QED BY <1>1, <1>2, <2>2, StartDecode
<1>3. ASSUME NEW s \in CodePoints, Encode(s, <<>>)
      PROVE  IInv'
  <2>1. s \in Seq(Nat)
    BY TextsAssumption
  <2> QED BY <1>1, <1>3, <2>1, StartEncode
<1> QED BY <1>2, <1>3 DEF Call

LEMMA BackStep ==
  ASSUME IInv, Back
  PROVE  IInv'
<1>1. input \in Seq(Nat) /\ out \in Seq(Nat)
  BY DEF IInv, Types
<1>2. Encode(out, input) \/ Decode(out, input)
  BY DEF Back
<1> QED BY <1>1, <1>2, StartDecode, StartEncode

LEMMA EndStep ==
  ASSUME IInv, EndDecode \/ EndEncode
  PROVE  IInv'
<1>1. Len(out) \in Nat
  BY DEF IInv, Types
<1>2. Return("decoded", Len(out)) \/ Return("encoded", Len(out))
  BY DEF EndDecode, EndEncode
<1> QED BY <1>1, <1>2, ReturnKeeps

LEMMA Stays ==
  ASSUME IInv, UNCHANGED vars
  PROVE  IInv'
<1>1. UNCHANGED <<pc, input, pos, out, room, answer, origin>>
  BY DEF vars
<1>2. Types' /\ WritesFit' /\ (Scalars' <=> Scalars)
  BY <1>1 DEF IInv, Types, WritesFit, Scalars
<1>3. (DecodeCount' <=> DecodeCount) /\ (EncodeCount' <=> EncodeCount) /\ pc' = pc
  BY <1>1 DEF DecodeCount, EncodeCount
<1> QED BY <1>2, <1>3 DEF IInv

LEMMA Inductive == Spec => []IInv
<1>1. ASSUME IInv, [Next]_vars
      PROVE  IInv'
  BY <1>1, CallStep, BackStep, EndStep, DecodeAsciiStep, DecodeOneStep, EncodeAsciiStep,
     EncodeOneStep, Stays DEF Next, Step
<1> QED BY Initially, <1>1, PTL DEF Spec

\* Whatever is converted, every variable has its type, and what the decoder has
\* written so far are scalar values.
THEOREM TypeCorrect == Spec => []TypeOK
<1>1. IInv => TypeOK
  BY DEF IInv, Types, Scalars, TypeOK
<1> QED BY <1>1, Inductive, PTL

\* Neither conversion ever writes past a buffer whose size was counted beforehand,
\* in texts of any length and with blocks of any size, malformed texts included.
THEOREM WritesFitAlways == Spec => []WritesFit
<1>1. IInv => WritesFit
  BY DEF IInv
<1> QED BY <1>1, Inductive, PTL

-----------------------------------------------------------------------------
(* The mappings, and how many code points are in one.                      *)
LEMMA LeastNatural ==
  ASSUME NEW S \in SUBSET Nat, S # {}
  PROVE  \E m \in S : \A c \in S : m <= c
<1> DEFINE R == {ss \in Nat \X Nat : ss[1] < ss[2]}
<1>1. IsWellFoundedOn(R, Nat)
  BY NatLessThanWellFounded DEF OpToRel
<1>2. PICK least \in S : \A c \in S : ~(<<c, least>> \in R)
  <2> HIDE DEF R
  <2> QED BY <1>1, WFMin
<1>3. ASSUME NEW c \in S
      PROVE  least <= c
  <2>1. least \in Nat /\ c \in Nat /\ ~(c < least)
    BY <1>2
  <2> QED BY <2>1
<1> QED BY <1>3

After(at) == at + M!Width(M!Octet(at))

LEMMA MappingsAre ==
  /\ Len(utf8_table) \in Nat
  /\ \A at \in M!Begins :
       /\ at \in Nat /\ at < Len(utf8_table)
       /\ M!Octet(at) # 0 => After(at) \in M!Begins /\ After(at) > at
<1>1. Len(utf8_table) \in Nat
  BY MappingsAssumption
<1>2. ASSUME NEW at \in M!Begins
      PROVE  /\ at \in Nat /\ at < Len(utf8_table)
             /\ M!Octet(at) # 0 => After(at) \in M!Begins /\ After(at) > at
  <2>1. at \in 0 .. Len(utf8_table) - 1
    BY DEF M!Begins
  <2>2. at \in Nat /\ at < Len(utf8_table)
    BY <1>1, <2>1
  <2>3. M!Width(M!Octet(at)) \in 1 .. 4
    BY DEF M!Width
  <2>4. After(at) > at
    BY <2>2, <2>3 DEF After
  <2> QED BY <2>2, <2>4, MappingsAssumption DEF After
<1> QED BY <1>1, <1>2

\* f counts as utf8_count_codepoints() does, from place k on.
CountsFrom(f, k) ==
  /\ f \in [M!Begins -> Nat]
  /\ \A at \in M!Begins :
       at >= k => f[at] = IF M!Octet(at) = 0 THEN 0 ELSE 1 + f[After(at)]

LEMMA OneMore ==
  ASSUME NEW k \in Nat, NEW f, CountsFrom(f, k + 1)
  PROVE  \E h : CountsFrom(h, k)
<1>1. CASE k \notin M!Begins
  <2>1. \A at \in M!Begins : at >= k => at >= k + 1
    BY <1>1, MappingsAre
  <2> QED BY <2>1 DEF CountsFrom
<1>2. CASE k \in M!Begins
  <2> DEFINE n == IF M!Octet(k) = 0 THEN 0 ELSE 1 + f[After(k)]
             h == [f EXCEPT ![k] = n]
  <2>1. n \in Nat
    <3>1. CASE M!Octet(k) = 0
      BY <3>1
    <3>2. CASE M!Octet(k) # 0
      <4>1. f[After(k)] \in Nat
        BY <1>2, <3>2, MappingsAre DEF CountsFrom
      <4> QED BY <3>2, <4>1
    <3> QED BY <3>1, <3>2
  <2> HIDE DEF n
  <2>2. /\ h \in [M!Begins -> Nat] /\ h[k] = n
        /\ \A at \in M!Begins : at # k => h[at] = f[at]
    BY <1>2, <2>1 DEF CountsFrom
  <2> HIDE DEF h
  <2>3. ASSUME NEW at \in M!Begins, at >= k, M!Octet(at) # 0
        PROVE  After(at) \in M!Begins /\ h[After(at)] = f[After(at)]
    <3>1. After(at) \in M!Begins /\ After(at) > at /\ at \in Nat /\ After(at) \in Nat
      BY <2>3, MappingsAre
    <3>2. After(at) # k
      BY <2>3, <3>1
    <3> QED BY <2>2, <3>1, <3>2
  <2>4. ASSUME NEW at \in M!Begins, at >= k
        PROVE  h[at] = IF M!Octet(at) = 0 THEN 0 ELSE 1 + h[After(at)]
    <3>1. CASE at = k
      BY <2>2, <2>3, <2>4, <3>1 DEF n
    <3>2. CASE at # k
      <4>1. at >= k + 1
        BY <2>4, <3>2, MappingsAre
      <4>2. f[at] = IF M!Octet(at) = 0 THEN 0 ELSE 1 + f[After(at)]
        BY <4>1 DEF CountsFrom
      <4> QED BY <2>2, <2>3, <2>4, <3>2, <4>2
    <3> QED BY <3>1, <3>2
  <2> QED BY <2>2, <2>4 DEF CountsFrom
<1> QED BY <1>1, <1>2

LEMMA CountExists == \E f : CountsFrom(f, 0)
<1> DEFINE L   == Len(utf8_table)
           Bad == {j \in 0 .. L : ~\E f : CountsFrom(f, L - j)}
<1>0. L \in Nat
  BY MappingsAre
<1>1. Bad = {}
  <2> SUFFICES ASSUME Bad # {}
               PROVE  FALSE
    OBVIOUS
  <2>1. PICK j \in Bad : \A c \in Bad : j <= c
    <3>1. Bad \in SUBSET Nat
      OBVIOUS
    <3> HIDE DEF Bad
    <3> QED BY <3>1, LeastNatural
  <2>2. j \in 0 .. L /\ ~\E f : CountsFrom(f, L - j)
    OBVIOUS
  <2>3. j # 0
    <3> DEFINE none == [at \in M!Begins |-> 0]
    <3>1. \A at \in M!Begins : ~(at >= L)
      BY <1>0, MappingsAre, SMTT(60)
    <3>2. CountsFrom(none, L)
      BY <3>1 DEF CountsFrom
    <3>3. L - 0 = L
      BY <1>0
    <3> HIDE DEF none, L
    <3> QED BY ONLY <2>2, <3>2, <3>3
  <2>4. j - 1 \in 0 .. L /\ ~(j <= j - 1) /\ L - j \in Nat /\ L - (j - 1) = L - j + 1
    <3> HIDE DEF L
    <3> QED BY ONLY <1>0, <2>2, <2>3
  <2>5. j - 1 \notin Bad
    <3> HIDE DEF Bad
    <3> QED BY <2>1, <2>4
  <2>6. \E f : CountsFrom(f, L - j + 1)
    <3> HIDE DEF L
    <3> QED BY <2>4, <2>5
  <2>7. \E f : CountsFrom(f, L - j)
    <3> HIDE DEF L, Bad
    <3> QED BY ONLY <2>4, <2>6, OneMore
  <2> QED BY <2>2, <2>7
<1>2. L \in 0 .. L /\ L - L = 0
  <2> HIDE DEF L
  <2> QED BY <1>0
<1>3. L \notin Bad
  BY <1>1
<1>4. \E f : CountsFrom(f, L - L)
  BY <1>2, <1>3
<1> QED
  <2> HIDE DEF L, Bad
  <2> QED BY <1>2, <1>4

\* utf8_count_codepoints() comes to an end, and counts on from the next code point.
LEMMA CountIs == CountsFrom(M!count, 0)
<1> DEFINE F(f) == [at \in M!Begins |-> IF M!Octet(at) = 0 THEN 0
                                        ELSE 1 + f[at + M!Width(M!Octet(at))]]
           L    == Len(utf8_table)
<1>0. L \in Nat
  BY MappingsAre
<1>1. PICK f : CountsFrom(f, 0)
  BY CountExists
<1>2. f \in [M!Begins -> Nat] /\ \A at \in M!Begins : f[at] = F(f)[at]
  BY <1>1, MappingsAre DEF CountsFrom, After
<1>3. f = F(f)
  BY <1>2
<1>4. M!count = F(M!count)
  <2>1. M!count = CHOOSE h : h = F(h)
    BY DEF M!count
  <2> HIDE DEF F
  <2> QED BY <1>3, <2>1
<1> DEFINE Bad == {j \in 0 .. L : L - j \in M!Begins /\ M!count[L - j] # f[L - j]}
<1>5. Bad = {}
  <2> SUFFICES ASSUME Bad # {}
               PROVE  FALSE
    OBVIOUS
  <2>1. PICK j \in Bad : \A c \in Bad : j <= c
    <3>1. Bad \in SUBSET Nat
      OBVIOUS
    <3> HIDE DEF Bad
    <3> QED BY <3>1, LeastNatural
  <2> DEFINE at == L - j
  <2>2. j \in 0 .. L /\ at \in M!Begins /\ M!count[at] # f[at]
    OBVIOUS
  <2>3. /\ M!count[at] = IF M!Octet(at) = 0 THEN 0 ELSE 1 + M!count[After(at)]
        /\ f[at] = IF M!Octet(at) = 0 THEN 0 ELSE 1 + f[After(at)]
    <3> HIDE DEF at
    <3>1. M!count[at] = F(M!count)[at]
      BY <1>4
    <3>2. f[at] = F(f)[at]
      BY <1>2, <2>2
    <3> QED BY <2>2, <3>1, <3>2 DEF After
  <2>4. M!Octet(at) # 0 /\ M!count[After(at)] # f[After(at)]
    <3> HIDE DEF at
    <3> QED BY <2>2, <2>3
  <2>5. After(at) \in M!Begins /\ After(at) > at /\ After(at) < L /\ After(at) \in Nat
    <3> HIDE DEF at
    <3> QED BY <2>2, <2>4, MappingsAre
  <2> DEFINE to == After(at)
             c  == L - to
  <2>6. c \in 0 .. L /\ L - c = to /\ ~(j <= c)
    <3>1. to \in Nat /\ to > L - j /\ to < L
      BY <2>5
    <3> HIDE DEF to, L
    <3> QED BY ONLY <1>0, <2>2, <3>1
  <2>7. c \in Bad
    <3>1. to \in M!Begins /\ M!count[to] # f[to]
      BY <2>4, <2>5
    <3> HIDE DEF to, at, L
    <3> QED BY <2>6, <3>1
  <2> QED
    <3> HIDE DEF Bad, c
    <3> QED BY <2>1, <2>6, <2>7
<1>6. ASSUME NEW at \in M!Begins
      PROVE  M!count[at] = f[at]
  <2>1. L - at \in 0 .. L /\ L - (L - at) = at
    <3>1. at \in Nat /\ at < L
      BY MappingsAre
    <3> HIDE DEF L
    <3> QED BY ONLY <1>0, <3>1
  <2>2. L - at \notin Bad
    BY <1>5
  <2> HIDE DEF L
  <2> QED BY <2>1, <2>2
<1>7. M!count = [at \in M!Begins |-> M!count[at]]
  <2>1. DOMAIN F(M!count) = M!Begins /\ F(M!count) = [at \in M!Begins |-> F(M!count)[at]]
    OBVIOUS
  <2> HIDE DEF F
  <2> QED BY <1>4, <2>1
<1>8. M!count = f
  <2>1. f = [at \in M!Begins |-> f[at]]
    BY <1>2
  <2> QED BY <1>6, <1>7, <2>1
<1> QED BY <1>1, <1>8

-----------------------------------------------------------------------------
(* map(): the buffer is what the first pass has counted.                   *)
Lookup(c) == M!idna_lookup(c)
Passes(c) ==
  \/ Lookup(c) = IDNA_VALID
  \/ Lookup(c) # IDNA_DISALLOWED /\ Lookup(c) < Len(utf8_table)
Cost(c) == IF Lookup(c) = IDNA_VALID THEN 1 ELSE M!count[Lookup(c)]

\* g[k] is what the first k code points take, for each k up to n.
Sums(g, n) ==
  /\ g \in [0 .. Len(minput) -> Nat] /\ g[0] = 0
  /\ \A k \in 1 .. n : g[k] = g[k - 1] + Cost(minput[k]) /\ Passes(minput[k])
  /\ \A k \in 0 .. n : g[k] <= g[n]

Counting ==
  mpc = "count" => mout = <<>> /\ \E g : Sums(g, mpos) /\ msize = g[mpos]

Writing ==
  mpc \in {"write", "copy"} =>
    /\ \E S : mout \in Seq(S)
    /\ \E g :
         /\ Sums(g, Len(minput)) /\ msize = g[Len(minput)]
         /\ mpc = "write" => Len(mout) = g[mpos]
         /\ mpc = "copy" =>
              /\ mpos < Len(minput) /\ mptr \in M!Begins
              /\ Len(mout) + M!count[mptr] = g[mpos + 1]

MapInv ==
  /\ mpc \in {"idle", "count", "write", "copy", "mapped", "words", "lowered"}
  /\ mpc = "idle" => mpos = 0 /\ msize = 0
  /\ mpc \in {"count", "write", "copy"} => minput \in Seq(Nat) /\ mpos \in 0 .. Len(minput)
  /\ mok => mpc = "mapped" /\ Len(mout) = msize
  /\ Counting /\ Writing

LEMMA CostIs ==
  ASSUME NEW c \in Nat, Passes(c)
  PROVE  /\ Cost(c) \in Nat
         /\ Lookup(c) # IDNA_VALID => Lookup(c) \in M!Begins
<1>1. Lookup(c) \notin {IDNA_VALID, IDNA_DISALLOWED} =>
        (Lookup(c) < Len(utf8_table) => Lookup(c) \in M!Begins)
  <2>1. CASE c >= IDNA_LOW_RANGE_END
    <3>1. Lookup(c) = M!AboveTable(c)
      BY <2>1 DEF Lookup, M!idna_lookup
    <3>2. Lookup(c) \in {IDNA_IGNORED, IDNA_DISALLOWED}
      BY <3>1 DEF M!AboveTable
    <3> QED BY <3>2, MappingsAssumption
  <2>2. CASE ~(c >= IDNA_LOW_RANGE_END)
    <3>1. c \in 0 .. IDNA_LOW_RANGE_END - 1
      BY <2>2, MappingsAssumption
    <3> QED BY <3>1, MappingsAssumption DEF Lookup
  <2> QED BY <2>1, <2>2
<1>2. CASE Lookup(c) = IDNA_VALID
  BY <1>2 DEF Cost
<1>3. CASE Lookup(c) # IDNA_VALID
  <2>1. Lookup(c) \in M!Begins
    <3>1. Lookup(c) # IDNA_DISALLOWED /\ Lookup(c) < Len(utf8_table)
      BY <1>3 DEF Passes
    <3> QED BY <1>1, <1>3, <3>1
  <2>2. M!count[Lookup(c)] \in Nat
    BY <2>1, CountIs DEF CountsFrom
  <2> QED BY <1>3, <2>1, <2>2 DEF Cost
<1> QED BY <1>2, <1>3

LEMMA AppendOne ==
  ASSUME NEW S, NEW s \in Seq(S), NEW c
  PROVE  (\E T : Append(s, c) \in Seq(T)) /\ Len(Append(s, c)) = Len(s) + 1
<1>1. s \in Seq(S \cup {c}) /\ c \in S \cup {c}
  BY SeqMonotonic
<1>2. Append(s, c) \in Seq(S \cup {c}) /\ Len(Append(s, c)) = Len(s) + 1
  BY ONLY <1>1, AppendProperties
<1> QED BY <1>2

LEMMA MapStart ==
  ASSUME MapInv, NEW s \in Seq(Nat), M!Map(s) \/ M!Refuse(s) \/ M!AsciiMap(s)
  PROVE  MapInv'
<1>1. /\ mpc = "idle" /\ minput' = s /\ mpos' = mpos /\ msize' = msize /\ mok' = mok
  BY DEF M!Map, M!Refuse, M!AsciiMap, M!Start
<1>2. mpos = 0 /\ msize = 0 /\ ~mok
  BY <1>1 DEF MapInv
<1>3. CASE mpc' = "count" /\ mout' = <<>>
  <2> DEFINE g == [k \in 0 .. Len(s) |-> 0]
  <2>1. Len(s) \in Nat /\ 0 \in 0 .. Len(s)
    OBVIOUS
  <2>2. g \in [0 .. Len(s) -> Nat] /\ g[0] = 0 /\ \A k \in 0 .. 0 : g[k] <= g[0]
    BY <2>1
  <2> HIDE DEF g
  <2>3. Sums(g, 0)' /\ msize' = g[mpos'] /\ mpos' = 0
    BY <1>1, <1>2, <2>2 DEF Sums
  <2>4. \E h : Sums(h, mpos)' /\ msize' = h[mpos']
    BY <2>3
  <2> QED BY <1>1, <1>2, <1>3, <2>1, <2>4 DEF MapInv, Counting, Writing
<1>4. CASE mpc' \in {"mapped", "words"}
  BY <1>1, <1>2, <1>4 DEF MapInv, Counting, Writing
<1> QED BY <1>3, <1>4 DEF M!Map, M!Refuse, M!AsciiMap, M!Start

LEMMA CountSteps ==
  ASSUME MapInv, M!CountTurn
  PROVE  MapInv'
<1>1. /\ mpc = "count" /\ minput \in Seq(Nat) /\ mpos \in 0 .. Len(minput)
      /\ mpos < Len(minput) /\ ~mok
  BY DEF M!CountTurn, MapInv
<1>2. CASE M!Return(FALSE)
  BY <1>2 DEF M!Return, MapInv, Counting, Writing
<1> DEFINE c == minput[mpos + 1]
           k == mpos + 1
<1>3. CASE /\ Passes(c) /\ msize' = msize + Cost(c) /\ mpos' = k
           /\ mpc' = mpc /\ minput' = minput /\ mout' = mout /\ mok' = mok
  <2>1. /\ k \in 1 .. Len(minput) /\ k \in 0 .. Len(minput) /\ k - 1 = mpos /\ c \in Nat
        /\ \A n \in 1 .. k : n = k \/ n \in 1 .. mpos
        /\ \A n \in 0 .. mpos : n # k /\ n \in 0 .. Len(minput)
        /\ \A n \in 0 .. k : n = k \/ n \in 0 .. mpos
        /\ \A n \in 1 .. mpos : n \in 0 .. mpos /\ n - 1 \in 0 .. mpos
        /\ mpos \in 0 .. mpos /\ 0 \in 0 .. mpos
    BY <1>1
  <2>2. PICK g : Sums(g, mpos) /\ msize = g[mpos]
    BY <1>1 DEF MapInv, Counting
  <2>3. /\ g \in [0 .. Len(minput) -> Nat] /\ g[0] = 0
        /\ \A n \in 1 .. mpos : g[n] = g[n - 1] + Cost(minput[n]) /\ Passes(minput[n])
        /\ \A n \in 0 .. mpos : g[n] <= g[mpos]
    BY <2>2 DEF Sums
  <2>4. Cost(c) \in Nat
    BY <1>3, <2>1, CostIs
  <2> DEFINE h == [g EXCEPT ![k] = g[mpos] + Cost(c)]
             cost == Cost(c)
             sum  == g[mpos]
  <2>5. sum \in Nat /\ cost \in Nat
    BY <2>1, <2>3, <2>4
  <2>6. /\ h \in [0 .. Len(minput) -> Nat] /\ h[k] = sum + cost
        /\ \A n \in 0 .. mpos : h[n] = g[n]
    <3> HIDE DEF k, cost, sum
    <3>1. h = [g EXCEPT ![k] = sum + cost]
      BY DEF cost, sum
    <3> HIDE DEF h
    <3> QED BY ONLY <2>1, <2>3, <2>5, <3>1
  <2> HIDE DEF h
  <2>7. ASSUME NEW n \in 1 .. k
        PROVE  h[n] = h[n - 1] + Cost(minput[n]) /\ Passes(minput[n])
    <3>1. CASE n = k
      BY <1>3, <2>1, <2>6, <3>1
    <3>2. CASE n # k
      <4>1. n \in 1 .. mpos
        BY <2>1, <3>2
      <4> QED BY <2>1, <2>3, <2>6, <4>1
    <3> QED BY <3>1, <3>2
  <2>8. ASSUME NEW n \in 0 .. k
        PROVE  h[n] <= h[k]
    <3>1. CASE n = k
      BY <2>5, <2>6, <3>1
    <3>2. CASE n # k
      <4>1. n \in 0 .. mpos /\ n \in 0 .. Len(minput)
        BY <2>1, <3>2
      <4>2. h[n] = g[n] /\ g[n] <= sum /\ g[n] \in Nat
        BY <2>3, <2>6, <4>1
      <4> HIDE DEF sum, cost, k
      <4> QED BY ONLY <2>5, <2>6, <4>2
    <3> QED BY <3>1, <3>2
  <2>9. h[0] = 0
    BY <2>1, <2>3, <2>6
  <2>10. Sums(h, k)
    <3> HIDE DEF k
    <3> QED BY <2>6, <2>7, <2>8, <2>9 DEF Sums
  <2>11. msize' = h[k]
    BY <1>3, <2>2, <2>6
  <2>12. PICK f : Sums(f, k) /\ msize' = f[k]
    BY ONLY <2>10, <2>11
  <2>13. Sums(f, mpos)' /\ msize' = f[mpos']
    <3>1. mpos' = k /\ minput' = minput
      BY <1>3
    <3> HIDE DEF k
    <3> QED BY ONLY <2>12, <3>1 DEF Sums
  <2>14. Counting'
    <3>1. (mout = <<>>)'
      BY <1>1, <1>3 DEF MapInv, Counting
    <3> QED BY ONLY <2>13, <3>1 DEF Counting
  <2>15. mpos' \in 0 .. Len(minput')
    BY <1>3, <2>1
  <2>16. mpc' = "count" /\ ~mok' /\ minput' \in Seq(Nat)
    BY <1>1, <1>3
  <2> QED BY ONLY <2>14, <2>15, <2>16 DEF MapInv, Writing
<1> QED
  <2>1. M!Return(FALSE) \/ (/\ Passes(c) /\ msize' = msize + Cost(c) /\ mpos' = k
           /\ mpc' = mpc /\ minput' = minput /\ mout' = mout /\ mok' = mok)
    BY DEF M!CountTurn, M!Status, M!utf8_count_codepoints, Passes, Cost, Lookup
  <2> QED BY <1>2, <1>3, <2>1

\* What the second pass starts a turn from.
LEMMA SecondPass ==
  ASSUME MapInv, mpc \in {"write", "copy"}
  PROVE  /\ minput \in Seq(Nat) /\ mpos \in 0 .. Len(minput) /\ ~mok
         /\ \E S : mout \in Seq(S)
         /\ Len(mout) \in Nat
         /\ \A k \in 1 .. Len(minput) :
              /\ minput[k] \in Nat /\ Passes(minput[k]) /\ Cost(minput[k]) \in Nat
<1>1. /\ minput \in Seq(Nat) /\ mpos \in 0 .. Len(minput) /\ ~mok
      /\ \E S : mout \in Seq(S)
  BY DEF MapInv, Writing
<1>2. Len(mout) \in Nat
  BY <1>1
<1>3. PICK g : Sums(g, Len(minput))
  BY DEF MapInv, Writing
<1>4. \A k \in 1 .. Len(minput) : minput[k] \in Nat /\ Passes(minput[k])
  BY <1>1, <1>3 DEF Sums
<1> QED BY <1>1, <1>2, <1>4, CostIs

LEMMA EndCounts ==
  ASSUME MapInv, M!EndCount
  PROVE  MapInv'
<1>1. /\ mpc = "count" /\ mpos = Len(minput) /\ mpc' = "write" /\ mpos' = 0
      /\ minput' = minput /\ mout' = mout /\ msize' = msize /\ mok' = mok
  BY DEF M!EndCount
<1>2. minput \in Seq(Nat) /\ mout = <<>> /\ ~mok
  BY <1>1 DEF MapInv, Counting
<1>3. PICK g : Sums(g, mpos) /\ msize = g[mpos]
  BY <1>1 DEF MapInv, Counting
<1>4. /\ Sums(g, Len(minput))' /\ msize' = g[Len(minput')] /\ Len(mout') = g[mpos']
  <2>1. g[0] = 0 /\ Len(<<>>) = 0
    BY <1>3 DEF Sums
  <2> QED BY <1>1, <1>2, <1>3, <2>1 DEF Sums
<1>5. mout' \in Seq(Nat) /\ mpos' \in 0 .. Len(minput')
  BY <1>1, <1>2
<1>6. Writing'
  BY <1>1, <1>4, <1>5 DEF Writing
<1> QED BY <1>1, <1>2, <1>5, <1>6 DEF MapInv, Counting

LEMMA WriteSteps ==
  ASSUME MapInv, M!WriteTurn
  PROVE  MapInv'
<1> DEFINE c == minput[mpos + 1]
           k == mpos + 1
<1>1. /\ mpc = "write" /\ mpos < Len(minput) /\ minput' = minput /\ msize' = msize /\ mok' = mok
  BY DEF M!WriteTurn
<1>2. /\ minput \in Seq(Nat) /\ mpos \in 0 .. Len(minput) /\ ~mok /\ Len(mout) \in Nat
      /\ \A n \in 1 .. Len(minput) :
           /\ minput[n] \in Nat /\ Passes(minput[n]) /\ Cost(minput[n]) \in Nat
  BY <1>1, SecondPass
<1>3. k \in 1 .. Len(minput) /\ k - 1 = mpos /\ k \in 0 .. Len(minput)
  BY <1>1, <1>2
<1>4. c \in Nat /\ Passes(c)
  BY <1>2, <1>3
<1>5. PICK g : Sums(g, Len(minput)) /\ msize = g[Len(minput)] /\ Len(mout) = g[mpos]
  BY <1>1 DEF MapInv, Writing
<1>6. g[k] = g[mpos] + Cost(c)
  BY <1>3, <1>5 DEF Sums
<1>7. PICK S : mout \in Seq(S)
  BY <1>1, SecondPass
<1>8. CASE Lookup(c) = IDNA_VALID
  <2>1. mout' = Append(mout, c) /\ mpos' = k /\ mpc' = mpc
    BY <1>8 DEF M!WriteTurn, M!Status, Lookup
  <2>2. (\E T : mout' \in Seq(T)) /\ Len(mout') = Len(mout) + 1
    BY <1>7, <2>1, AppendOne
  <2>3. Cost(c) = 1
    BY <1>8 DEF Cost
  <2>4. Len(mout') = g[k]
    BY <1>5, <1>6, <2>2, <2>3
  <2> HIDE DEF k
  <2>5. /\ Sums(g, Len(minput))' /\ msize' = g[Len(minput')] /\ Len(mout') = g[mpos']
    BY <1>1, <1>5, <2>1, <2>4 DEF Sums
  <2>6. Writing'
    BY <1>1, <2>1, <2>2, <2>5 DEF Writing
  <2> QED BY <1>1, <1>2, <1>3, <2>1, <2>6 DEF MapInv, Counting
<1>9. CASE Lookup(c) # IDNA_VALID
  <2>1. mpc' = "copy" /\ mptr' = Lookup(c) /\ mout' = mout /\ mpos' = mpos
    BY <1>9 DEF M!WriteTurn, M!Status, Lookup
  <2>2. mptr' \in M!Begins
    BY <1>4, <1>9, <2>1, CostIs
  <2>3. Len(mout') + M!count[mptr'] = g[k]
    BY <1>5, <1>6, <1>9, <2>1 DEF Cost
  <2>4. /\ Sums(g, Len(minput))' /\ msize' = g[Len(minput')]
        /\ Len(mout') + M!count[mptr'] = g[mpos' + 1]
    BY <1>1, <1>5, <2>1, <2>3 DEF Sums
  <2>5. Writing'
    BY <1>1, <1>7, <2>1, <2>2, <2>4 DEF Writing
  <2> QED BY <1>1, <1>2, <2>1, <2>5 DEF MapInv, Counting
<1> QED BY <1>8, <1>9

LEMMA CopySteps ==
  ASSUME MapInv, M!CopyCodePoint
  PROVE  MapInv'
<1>1. /\ mpc = "copy" /\ M!Octet(mptr) # 0 /\ mout' = Append(mout, M!CodePointAt(mptr))
      /\ mptr' = mptr + M!WidthAt(mptr) /\ mpc' = mpc /\ minput' = minput /\ mpos' = mpos
      /\ msize' = msize /\ mok' = mok
  BY DEF M!CopyCodePoint
<1>2. minput \in Seq(Nat) /\ mpos \in 0 .. Len(minput) /\ ~mok /\ Len(mout) \in Nat
  BY <1>1, SecondPass
<1>3. PICK g : /\ Sums(g, Len(minput)) /\ msize = g[Len(minput)]
               /\ mpos < Len(minput) /\ mptr \in M!Begins
               /\ Len(mout) + M!count[mptr] = g[mpos + 1]
  BY <1>1 DEF MapInv, Writing
<1>4. PICK S : mout \in Seq(S)
  BY <1>1, SecondPass
<1>5. (\E T : mout' \in Seq(T)) /\ Len(mout') = Len(mout) + 1
  BY <1>1, <1>4, AppendOne
<1>6. mptr' = After(mptr)
  BY <1>1 DEF After, M!WidthAt, M!Width
<1>7. mptr' \in M!Begins /\ mptr \in Nat
  BY <1>1, <1>3, <1>6, MappingsAre
<1>8. M!count[mptr] = 1 + M!count[mptr'] /\ M!count[mptr'] \in Nat
  BY <1>1, <1>3, <1>6, <1>7, CountIs DEF CountsFrom
<1>9. Len(mout') + M!count[mptr'] = Len(mout) + M!count[mptr]
  BY <1>2, <1>5, <1>8, SMTT(60)
<1>10. /\ Sums(g, Len(minput))' /\ msize' = g[Len(minput')]
       /\ Len(mout') + M!count[mptr'] = g[mpos' + 1]
  BY <1>1, <1>3, <1>9 DEF Sums
<1>11. Writing'
  BY <1>1, <1>3, <1>5, <1>7, <1>10 DEF Writing
<1> QED BY <1>1, <1>2, <1>11 DEF MapInv, Counting

LEMMA EndCopies ==
  ASSUME MapInv, M!EndCopy
  PROVE  MapInv'
<1>1. /\ mpc = "copy" /\ M!Octet(mptr) = 0 /\ mpc' = "write" /\ mpos' = mpos + 1
      /\ minput' = minput /\ mout' = mout /\ msize' = msize /\ mok' = mok
  BY DEF M!EndCopy
<1>2. minput \in Seq(Nat) /\ mpos \in 0 .. Len(minput) /\ ~mok /\ Len(mout) \in Nat
  BY <1>1, SecondPass
<1>3. PICK g : /\ Sums(g, Len(minput)) /\ msize = g[Len(minput)]
               /\ mpos < Len(minput) /\ mptr \in M!Begins
               /\ Len(mout) + M!count[mptr] = g[mpos + 1]
  BY <1>1 DEF MapInv, Writing
<1>4. PICK S : mout \in Seq(S)
  BY <1>1, SecondPass
<1>5. M!count[mptr] = 0
  BY <1>1, <1>3, CountIs, MappingsAre DEF CountsFrom
<1>6. Len(mout) = g[mpos + 1]
  BY <1>2, <1>3, <1>5
<1>7. /\ Sums(g, Len(minput))' /\ msize' = g[Len(minput')] /\ Len(mout') = g[mpos']
  BY <1>1, <1>3, <1>6 DEF Sums
<1>8. Writing'
  BY <1>1, <1>4, <1>7 DEF Writing
<1>9. mpos' \in 0 .. Len(minput')
  BY <1>1, <1>2, <1>3
<1> QED BY <1>1, <1>2, <1>8, <1>9 DEF MapInv, Counting

LEMMA EndWrites ==
  ASSUME MapInv, M!EndWrite
  PROVE  MapInv'
  BY DEF M!EndWrite, M!Return, MapInv, Counting, Writing

LEMMA LowerSteps ==
  ASSUME MapInv, M!WordTurn \/ M!EndWords
  PROVE  MapInv'
<1>1. mpc = "words" /\ mpc' \in {"words", "lowered"} /\ mok' = mok
  BY DEF M!WordTurn, M!EndWords
<1> QED BY <1>1 DEF MapInv, Counting, Writing

LEMMA MapStays ==
  ASSUME MapInv, UNCHANGED mapVars
  PROVE  MapInv'
  BY DEF mapVars, MapInv, Counting, Writing, Sums

LEMMA TextInductive == TextSpec => [](IInv /\ MapInv)
<1>1. TextInit => IInv /\ MapInv
  BY Initially DEF TextInit, M!Init, MapInv, Counting, Writing
<1>2. ASSUME IInv, [TextNext]_textVars
      PROVE  IInv'
  <2>1. CASE UNCHANGED vars
    BY <1>2, <2>1, Stays
  <2>2. CASE Call \/ Back \/ Step
    BY <1>2, <2>2, CallStep, BackStep, EndStep, DecodeAsciiStep, DecodeOneStep, EncodeAsciiStep,
       EncodeOneStep DEF Step
  <2> QED BY <1>2, <2>1, <2>2 DEF TextNext, MapDecoded, MapLabel, textVars
<1>3. ASSUME IInv, MapInv, [TextNext]_textVars
      PROVE  MapInv'
  <2>1. CASE UNCHANGED mapVars
    BY <1>3, <2>1, MapStays
  <2>2. CASE MapDecoded
    <3>1. out \in Seq(Nat)
      BY <1>3 DEF IInv, Types
    <3> QED BY <1>3, <2>2, <3>1, MapStart DEF MapDecoded
  <2>3. CASE MapLabel
    <3>1. Labels \subseteq Seq(Nat) /\ AsciiTexts \subseteq Seq(Nat)
      BY MappingsAssumption
    <3>2. \E s \in Seq(Nat) : M!Map(s) \/ M!AsciiMap(s)
      BY <2>3, <3>1 DEF MapLabel
    <3> QED BY <1>3, <3>2, MapStart
  <2>4. CASE M!Step
    BY <1>3, <2>4, CountSteps, EndCounts, WriteSteps, CopySteps, EndCopies, EndWrites, LowerSteps
      DEF M!Step
  <2> QED BY <1>3, <2>1, <2>2, <2>3, <2>4 DEF TextNext, textVars
<1> QED BY <1>1, <1>2, <1>3, PTL DEF TextSpec

\* The second pass of map() stays in the buffer that the first one sized, fills it,
\* and stays among the mappings, for tables of any content and strings of any
\* length: both passes step over a mapping in the same way.
THEOREM PassesAgreeAlways == TextSpec => []PassesAgree
<1>1. ASSUME MapInv
      PROVE  PassesAgree
  <2>1. mpc = "mapped" /\ mok => Len(mout) = msize
    BY <1>1 DEF MapInv
  <2>2. ASSUME mpc \in {"write", "copy"}
        PROVE  Len(mout) <= msize /\ (mpc = "copy" => mptr \in 0 .. Len(utf8_table) - 1)
    <3>1. mpos \in 0 .. Len(minput) /\ Len(mout) \in Nat /\ Len(minput) \in Nat
      BY <1>1, <2>2, SecondPass
    <3>2. PICK g : /\ Sums(g, Len(minput)) /\ msize = g[Len(minput)]
                   /\ mpc = "write" => Len(mout) = g[mpos]
                   /\ mpc = "copy" =>
                        /\ mpos < Len(minput) /\ mptr \in M!Begins
                        /\ Len(mout) + M!count[mptr] = g[mpos + 1]
      BY <1>1, <2>2 DEF MapInv, Writing
    <3>3. CASE mpc = "write"
      BY <3>1, <3>2, <3>3 DEF Sums
    <3>4. CASE mpc = "copy"
      <4>1. mpos + 1 \in 0 .. Len(minput)
        BY <3>1, <3>2, <3>4
      <4>2. g[mpos + 1] <= msize /\ g[mpos + 1] \in Nat /\ msize \in Nat
        BY <3>1, <3>2, <4>1 DEF Sums
      <4>3. M!count[mptr] \in Nat
        BY <3>2, <3>4, CountIs DEF CountsFrom
      <4>4. Len(mout) + M!count[mptr] = g[mpos + 1]
        BY <3>2, <3>4
      <4>5. Len(mout) <= msize
        BY <3>1, <4>2, <4>3, <4>4
      <4>6. mptr \in 0 .. Len(utf8_table) - 1
        BY <3>2, <3>4 DEF M!Begins
      <4> QED BY <4>5, <4>6
    <3> QED BY <2>2, <3>3, <3>4
  <2> QED BY <2>1, <2>2 DEF PassesAgree, M!PassesAgree
<1> QED BY <1>1, TextInductive, PTL

-----------------------------------------------------------------------------
\* Groups of six bits.
LEMMA Sixes ==
  ASSUME NEW c \in Nat
  PROVE  \E r \in Nat, l \in 0 .. 63 : c = 64 * r + l
<1>1. c \div 64 \in Nat /\ c % 64 \in 0 .. 63 /\ c = 64 * (c \div 64) + (c % 64)
  BY SMT
<1> QED BY ONLY <1>1, SMT

LEMMA Pieces ==
  ASSUME NEW r \in Nat, NEW l \in 0 .. 63, NEW c, c = 64 * r + l
  PROVE  c \div 64 = r /\ c % 64 = l /\ c \div 1 = c
BY SMT

LEMMA Halves ==
  ASSUME NEW c \in Nat
  PROVE  c \div 4096 = (c \div 64) \div 64 /\ c \div 262144 = (c \div 4096) \div 64
BY SMT

\* c ends in the group l, and r is what is left of it.
Group(c, r, l) == c \in Nat /\ r \in Nat /\ l \in 0 .. 63 /\ c = 64 * r + l

LEMMA Grouped ==
  ASSUME NEW c \in Nat
  PROVE  \E r \in Nat, l \in 0 .. 63 : Group(c, r, l)
BY Sixes, SMT DEF Group

LEMMA GroupIs ==
  ASSUME NEW c, NEW r, NEW l, Group(c, r, l)
  PROVE  c \div 64 = r /\ c % 64 = l /\ c \div 1 = c
<1>1. c \in Nat /\ r \in Nat /\ l \in 0 .. 63 /\ c = 64 * r + l
  BY SMT DEF Group
<1> QED BY ONLY <1>1, Pieces, SMT

ThreeGroups(c, h, m, l) ==
  c \div 4096 = h /\ SixBits(c, 64) = 128 + m /\ SixBits(c, 1) = 128 + l

LEMMA ThreePieces ==
  ASSUME NEW c, NEW r, NEW l, NEW h, NEW m, Group(c, r, l), Group(r, h, m)
  PROVE  ThreeGroups(c, h, m, l)
<1>1. c \div 64 = r /\ c % 64 = l /\ c \div 1 = c
  BY ONLY Group(c, r, l), GroupIs, SMT
<1>2. r \div 64 = h /\ r % 64 = m
  BY ONLY Group(r, h, m), GroupIs, SMT
<1>3. c \in Nat
  BY SMT DEF Group
<1>4. c \div 4096 = (c \div 64) \div 64
  BY ONLY <1>3, Halves, SMT
<1> QED BY ONLY <1>1, <1>2, <1>4, SMT DEF SixBits, ThreeGroups

FourGroups(c, h, n, m, l) ==
  /\ c \div 262144 = h /\ SixBits(c, 4096) = 128 + n
  /\ SixBits(c, 64) = 128 + m /\ SixBits(c, 1) = 128 + l

LEMMA FourPieces ==
  ASSUME NEW c, NEW r, NEW q, NEW l, NEW h, NEW n, NEW m,
         Group(c, r, l), Group(r, q, m), Group(q, h, n)
  PROVE  FourGroups(c, h, n, m, l)
<1>1. ThreeGroups(c, q, m, l)
  BY ONLY Group(c, r, l), Group(r, q, m), ThreePieces, SMT
<1>2. c \div 4096 = q /\ SixBits(c, 64) = 128 + m /\ SixBits(c, 1) = 128 + l
  BY ONLY <1>1, SMT DEF ThreeGroups
<1>3. q \div 64 = h /\ q % 64 = n
  BY ONLY Group(q, h, n), GroupIs, SMT
<1>4. c \in Nat
  BY SMT DEF Group
<1>5. c \div 262144 = (c \div 4096) \div 64
  BY ONLY <1>4, Halves, SMT
<1> QED BY ONLY <1>2, <1>3, <1>5, SMT DEF SixBits, FourGroups

ThreeJoined(h, m, l) == Joined(Joined((224 + h) % 16, 128 + m), 128 + l)
FourJoined(h, n, m, l) == Joined(Joined(Joined((240 + h) % 8, 128 + n), 128 + m), 128 + l)

LEMMA Three ==
  ASSUME NEW c, NEW r, NEW h, NEW m, NEW l, h \in 0 .. 15, Group(c, r, l), Group(r, h, m)
  PROVE  ThreeJoined(h, m, l) = c
<1>1. m \in 0 .. 63 /\ l \in 0 .. 63
  BY SMT DEF Group
<1>2. ThreeJoined(h, m, l) = 64 * (64 * h + m) + l
  BY ONLY <1>1, h \in 0 .. 15, SMT DEF ThreeJoined, Joined
<1> QED BY ONLY <1>2, Group(c, r, l), Group(r, h, m), SMT DEF Group

LEMMA Four ==
  ASSUME NEW c, NEW r, NEW q, NEW h, NEW n, NEW m, NEW l,
         h \in 0 .. 7, Group(c, r, l), Group(r, q, m), Group(q, h, n)
  PROVE  FourJoined(h, n, m, l) = c
<1>1. n \in 0 .. 63 /\ m \in 0 .. 63 /\ l \in 0 .. 63
  BY SMT DEF Group
<1>2. FourJoined(h, n, m, l) = 64 * (64 * (64 * h + n) + m) + l
  BY ONLY <1>1, h \in 0 .. 7, SMT DEF FourJoined, Joined
<1> QED BY ONLY <1>2, Group(c, r, l), Group(r, q, m), Group(q, h, n), SMT DEF Group

\* The octets of a code point, and the code point of octets.
LEMMA TwoOctets ==
  ASSUME NEW c \in Nat, 128 <= c, c <= 2047
  PROVE  /\ 192 + (c \div 64) \in 194 .. 223 /\ SixBits(c, 1) \in 128 .. 191
         /\ Joined((192 + (c \div 64)) % 32, SixBits(c, 1)) = c
BY SMT DEF SixBits, Joined

LEMMA ThreeOctets ==
  ASSUME NEW c \in Nat, 2048 <= c, c <= 65535
  PROVE  /\ 224 + (c \div 4096) \in 224 .. 239
         /\ SixBits(c, 64) \in 128 .. 191 /\ SixBits(c, 1) \in 128 .. 191
         /\ Joined(Joined((224 + (c \div 4096)) % 16, SixBits(c, 64)), SixBits(c, 1)) = c
<1>1. PICK r \in Nat, l \in 0 .. 63 : Group(c, r, l)
  BY ONLY c \in Nat, Grouped, SMT
<1>2. PICK h \in Nat, m \in 0 .. 63 : Group(r, h, m)
  BY ONLY r \in Nat, Grouped, SMT
<1>3. ThreeGroups(c, h, m, l)
  BY ONLY <1>1, <1>2, ThreePieces, SMT
<1>4. h \in 0 .. 15
  BY ONLY <1>1, <1>2, 2048 <= c, c <= 65535, SMT DEF Group
<1>5. ThreeJoined(h, m, l) = c
  BY ONLY <1>1, <1>2, <1>4, Three, SMT
<1>6. 224 + h \in 224 .. 239 /\ 128 + m \in 128 .. 191 /\ 128 + l \in 128 .. 191
  BY ONLY <1>1, <1>2, <1>4, SMT
<1> QED BY ONLY <1>3, <1>5, <1>6, SMT DEF ThreeGroups, ThreeJoined

LEMMA FourOctets ==
  ASSUME NEW c \in Nat, 65536 <= c, c <= 1114111
  PROVE  /\ 240 + (c \div 262144) \in 240 .. 244
         /\ SixBits(c, 4096) \in 128 .. 191 /\ SixBits(c, 64) \in 128 .. 191
         /\ SixBits(c, 1) \in 128 .. 191
         /\ Joined(Joined(Joined((240 + (c \div 262144)) % 8, SixBits(c, 4096)), SixBits(c, 64)),
                   SixBits(c, 1)) = c
<1>1. PICK r \in Nat, l \in 0 .. 63 : Group(c, r, l)
  BY ONLY c \in Nat, Grouped, SMT
<1>2. PICK q \in Nat, m \in 0 .. 63 : Group(r, q, m)
  BY ONLY r \in Nat, Grouped, SMT
<1>3. PICK h \in Nat, n \in 0 .. 63 : Group(q, h, n)
  BY ONLY q \in Nat, Grouped, SMT
<1>4. FourGroups(c, h, n, m, l)
  BY ONLY <1>1, <1>2, <1>3, FourPieces, SMT
<1>5. h \in 0 .. 4 /\ h \in 0 .. 7
  BY ONLY <1>1, <1>2, <1>3, 65536 <= c, c <= 1114111, SMT DEF Group
<1>6. FourJoined(h, n, m, l) = c
  BY ONLY <1>1, <1>2, <1>3, <1>5, Four, SMT
<1>7. /\ 240 + h \in 240 .. 244 /\ 128 + n \in 128 .. 191
      /\ 128 + m \in 128 .. 191 /\ 128 + l \in 128 .. 191
  BY ONLY <1>1, <1>2, <1>3, <1>5, SMT
<1> QED BY ONLY <1>4, <1>6, <1>7, SMT DEF FourGroups, FourJoined

\* The lead octets that would make a form of two overlong.
LEMMA TwoRanges ==
  ASSUME NEW a \in 192 .. 223, NEW b \in 128 .. 191
  PROVE  InForm(Joined(a % 32, b), 2) <=> a \in 194 .. 223
BY SMT DEF InForm, Within, Joined

-----------------------------------------------------------------------------
\* The octets of one code point, as WholeAhead() tests them.
Whole(u) ==
  /\ Len(u) \in 1 .. 4 /\ Form(u[1]) = Len(u)
  /\ \A k \in 2 .. Len(u) : ~Begins(u[k])
  /\ InForm(CodePoint(u), Len(u))

Follows == 128 .. 191

LEMMA FollowsIs ==
  ASSUME NEW o \in Nat
  PROVE  ~Begins(o) <=> o \in Follows
BY SMT DEF Begins, Follows

LEMMA FormOf ==
  ASSUME NEW o \in Nat
  PROVE  /\ Form(o) = 1 <=> o \in 0 .. 127
         /\ Form(o) = 2 <=> o \in 192 .. 223
         /\ Form(o) = 3 <=> o \in 224 .. 239
         /\ Form(o) = 4 <=> o \in 240 .. 247
BY SMT DEF Form

LEMMA FormTwo ==
  ASSUME NEW o \in Nat
  PROVE  Form(o) = 2 <=> o \in 192 .. 223
BY FormOf, SMT

LEMMA Short ==
  ASSUME NEW u \in Seq(Nat)
  PROVE  /\ Len(u) = 1 => u = <<u[1]>> /\ u[1] \in Nat
         /\ Len(u) = 2 => u = <<u[1], u[2]>> /\ u[1] \in Nat /\ u[2] \in Nat
         /\ Len(u) = 3 => u = <<u[1], u[2], u[3]>> /\ u[1] \in Nat /\ u[2] \in Nat /\ u[3] \in Nat
         /\ Len(u) = 4 => /\ u = <<u[1], u[2], u[3], u[4]>>
                          /\ u[1] \in Nat /\ u[2] \in Nat /\ u[3] \in Nat /\ u[4] \in Nat
BY SMTT(60)

LEMMA CodePointOf ==
  ASSUME NEW a, NEW b, NEW d, NEW e
  PROVE  /\ CodePoint(<<a>>) = a
         /\ CodePoint(<<a, b>>) = Joined(a % 32, b)
         /\ CodePoint(<<a, b, d>>) = Joined(Joined(a % 16, b), d)
         /\ CodePoint(<<a, b, d, e>>) = Joined(Joined(Joined(a % 8, b), d), e)
BY SMT DEF CodePoint

OneOctet(u) == \E a \in 0 .. 127 : u = <<a>>
TwoOf(u) == \E a \in 194 .. 223, b \in Follows : u = <<a, b>>
ThreeOf(u) ==
  \E a \in 224 .. 239, b \in Follows, d \in Follows :
    u = <<a, b, d>> /\ InForm(Joined(Joined(a % 16, b), d), 3)
FourOf(u) ==
  \E a \in 240 .. 247, b \in Follows, d \in Follows, e \in Follows :
    u = <<a, b, d, e>> /\ InForm(Joined(Joined(Joined(a % 8, b), d), e), 4)

LEMMA WholeIs ==
  ASSUME NEW u \in Seq(Nat)
  PROVE  Whole(u) <=> OneOctet(u) \/ TwoOf(u) \/ ThreeOf(u) \/ FourOf(u)
<1>1. CASE Len(u) = 1
  <2>1. PICK a \in Nat : u = <<a>>
    BY <1>1, Short, SMT
  <2>2. Whole(u) <=> a \in 0 .. 127
    BY <2>1, FormOf, CodePointOf, SMT DEF Whole, InForm
  <2>3. (OneOctet(u) <=> a \in 0 .. 127) /\ ~TwoOf(u) /\ ~ThreeOf(u) /\ ~FourOf(u)
    BY <2>1, SMT DEF OneOctet, TwoOf, ThreeOf, FourOf
  <2> QED BY <2>2, <2>3
<1>2. CASE Len(u) = 2
  <2>1. PICK a \in Nat, b \in Nat : u = <<a, b>>
    BY <1>2, Short, SMT
  <2>2. Whole(u) <=> a \in 192 .. 223 /\ b \in Follows /\ InForm(Joined(a % 32, b), 2)
    <3>1. Len(u) = 2 /\ u[1] = a /\ u[2] = b
      BY <2>1, SMT
    <3>2. CodePoint(u) = Joined(a % 32, b)
      BY ONLY <2>1, <3>1, SMT DEF CodePoint
    <3>3. (\A k \in 2 .. 2 : ~Begins(u[k])) <=> b \in Follows
      <4>1. \A k \in 2 .. 2 : k = 2
        BY SMT
      <4>2. 2 \in 2 .. 2
        BY SMT
      <4> QED BY <2>1, <3>1, <4>1, <4>2, FollowsIs, SMT
    <3>4. Form(a) = 2 <=> a \in 192 .. 223
      BY <2>1, FormTwo
    <3> QED BY ONLY <3>1, <3>2, <3>3, <3>4, SMT DEF Whole
  <2>3. a \in 192 .. 223 /\ b \in Follows => (InForm(Joined(a % 32, b), 2) <=> a \in 194 .. 223)
    <3>1. ASSUME a \in 192 .. 223, b \in Follows
          PROVE  InForm(Joined(a % 32, b), 2) <=> a \in 194 .. 223
      BY ONLY <3>1, SMT DEF Follows, InForm, Within, Joined
    <3> QED BY <3>1
  <2>4. /\ TwoOf(u) <=> a \in 194 .. 223 /\ b \in Follows
        /\ ~OneOctet(u) /\ ~ThreeOf(u) /\ ~FourOf(u)
    BY <2>1, SMT DEF OneOctet, TwoOf, ThreeOf, FourOf
  <2>5. a \in 194 .. 223 => a \in 192 .. 223
    BY SMT
  <2> QED BY <2>2, <2>3, <2>4, <2>5
<1>3. CASE Len(u) = 3
  <2>1. PICK a \in Nat, b \in Nat, d \in Nat : u = <<a, b, d>>
    BY <1>3, Short, SMT
  <2>2. Whole(u) <=> /\ a \in 224 .. 239 /\ b \in Follows /\ d \in Follows
                     /\ InForm(Joined(Joined(a % 16, b), d), 3)
    <3>1. Len(u) = 3 /\ u[1] = a /\ u[2] = b /\ u[3] = d
      BY <2>1, SMT
    <3>2. CodePoint(u) = Joined(Joined(a % 16, b), d)
      BY ONLY <2>1, <3>1, SMT DEF CodePoint
    <3>3. (\A k \in 2 .. 3 : ~Begins(u[k])) <=> b \in Follows /\ d \in Follows
      <4>1. \A k \in 2 .. 3 : k = 2 \/ k = 3
        BY SMT
      <4>2. 2 \in 2 .. 3 /\ 3 \in 2 .. 3
        BY SMT
      <4> QED BY <2>1, <3>1, <4>1, <4>2, FollowsIs, SMT
    <3>4. Form(a) = 3 <=> a \in 224 .. 239
      BY <2>1, FormOf, SMT
    <3> QED BY ONLY <3>1, <3>2, <3>3, <3>4, SMT DEF Whole
  <2>3. /\ ThreeOf(u) <=> /\ a \in 224 .. 239 /\ b \in Follows /\ d \in Follows
                          /\ InForm(Joined(Joined(a % 16, b), d), 3)
        /\ ~OneOctet(u) /\ ~TwoOf(u) /\ ~FourOf(u)
    BY <2>1, SMT DEF OneOctet, TwoOf, ThreeOf, FourOf
  <2> QED BY <2>2, <2>3
<1>4. CASE Len(u) = 4
  <2>1. PICK a \in Nat, b \in Nat, d \in Nat, e \in Nat : u = <<a, b, d, e>>
    BY <1>4, Short, SMT
  <2>2. Whole(u) <=> /\ a \in 240 .. 247 /\ b \in Follows /\ d \in Follows /\ e \in Follows
                     /\ InForm(Joined(Joined(Joined(a % 8, b), d), e), 4)
    <3>1. Len(u) = 4 /\ u[1] = a /\ u[2] = b /\ u[3] = d /\ u[4] = e
      BY <2>1, SMT
    <3>2. CodePoint(u) = Joined(Joined(Joined(a % 8, b), d), e)
      BY ONLY <2>1, <3>1, SMT DEF CodePoint
    <3>3. (\A k \in 2 .. 4 : ~Begins(u[k])) <=> b \in Follows /\ d \in Follows /\ e \in Follows
      <4>1. \A k \in 2 .. 4 : k = 2 \/ k = 3 \/ k = 4
        BY SMT
      <4>2. 2 \in 2 .. 4 /\ 3 \in 2 .. 4 /\ 4 \in 2 .. 4
        BY SMT
      <4> QED BY <2>1, <3>1, <4>1, <4>2, FollowsIs, SMT
    <3>4. Form(a) = 4 <=> a \in 240 .. 247
      BY <2>1, FormOf, SMT
    <3> QED BY ONLY <3>1, <3>2, <3>3, <3>4, SMT DEF Whole
  <2>3. /\ FourOf(u) <=> /\ a \in 240 .. 247 /\ b \in Follows /\ d \in Follows /\ e \in Follows
                         /\ InForm(Joined(Joined(Joined(a % 8, b), d), e), 4)
        /\ ~OneOctet(u) /\ ~TwoOf(u) /\ ~ThreeOf(u)
    BY <2>1, SMT DEF OneOctet, TwoOf, ThreeOf, FourOf
  <2> QED BY <2>2, <2>3
<1>5. CASE Len(u) \notin 1 .. 4
  <2>1. ~OneOctet(u) /\ ~TwoOf(u) /\ ~ThreeOf(u) /\ ~FourOf(u)
    BY <1>5, SMT DEF OneOctet, TwoOf, ThreeOf, FourOf
  <2> QED BY <1>5, <2>1 DEF Whole
<1> QED BY <1>1, <1>2, <1>3, <1>4, <1>5, SMT

\* What is written for a code point can be read, as that code point.
LEMMA Encoded ==
  ASSUME NEW c \in Nat, IsScalar(c)
  PROVE  /\ Utf8(c) \in Seq(Nat) /\ Whole(Utf8(c)) /\ CodePoint(Utf8(c)) = c
         /\ Utf8(c)[1] < 128 => Utf8(c) = <<c>>
<1>1. Utf8(c) \in Seq(Nat)
  BY Utf8Length
<1>2. CASE c < 128
  <2>1. Utf8(c) = <<c>> /\ c \in 0 .. 127
    BY <1>2, SMT DEF Utf8
  <2>2. OneOctet(Utf8(c)) /\ CodePoint(Utf8(c)) = c
    BY ONLY <2>1, SMT DEF OneOctet, CodePoint
  <2> QED BY ONLY <1>1, <2>1, <2>2, WholeIs
<1>3. CASE 128 <= c /\ c <= 2047
  <2> DEFINE a == 192 + (c \div 64)
             b == SixBits(c, 1)
  <2>1. Utf8(c) = <<a, b>>
    BY <1>3, SMT DEF Utf8
  <2>2. a \in 194 .. 223 /\ b \in Follows /\ Joined(a % 32, b) = c
    BY <1>3, TwoOctets, SMT DEF Follows
  <2> HIDE DEF a, b
  <2>3. TwoOf(Utf8(c)) /\ CodePoint(Utf8(c)) = c
    BY ONLY <2>1, <2>2, SMT DEF TwoOf, CodePoint
  <2>4. Utf8(c)[1] = a /\ ~(a < 128)
    BY ONLY <2>1, <2>2, SMT
  <2> QED BY ONLY <1>1, <2>3, <2>4, WholeIs
<1>4. CASE 2048 <= c /\ c <= 65535
  <2> DEFINE a == 224 + (c \div 4096)
             b == SixBits(c, 64)
             d == SixBits(c, 1)
  <2>1. Utf8(c) = <<a, b, d>>
    BY <1>4, SMT DEF Utf8
  <2>2. a \in 224 .. 239 /\ b \in Follows /\ d \in Follows /\ Joined(Joined(a % 16, b), d) = c
    BY <1>4, ThreeOctets, SMT DEF Follows
  <2>3. InForm(c, 3)
    BY <1>4, SMT DEF InForm, Within, IsScalar
  <2> HIDE DEF a, b, d
  <2>4. ThreeOf(Utf8(c)) /\ CodePoint(Utf8(c)) = c
    BY ONLY <2>1, <2>2, <2>3, SMT DEF ThreeOf, CodePoint
  <2>5. Utf8(c)[1] = a /\ ~(a < 128)
    BY ONLY <2>1, <2>2, SMT
  <2> QED BY ONLY <1>1, <2>4, <2>5, WholeIs
<1>5. CASE 65536 <= c /\ c <= 1114111
  <2> DEFINE a == 240 + (c \div 262144)
             b == SixBits(c, 4096)
             d == SixBits(c, 64)
             e == SixBits(c, 1)
  <2>1. Utf8(c) = <<a, b, d, e>>
    BY <1>5, SMT DEF Utf8
  <2>2. /\ a \in 240 .. 244 /\ b \in Follows /\ d \in Follows /\ e \in Follows
        /\ Joined(Joined(Joined(a % 8, b), d), e) = c
    BY <1>5, FourOctets, SMT DEF Follows
  <2>3. InForm(c, 4)
    BY <1>5, SMT DEF InForm, Within
  <2> HIDE DEF a, b, d, e
  <2>4. a \in 240 .. 247
    BY ONLY <2>2, SMT
  <2>5. FourOf(Utf8(c)) /\ CodePoint(Utf8(c)) = c
    BY ONLY <2>1, <2>2, <2>3, <2>4, SMT DEF FourOf, CodePoint
  <2>6. Utf8(c)[1] = a /\ ~(a < 128)
    BY ONLY <2>1, <2>2, SMT
  <2> QED BY ONLY <1>1, <2>5, <2>6, WholeIs
<1>6. c <= 1114111
  BY SMT DEF IsScalar
<1>7. \/ c < 128 \/ (128 <= c /\ c <= 2047) \/ (2048 <= c /\ c <= 65535)
      \/ (65536 <= c /\ c <= 1114111)
  BY <1>6, SMT
<1> QED BY <1>2, <1>3, <1>4, <1>5, <1>7, SMT

\* What is read is written back as it was.
LEMMA Decoded ==
  ASSUME NEW u \in Seq(Nat), Whole(u)
  PROVE  /\ CodePoint(u) \in Nat /\ IsScalar(CodePoint(u))
         /\ Utf8(CodePoint(u)) = u
<1>1. OneOctet(u) \/ TwoOf(u) \/ ThreeOf(u) \/ FourOf(u)
  BY WholeIs
<1>2. InForm(CodePoint(u), Len(u)) /\ Len(u) \in 1 .. 4
  BY DEF Whole
<1>3. CodePoint(u) \in Nat
  BY <1>2, CodePointType
<1>4. PICK c \in Nat : c = CodePoint(u)
  BY <1>3
<1>5. CASE OneOctet(u)
  <2>1. PICK a \in 0 .. 127 : u = <<a>>
    BY <1>5 DEF OneOctet
  <2>2. c = a /\ c < 128
    BY ONLY <1>4, <2>1, SMT DEF CodePoint
  <2>3. IsScalar(c) /\ Utf8(c) = u
    BY ONLY <1>4, <2>1, <2>2, SMT DEF IsScalar, IsSurrogate, Within, Utf8
  <2> QED BY <1>4, <2>3
<1>6. CASE TwoOf(u)
  <2>1. PICK a \in 194 .. 223, b \in Follows : u = <<a, b>>
    BY <1>6, SMT DEF TwoOf
  <2>2. a \in 192 .. 223 /\ b \in 128 .. 191 /\ Len(u) = 2
    BY <2>1, SMT DEF Follows
  <2>3. c = Joined(a % 32, b)
    BY ONLY <1>4, <2>1, SMT DEF CodePoint
  <2>4. 192 + (c \div 64) = a /\ SixBits(c, 1) = b
    BY ONLY <2>2, <2>3, SMT DEF SixBits, Joined
  <2>5. 128 <= c /\ c <= 2047
    BY <1>2, <1>4, <2>2, SMT DEF InForm, Within
  <2>6. Utf8(c) = <<a, b>>
    BY ONLY <2>4, <2>5, c \in Nat, SMT DEF Utf8
  <2>7. IsScalar(c)
    BY ONLY <1>4, <2>5, SMT DEF IsScalar, IsSurrogate, Within
  <2> QED BY <1>4, <2>1, <2>6, <2>7
<1>7. CASE ThreeOf(u)
  <2>1. PICK a \in 224 .. 239, b \in Follows, d \in Follows : u = <<a, b, d>>
    BY <1>7, SMT DEF ThreeOf
  <2>2. b \in 128 .. 191 /\ d \in 128 .. 191 /\ Len(u) = 3
    BY <2>1, SMT DEF Follows
  <2>3. c = Joined(Joined(a % 16, b), d)
    BY ONLY <1>4, <2>1, SMT DEF CodePoint
  <2>4. 224 + (c \div 4096) = a /\ SixBits(c, 64) = b /\ SixBits(c, 1) = d
    <3> DEFINE h == a - 224
               m == b - 128
               l == d - 128
    <3>1. /\ h \in 0 .. 15 /\ m \in 0 .. 63 /\ l \in 0 .. 63
          /\ a = 224 + h /\ b = 128 + m /\ d = 128 + l
      BY ONLY a \in 224 .. 239, <2>2, SMT
    <3> HIDE DEF h, m, l
    <3>2. PICK r : r = Joined(a % 16, b)
      OBVIOUS
    <3>3. Group(r, h, m)
      BY ONLY <3>1, <3>2, SMTT(60) DEF Joined, Group
    <3>4. c = Joined(r, d)
      BY ONLY <2>3, <3>2, SMT
    <3>5. Group(c, r, l)
      BY ONLY <3>1, <3>3, <3>4, SMTT(60) DEF Joined, Group
    <3>6. ThreeGroups(c, h, m, l)
      BY ONLY <3>3, <3>5, ThreePieces, SMT
    <3> QED BY ONLY <3>1, <3>6, SMT DEF ThreeGroups
  <2>5. 2048 <= c /\ c <= 65535 /\ ~IsSurrogate(c)
    BY <1>2, <1>4, <2>2, SMT DEF InForm, Within
  <2>6. Utf8(c) = <<a, b, d>>
    BY ONLY <2>4, <2>5, c \in Nat, SMT DEF Utf8
  <2>7. IsScalar(c)
    BY ONLY <1>4, <2>5, SMT DEF IsScalar
  <2> QED BY <1>4, <2>1, <2>6, <2>7
<1>8. CASE FourOf(u)
  <2>1. PICK a \in 240 .. 247, b \in Follows, d \in Follows, e \in Follows : u = <<a, b, d, e>>
    BY <1>8, SMT DEF FourOf
  <2>2. b \in 128 .. 191 /\ d \in 128 .. 191 /\ e \in 128 .. 191 /\ Len(u) = 4
    BY <2>1, SMT DEF Follows
  <2>3. c = Joined(Joined(Joined(a % 8, b), d), e)
    BY ONLY <1>4, <2>1, SMT DEF CodePoint
  <2>4. /\ 240 + (c \div 262144) = a
        /\ SixBits(c, 4096) = b /\ SixBits(c, 64) = d /\ SixBits(c, 1) = e
    <3> DEFINE h == a - 240
               n == b - 128
               m == d - 128
               l == e - 128
    <3>1. /\ h \in 0 .. 7 /\ n \in 0 .. 63 /\ m \in 0 .. 63 /\ l \in 0 .. 63
          /\ a = 240 + h /\ b = 128 + n /\ d = 128 + m /\ e = 128 + l
      BY ONLY a \in 240 .. 247, <2>2, SMT
    <3> HIDE DEF h, n, m, l
    <3>2. PICK q : q = Joined(a % 8, b)
      OBVIOUS
    <3>3. PICK r : r = Joined(q, d)
      OBVIOUS
    <3>4. Group(q, h, n)
      BY ONLY <3>1, <3>2, SMT DEF Joined, Group
    <3>5. Group(r, q, m)
      BY ONLY <3>1, <3>3, <3>4, SMT DEF Joined, Group
    <3>6. c = Joined(r, e)
      BY ONLY <2>3, <3>2, <3>3, SMT
    <3>7. Group(c, r, l)
      BY ONLY <3>1, <3>5, <3>6, SMTT(60) DEF Joined, Group
    <3>8. FourGroups(c, h, n, m, l)
      BY ONLY <3>4, <3>5, <3>7, FourPieces, SMT
    <3> QED BY ONLY <3>1, <3>8, SMT DEF FourGroups
  <2>5. 65536 <= c /\ c <= 1114111
    BY <1>2, <1>4, <2>2, SMT DEF InForm, Within
  <2>6. Utf8(c) = <<a, b, d, e>>
    <3>1. ~(c < 128) /\ ~(c < 2048) /\ ~(c < 65536)
      BY ONLY <1>4, <2>5, SMT
    <3> QED BY ONLY <2>4, <3>1, SMT DEF Utf8
  <2>7. IsScalar(c)
    BY ONLY <1>4, <2>5, SMT DEF IsScalar, IsSurrogate, Within
  <2> QED BY <1>4, <2>1, <2>6, <2>7
<1> QED BY <1>1, <1>5, <1>6, <1>7, <1>8

InSyntax(u) == \E v \in Syntax : Len(v) = Len(u) /\ \A k \in DOMAIN v : u[k] \in v[k]

\* The ranges of RFC 3629 are what the code's tests of code points amount to.
LEMMA SyntaxIs ==
  ASSUME NEW u \in Seq(Nat)
  PROVE  InSyntax(u) <=> Whole(u)
<1>1. CASE Len(u) = 1
  <2>1. PICK a \in Nat : u = <<a>>
    BY <1>1, Short, SMT
  <2>2. InSyntax(u) <=> a \in 0 .. 127
    BY ONLY <2>1, SMT DEF InSyntax, Syntax
  <2>3. (OneOctet(u) <=> a \in 0 .. 127) /\ ~TwoOf(u) /\ ~ThreeOf(u) /\ ~FourOf(u)
    BY ONLY <2>1, SMT DEF OneOctet, TwoOf, ThreeOf, FourOf
  <2> QED BY <2>2, <2>3, WholeIs
<1>2. CASE Len(u) = 2
  <2>1. PICK a \in Nat, b \in Nat : u = <<a, b>>
    BY <1>2, Short, SMT
  <2>2. InSyntax(u) <=> a \in 194 .. 223 /\ b \in 128 .. 191
    BY ONLY <2>1, SMT DEF InSyntax, Syntax
  <2>3. /\ TwoOf(u) <=> a \in 194 .. 223 /\ b \in 128 .. 191
        /\ ~OneOctet(u) /\ ~ThreeOf(u) /\ ~FourOf(u)
    BY ONLY <2>1, SMT DEF OneOctet, TwoOf, ThreeOf, FourOf, Follows
  <2> QED BY <2>2, <2>3, WholeIs
<1>3. CASE Len(u) = 3
  <2>1. PICK a \in Nat, b \in Nat, d \in Nat : u = <<a, b, d>>
    BY <1>3, Short, SMT
  <2>2. InSyntax(u) <=>
          /\ b \in Follows /\ d \in Follows
          /\ \/ a = 224 /\ b \in 160 .. 191
             \/ a \in 225 .. 236
             \/ a \in 238 .. 239
             \/ a = 237 /\ b \in 128 .. 159
    BY ONLY <2>1, SMT DEF InSyntax, Syntax, Follows
  <2>3. Whole(u) <=> /\ a \in 224 .. 239 /\ b \in Follows /\ d \in Follows
                     /\ InForm(Joined(Joined(a % 16, b), d), 3)
    <3>1. /\ ThreeOf(u) <=> /\ a \in 224 .. 239 /\ b \in Follows /\ d \in Follows
                            /\ InForm(Joined(Joined(a % 16, b), d), 3)
          /\ ~OneOctet(u) /\ ~TwoOf(u) /\ ~FourOf(u)
      BY ONLY <2>1, SMT DEF OneOctet, TwoOf, ThreeOf, FourOf
    <3> QED BY <3>1, WholeIs
  <2>4. ASSUME a \in 224 .. 239, b \in Follows, d \in Follows
        PROVE  InForm(Joined(Joined(a % 16, b), d), 3)
                 <=> \/ a = 224 /\ b \in 160 .. 191
                     \/ a \in 225 .. 236
                     \/ a \in 238 .. 239
                     \/ a = 237 /\ b \in 128 .. 159
    BY ONLY <2>4, SMT DEF Follows, InForm, Within, Joined, IsSurrogate
  <2>5. a = 224 \/ a \in 225 .. 236 \/ a \in 238 .. 239 \/ a = 237 => a \in 224 .. 239
    BY SMT
  <2> QED BY ONLY <2>2, <2>3, <2>4, <2>5, ZenonT(60)
<1>4. CASE Len(u) = 4
  <2>1. PICK a \in Nat, b \in Nat, d \in Nat, e \in Nat : u = <<a, b, d, e>>
    BY <1>4, Short, SMT
  <2>2. InSyntax(u) <=>
          /\ b \in Follows /\ d \in Follows /\ e \in Follows
          /\ \/ a = 240 /\ b \in 144 .. 191
             \/ a \in 241 .. 243
             \/ a = 244 /\ b \in 128 .. 143
    BY ONLY <2>1, SMT DEF InSyntax, Syntax, Follows
  <2>3. Whole(u) <=> /\ a \in 240 .. 247 /\ b \in Follows /\ d \in Follows /\ e \in Follows
                     /\ InForm(Joined(Joined(Joined(a % 8, b), d), e), 4)
    <3>1. /\ FourOf(u) <=> /\ a \in 240 .. 247 /\ b \in Follows /\ d \in Follows /\ e \in Follows
                           /\ InForm(Joined(Joined(Joined(a % 8, b), d), e), 4)
          /\ ~OneOctet(u) /\ ~TwoOf(u) /\ ~ThreeOf(u)
      BY ONLY <2>1, SMT DEF OneOctet, TwoOf, ThreeOf, FourOf
    <3> QED BY <3>1, WholeIs
  <2>4. ASSUME a \in 240 .. 247, b \in Follows, d \in Follows, e \in Follows
        PROVE  InForm(Joined(Joined(Joined(a % 8, b), d), e), 4)
                 <=> \/ a = 240 /\ b \in 144 .. 191
                     \/ a \in 241 .. 243
                     \/ a = 244 /\ b \in 128 .. 143
    BY ONLY <2>4, SMTT(60) DEF Follows, InForm, Within, Joined
  <2>5. a = 240 \/ a \in 241 .. 243 \/ a = 244 => a \in 240 .. 247
    BY SMT
  <2> QED BY ONLY <2>2, <2>3, <2>4, <2>5, ZenonT(60)
<1>5. CASE Len(u) \notin 1 .. 4
  <2>1. ~InSyntax(u)
    BY <1>5, SMT DEF InSyntax, Syntax
  <2> QED BY <1>5, <2>1 DEF Whole
<1> QED BY <1>1, <1>2, <1>3, <1>4, <1>5, SMT

-----------------------------------------------------------------------------
(* Octets and the code points they spell.                                  *)

\* What holds of 0 and, with each number below n, of the next one, holds up to n.
LEMMA Upwards ==
  ASSUME NEW n \in Nat, NEW S, 0 \in S, \A j \in 0 .. n - 1 : j \in S => j + 1 \in S
  PROVE  \A j \in 0 .. n : j \in S
<1> DEFINE Bad == {j \in 0 .. n : j \notin S}
<1>1. Bad \in SUBSET Nat
  BY SMT
<1>2. ASSUME Bad # {}
      PROVE  FALSE
  <2>1. PICK m \in Bad : \A c \in Bad : m <= c
    <3> HIDE DEF Bad
    <3> QED BY <1>1, <1>2, LeastNatural
  <2>2. m \in 0 .. n /\ m \notin S
    BY SMT
  <2>3. m - 1 \in 0 .. n - 1 /\ m - 1 \in 0 .. n /\ (m - 1) + 1 = m /\ ~(m <= m - 1)
    BY <2>2, SMT
  <2>4. m - 1 \in S
    BY <2>1, <2>3
  <2> QED BY <2>2, <2>3, <2>4
<1> QED BY <1>2

\* From place p on there are the octets of c.
Spelled(o, p, c) ==
  /\ p + Len(Utf8(c)) <= Len(o)
  /\ \A k \in 1 .. Len(Utf8(c)) : o[p + k] = Utf8(c)[k]

\* The first n of the code points q end at these places of the octets o.
Spelling(o, q, n, g) ==
  /\ g \in [0 .. n -> Nat] /\ g[0] = 0
  /\ \A b \in 1 .. n :
       /\ IsScalar(q[b]) /\ Spelled(o, g[b - 1], q[b])
       /\ g[b] = g[b - 1] + Len(Utf8(q[b]))

Prefix(s, t) == Len(s) <= Len(t) /\ \A k \in 1 .. Len(s) : s[k] = t[k]

LEMMA Utf8Is ==
  ASSUME NEW c \in Nat, IsScalar(c)
  PROVE  /\ Utf8(c) \in Seq(Nat) /\ Len(Utf8(c)) \in 1 .. 4
         /\ Begins(Utf8(c)[1]) /\ Form(Utf8(c)[1]) = Len(Utf8(c))
         /\ Utf8(c)[1] < 128 => Len(Utf8(c)) = 1 /\ Utf8(c)[1] = c
         /\ c < 128 => Len(Utf8(c)) = 1 /\ Utf8(c)[1] = c
<1>1. Utf8(c) \in Seq(Nat) /\ Whole(Utf8(c)) /\ (Utf8(c)[1] < 128 => Utf8(c) = <<c>>)
  BY Encoded
<1>2. Len(Utf8(c)) \in 1 .. 4 /\ Form(Utf8(c)[1]) = Len(Utf8(c))
  BY <1>1 DEF Whole
<1>3. Utf8(c)[1] \in Nat
  BY <1>1, <1>2, Short, SMT
<1>4. Form(Utf8(c)[1]) > 0
  BY ONLY <1>2, SMT
<1>5. Begins(Utf8(c)[1])
  BY ONLY <1>3, <1>4, FormIs, SMT
<1>6. c < 128 => Utf8(c) = <<c>>
  BY SMT DEF Utf8
<1>7. Len(<<c>>) = 1 /\ <<c>>[1] = c
  BY SMT
<1> QED BY ONLY <1>1, <1>2, <1>5, <1>6, <1>7, SMT

\* Nothing of it changes when octets are added behind.
LEMMA SpellingKept ==
  ASSUME NEW o \in Seq(Nat), NEW oo \in Seq(Nat), NEW q, NEW qq, NEW n \in Nat, NEW g,
         Spelling(o, q, n, g), Prefix(o, oo), \A b \in 1 .. n : qq[b] = q[b] /\ q[b] \in Nat
  PROVE  Spelling(oo, qq, n, g)
<1> SUFFICES ASSUME NEW b \in 1 .. n
             PROVE  Spelled(oo, g[b - 1], q[b])
  BY DEF Spelling
<1>1. Spelled(o, g[b - 1], q[b]) /\ IsScalar(q[b]) /\ q[b] \in Nat
  BY DEF Spelling
<1>2. b - 1 \in 0 .. n
  BY SMT
<1>3. g[b - 1] \in Nat
  BY <1>2 DEF Spelling
<1>4. PICK p \in Nat : p = g[b - 1]
  BY <1>3
<1>5. PICK w \in Nat : w = Len(Utf8(q[b]))
  <2>1. Len(Utf8(q[b])) \in 1 .. 4
    BY <1>1, Utf8Is
  <2>2. Len(Utf8(q[b])) \in Nat
    BY ONLY <2>1, SMT
  <2> QED BY <2>2
<1>6. p + w <= Len(o) /\ \A k \in 1 .. w : o[p + k] = Utf8(q[b])[k]
  BY <1>1, <1>4, <1>5 DEF Spelled
<1>7. Len(o) <= Len(oo) /\ Len(o) \in Nat /\ Len(oo) \in Nat
  BY SMT DEF Prefix
<1>8. ASSUME NEW k \in 1 .. w
      PROVE  oo[p + k] = Utf8(q[b])[k]
  <2>1. p + k \in 1 .. Len(o)
    <3>1. p + w <= Len(o) /\ Len(o) \in Nat
      BY <1>6, <1>7
    <3> QED BY ONLY p \in Nat, w \in Nat, k \in 1 .. w, <3>1, SMT
  <2>2. o[p + k] = oo[p + k]
    BY <2>1 DEF Prefix
  <2> QED BY <2>2, <1>6
<1>9. p + w <= Len(oo)
  BY ONLY <1>4, <1>5, <1>6, <1>7, SMT
<1> QED BY ONLY <1>4, <1>5, <1>8, <1>9 DEF Spelled

\* One code point more.
Longer(o, q, n, g, c) == \E h : Spelling(o, q, n + 1, h) /\ h[n + 1] = g[n] + Len(Utf8(c))

LEMMA SpellingOne ==
  ASSUME NEW o \in Seq(Nat), NEW q \in Seq(Nat), NEW n \in Nat, NEW g, Spelling(o, q, n, g),
         NEW c \in Nat, c = q[n + 1], IsScalar(c), Spelled(o, g[n], c)
  PROVE  Longer(o, q, n, g, c)
<1>1. PICK w \in Nat : w = Len(Utf8(c))
  <2>1. Len(Utf8(c)) \in 1 .. 4
    BY Utf8Is
  <2>2. Len(Utf8(c)) \in Nat
    BY ONLY <2>1, SMT
  <2> QED BY <2>2
<1>2. n \in 0 .. n /\ g \in [0 .. n -> Nat]
  BY SMT DEF Spelling
<1>3. PICK p \in Nat : p = g[n]
  BY <1>2
<1> DEFINE h == [j \in 0 .. n + 1 |-> IF j = n + 1 THEN p + w ELSE g[j]]
<1>4. /\ h \in [0 .. n + 1 -> Nat] /\ h[n + 1] = p + w
      /\ \A j \in 0 .. n : h[j] = g[j]
  <2>1. \A j \in 0 .. n : j \in 0 .. n + 1 /\ j # n + 1
    BY SMT
  <2>2. \A j \in 0 .. n + 1 : j = n + 1 \/ j \in 0 .. n
    BY SMT
  <2>3. p + w \in Nat /\ n + 1 \in 0 .. n + 1
    BY SMT
  <2> QED BY <1>2, <2>1, <2>2, <2>3
<1> HIDE DEF h
<1>5. h[0] = 0
  <2>1. 0 \in 0 .. n
    BY SMT
  <2> QED BY <1>4, <2>1 DEF Spelling
<1>6. ASSUME NEW b \in 1 .. n + 1
      PROVE  /\ IsScalar(q[b]) /\ Spelled(o, h[b - 1], q[b])
             /\ h[b] = h[b - 1] + Len(Utf8(q[b]))
  <2>1. CASE b = n + 1
    <3>1. b - 1 = n
      BY <2>1, SMT
    <3>2. h[b - 1] = g[n] /\ h[b] = p + w /\ q[b] = c
      BY <1>2, <1>4, <2>1, <3>1
    <3> QED BY ONLY <1>1, <1>3, <3>2, IsScalar(c), Spelled(o, g[n], c)
  <2>2. CASE b # n + 1
    <3>1. b \in 1 .. n /\ b \in 0 .. n /\ b - 1 \in 0 .. n
      BY <2>2, SMT
    <3>2. h[b] = g[b] /\ h[b - 1] = g[b - 1]
      BY <1>4, <3>1
    <3> QED BY <3>1, <3>2 DEF Spelling
  <2> QED BY <2>1, <2>2
<1>7. Spelling(o, q, n + 1, h)
  BY ONLY <1>4, <1>5, <1>6 DEF Spelling
<1> QED BY ONLY <1>1, <1>3, <1>4, <1>7 DEF Longer

\* Places where ASCII is spelled.
LEMMA SpelledAscii ==
  ASSUME NEW o \in Seq(Nat), NEW p \in Nat, NEW c \in Nat, c < 128
  PROVE  /\ IsScalar(c) /\ Len(Utf8(c)) = 1
         /\ p + 1 <= Len(o) /\ o[p + 1] = c => Spelled(o, p, c)
<1>1. IsScalar(c)
  BY SMT DEF IsScalar, IsSurrogate, Within
<1>2. Len(Utf8(c)) = 1 /\ Utf8(c)[1] = c
  BY <1>1, Utf8Is
<1>3. \A k \in 1 .. 1 : k = 1
  BY SMT
<1> QED BY <1>1, <1>2, <1>3 DEF Spelled

\* As many code points more as octets.
LongerBy(o, q, n, p, m) == \E h : Spelling(o, q, n + m, h) /\ h[n + m] = p + m

LEMMA SpellingAscii ==
  ASSUME NEW o \in Seq(Nat), NEW q \in Seq(Nat), NEW n \in Nat, NEW g, Spelling(o, q, n, g),
         NEW m \in Nat, n + m <= Len(q), NEW p \in Nat, p = g[n], p + m <= Len(o),
         \A j \in 1 .. m : q[n + j] < 128 /\ o[p + j] = q[n + j]
  PROVE  LongerBy(o, q, n, p, m)
<1> DEFINE S == {j \in 0 .. m : \E h : Spelling(o, q, n + j, h) /\ h[n + j] = p + j}
<1>1. 0 \in S
  <2>1. n + 0 = n /\ p + 0 = p /\ 0 \in 0 .. m
    BY SMT
  <2> QED BY <2>1
<1>2. ASSUME NEW j \in 0 .. m - 1, j \in S
      PROVE  j + 1 \in S
  <2>1. PICK h : Spelling(o, q, n + j, h) /\ h[n + j] = p + j
    BY <1>2
  <2>2. /\ j + 1 \in 1 .. m /\ j + 1 \in 0 .. m /\ n + j \in Nat /\ p + j \in Nat
        /\ (n + j) + 1 = n + (j + 1) /\ (p + j) + 1 = p + (j + 1)
        /\ n + (j + 1) \in 1 .. Len(q) /\ p + (j + 1) <= Len(o)
    <3>1. Len(q) \in Nat /\ Len(o) \in Nat
      BY SMTT(60)
    <3> QED BY ONLY <3>1, n \in Nat, m \in Nat, p \in Nat, n + m <= Len(q), p + m <= Len(o),
               j \in 0 .. m - 1, SMT
  <2>3. PICK c \in Nat : c = q[n + (j + 1)]
    BY <2>2
  <2>4. c < 128 /\ o[p + (j + 1)] = c
    BY <2>2, <2>3
  <2>5. IsScalar(c) /\ Len(Utf8(c)) = 1 /\ Spelled(o, p + j, c)
    BY <2>2, <2>4, SpelledAscii, ZenonT(60)
  <2>6. \E f : Spelling(o, q, (n + j) + 1, f) /\ f[(n + j) + 1] = (p + j) + 1
    <3>1. PICK k \in Nat : k = n + j
      BY <2>2
    <3>2. Spelling(o, q, k, h) /\ c = q[k + 1] /\ Spelled(o, h[k], c)
      BY <2>1, <2>2, <2>3, <2>5, <3>1
    <3>3. Longer(o, q, k, h, c)
      BY <2>5, <3>2, SpellingOne
    <3>4. h[k] + Len(Utf8(c)) = (p + j) + 1
      BY <2>1, <2>5, <3>1
    <3> QED BY ONLY <3>1, <3>3, <3>4 DEF Longer
  <2> QED BY <2>2, <2>6
<1>3. m \in 0 .. m
  BY SMT
<1>4. m \in S
  <2> HIDE DEF S
  <2> QED BY <1>1, <1>2, <1>3, Upwards
<1> QED BY <1>4 DEF LongerBy

LEMMA SpellingNone ==
  ASSUME NEW o, NEW q
  PROVE  \E g : Spelling(o, q, 0, g) /\ g[0] = 0
<1> DEFINE g == [j \in 0 .. 0 |-> 0]
<1>1. g \in [0 .. 0 -> Nat] /\ g[0] = 0 /\ ~\E b : b \in 1 .. 0
  BY SMT
<1> HIDE DEF g
<1> QED BY <1>1 DEF Spelling

-----------------------------------------------------------------------------
\* A part of a text.
LEMMA PartIs ==
  ASSUME NEW s \in Seq(Nat), NEW p \in Nat, NEW n \in Nat, p + n <= Len(s)
  PROVE  /\ SubSeq(s, p + 1, p + n) \in Seq(Nat) /\ Len(SubSeq(s, p + 1, p + n)) = n
         /\ \A k \in 1 .. n : SubSeq(s, p + 1, p + n)[k] = s[p + k]
BY SMT

LEMMA SameSeq ==
  ASSUME NEW s \in Seq(Nat), NEW t \in Seq(Nat), Len(s) = Len(t), \A k \in 1 .. Len(s) : s[k] = t[k]
  PROVE  s = t
BY SMTT(60)

LEMMA PartSpelled ==
  ASSUME NEW s \in Seq(Nat), NEW p \in Nat, NEW c \in Nat, IsScalar(c), Spelled(s, p, c),
         NEW w, w = Len(Utf8(c))
  PROVE  /\ w \in 1 .. 4 /\ p + w <= Len(s) /\ Form(s[p + 1]) = w /\ s[p + 1] = Utf8(c)[1]
         /\ Begins(s[p + 1])
         /\ SubSeq(s, p + 1, p + w) = Utf8(c)
<1>1. w \in 1 .. 4 /\ Utf8(c) \in Seq(Nat) /\ Form(Utf8(c)[1]) = w /\ Begins(Utf8(c)[1])
  BY Utf8Is
<1>2. p + w <= Len(s) /\ \A k \in 1 .. w : s[p + k] = Utf8(c)[k]
  BY DEF Spelled
<1>3. w \in Nat /\ 1 \in 1 .. w
  BY ONLY <1>1, SMT
<1>4. s[p + 1] = Utf8(c)[1]
  BY <1>2, <1>3
<1>5. /\ SubSeq(s, p + 1, p + w) \in Seq(Nat) /\ Len(SubSeq(s, p + 1, p + w)) = w
      /\ \A k \in 1 .. w : SubSeq(s, p + 1, p + w)[k] = s[p + k]
  BY <1>2, <1>3, PartIs
<1>6. PICK u \in Seq(Nat) : u = SubSeq(s, p + 1, p + w)
  BY <1>5
<1>7. Len(u) = Len(Utf8(c)) /\ \A k \in 1 .. Len(u) : u[k] = Utf8(c)[k]
  BY ONLY <1>2, <1>5, <1>6, w = Len(Utf8(c))
<1>8. u = Utf8(c)
  BY ONLY <1>1, <1>7, u \in Seq(Nat), SameSeq
<1> QED BY <1>1, <1>2, <1>4, <1>6, <1>8

\* The w octets from place p on are those of c.
Stands(s, p, w, c) == c \in Nat /\ IsScalar(c) /\ Len(Utf8(c)) = w /\ Spelled(s, p, c)

Part(s, p, w, u) ==
  /\ s \in Seq(Nat) /\ p \in Nat /\ w \in 1 .. 4 /\ p + w <= Len(s)
  /\ u = SubSeq(s, p + 1, p + w)

LEMMA PartWhole ==
  ASSUME NEW s, NEW p, NEW w, NEW u, Part(s, p, w, u), Whole(u)
  PROVE  Stands(s, p, w, CodePoint(u))
<1>1. /\ s \in Seq(Nat) /\ p \in Nat /\ w \in Nat /\ p + w <= Len(s)
      /\ u = SubSeq(s, p + 1, p + w)
  BY SMT DEF Part
<1>2. u \in Seq(Nat) /\ Len(u) = w /\ \A k \in 1 .. w : u[k] = s[p + k]
  BY <1>1, PartIs
<1>3. CodePoint(u) \in Nat /\ IsScalar(CodePoint(u)) /\ Utf8(CodePoint(u)) = u
  BY <1>2, Decoded
<1> QED BY ONLY <1>1, <1>2, <1>3 DEF Spelled, Stands

LEMMA WholeAheadIs ==
  ASSUME Types, pos < Len(input), NEW w, w = Form(input[pos + 1])
  PROVE  WholeAhead(w) <=> w \in 1 .. 4 /\ pos + w <= Len(input) /\ Whole(Ahead(w))
<1>1. input \in Seq(Nat) /\ pos \in Nat /\ Len(input) \in Nat
  BY DEF Types
<1>2. input[pos + 1] \in Nat
  BY <1>1
<1>3. w \in 0 .. 4
  BY <1>2, SMT DEF Form
<1>4. CASE ~(w > 0 /\ pos + w <= Len(input))
  BY <1>3, <1>4 DEF WholeAhead
<1>5. CASE w > 0 /\ pos + w <= Len(input)
  <2>1. w \in 1 .. 4 /\ w \in Nat
    BY ONLY <1>3, <1>5, SMT
  <2>2. /\ Ahead(w) \in Seq(Nat) /\ Len(Ahead(w)) = w
        /\ \A k \in 1 .. w : Ahead(w)[k] = input[pos + k]
    BY <1>5, <2>1, AheadIs
  <2>3. 1 \in 1 .. w /\ \A k \in 2 .. w : k \in 1 .. w
    BY ONLY <2>1, SMT
  <2>4. Form(Ahead(w)[1]) = w
    BY <2>2, <2>3
  <2>5. (\A k \in 2 .. w : ~Begins(Ahead(w)[k])) <=> (\A k \in 2 .. w : ~Begins(input[pos + k]))
    BY <2>2, <2>3
  <2> QED BY ONLY <1>5, <2>1, <2>2, <2>4, <2>5 DEF Whole, WholeAhead
<1> QED BY <1>4, <1>5

\* Where a text can be cut, the next cut is as far as the first octet says.
LEMMA CutNext ==
  ASSUME NEW s \in Seq(Nat), NEW C \in SUBSET (0 .. Len(s)), Cuts(s, C),
         NEW p \in C, p # Len(s), NEW w, w = Form(s[p + 1])
  PROVE  /\ w \in 1 .. 4 /\ p \in Nat /\ p + w \in C /\ p + w <= Len(s) /\ p < Len(s)
         /\ s[p + 1] \in Nat /\ Whole(SubSeq(s, p + 1, p + w))
<1>1. PICK v \in Syntax : p + Len(v) \in C /\ \A k \in DOMAIN v : s[p + k] \in v[k]
  BY DEF Cuts
<1>2. p \in Nat /\ p < Len(s) /\ Len(s) \in Nat /\ p + 1 \in 1 .. Len(s)
  BY SMT
<1>3. Len(v) \in 1 .. 4 /\ DOMAIN v = 1 .. Len(v)
  BY ONLY <1>1, SMT DEF Syntax
<1>4. PICK n \in Nat : n = Len(v)
  <2>1. Len(v) \in Nat
    BY ONLY <1>3, SMT
  <2> QED BY <2>1
<1>5. n \in 1 .. 4 /\ p + n \in C /\ p + n <= Len(s) /\ \A k \in 1 .. n : s[p + k] \in v[k]
  <2>1. p + n \in 0 .. Len(s)
    BY <1>1, <1>4
  <2>2. p + n <= Len(s)
    BY ONLY <1>2, <2>1, SMT
  <2>3. n \in 1 .. 4 /\ DOMAIN v = 1 .. n /\ p + n \in C
    BY <1>1, <1>3, <1>4
  <2> QED BY ONLY <1>1, <2>2, <2>3
<1>6. PICK u : u = SubSeq(s, p + 1, p + n)
  OBVIOUS
<1>7. u \in Seq(Nat) /\ Len(u) = n /\ \A k \in 1 .. n : u[k] = s[p + k]
  BY <1>2, <1>5, <1>6, PartIs, SMTT(60)
<1>8. InSyntax(u)
  BY <1>3, <1>4, <1>5, <1>7 DEF InSyntax
<1>9. Whole(u)
  BY <1>7, <1>8, SyntaxIs
<1>10. 1 \in 1 .. n
  BY ONLY <1>5, SMT
<1>11. w = n
  BY <1>7, <1>9, <1>10 DEF Whole
<1> QED BY <1>2, <1>5, <1>6, <1>9, <1>11

LEMMA SomethingBegins ==
  ASSUME NEW s \in Seq(Nat), s # <<>>, Begins(s[1])
  PROVE  utf32_length_from_utf8(s) # 0
<1>1. Places(Beginnings(s))
  BY BeginningsAre
<1>2. 1 \in Beginnings(s)
  BY SMT DEF Beginnings
<1>3. Cardinality(Beginnings(s)) # 0
  BY <1>1, <1>2, FS_EmptySet DEF Places
<1> QED BY <1>3 DEF utf32_length_from_utf8, Beginnings

\* A text that is cut begins with an octet that is counted.
LEMMA WellFormedBegins ==
  ASSUME NEW s \in Seq(Nat), s # <<>>, WellFormed(s)
  PROVE  Begins(s[1])
<1>1. PICK C \in SUBSET (0 .. Len(s)) : Cuts(s, C)
  BY DEF WellFormed
<1>2. 0 \in C /\ 0 # Len(s) /\ 0 + 1 = 1
  BY <1>1, SMT DEF Cuts
<1>3. Form(s[1]) \in 1 .. 4 /\ s[1] \in Nat
  BY <1>1, <1>2, CutNext
<1>4. Form(s[1]) > 0
  BY ONLY <1>3, SMT
<1> QED BY <1>3, <1>4, FormIs

\* Octets that spell code points up to their end are well-formed.
LEMMA SpelledWell ==
  ASSUME NEW o \in Seq(Nat), NEW q \in Seq(Nat), NEW g,
         Spelling(o, q, Len(q), g), g[Len(q)] = Len(o)
  PROVE  WellFormed(o)
<1>1. Len(q) \in Nat /\ Len(o) \in Nat /\ g \in [0 .. Len(q) -> Nat] /\ g[0] = 0
  BY DEF Spelling
<1>2. PICK n \in Nat : n = Len(q)
  BY <1>1
<1> DEFINE C == {g[b] : b \in 0 .. n}
<1>3. ASSUME NEW b \in 1 .. n
      PROVE  /\ q[b] \in Nat /\ IsScalar(q[b]) /\ g[b - 1] \in Nat /\ Spelled(o, g[b - 1], q[b])
             /\ g[b] = g[b - 1] + Len(Utf8(q[b])) /\ g[b] \in 0 .. Len(o)
  <2>1. q[b] \in Nat /\ b - 1 \in 0 .. n /\ b \in 0 .. n
    BY <1>2, SMT
  <2>2. /\ IsScalar(q[b]) /\ Spelled(o, g[b - 1], q[b])
        /\ g[b] = g[b - 1] + Len(Utf8(q[b]))
    BY <1>2 DEF Spelling
  <2>3. g[b] \in Nat /\ g[b - 1] \in Nat
    BY <1>1, <1>2, <2>1
  <2>4. g[b] <= Len(o)
    BY <2>2 DEF Spelled
  <2> QED BY <1>1, <2>1, <2>2, <2>3, <2>4
<1>4. C \in SUBSET (0 .. Len(o))
  <2>1. \A b \in 0 .. n : b = 0 \/ b \in 1 .. n
    BY SMT
  <2>2. 0 \in 0 .. Len(o)
    BY <1>1
  <2> QED BY <1>1, <1>3, <2>1, <2>2
<1>5. 0 \in C
  <2>1. 0 \in 0 .. n
    BY SMT
  <2> QED BY <1>1, <2>1
<1>6. ASSUME NEW p \in C, p # Len(o)
      PROVE  \E v \in Syntax : p + Len(v) \in C /\ \A k \in DOMAIN v : o[p + k] \in v[k]
  <2>1. PICK a \in 0 .. n : p = g[a]
    OBVIOUS
  <2>2. a # n
    BY <1>2, <1>6, <2>1
  <2>3. PICK b \in 1 .. n : b - 1 = a /\ b \in 0 .. n
    <3>1. a + 1 \in 1 .. n /\ (a + 1) - 1 = a /\ a + 1 \in 0 .. n
      BY ONLY n \in Nat, a \in 0 .. n, <2>2, SMT
    <3> QED BY <3>1
  <2>4. /\ q[b] \in Nat /\ IsScalar(q[b]) /\ Spelled(o, p, q[b])
        /\ g[b] = p + Len(Utf8(q[b])) /\ g[b] \in C
    BY <1>3, <2>1, <2>3
  <2>5. Utf8(q[b]) \in Seq(Nat) /\ Whole(Utf8(q[b]))
    BY <2>4, Encoded
  <2>6. PICK v \in Syntax : /\ Len(v) = Len(Utf8(q[b]))
                            /\ \A k \in DOMAIN v : Utf8(q[b])[k] \in v[k]
    BY <2>5, SyntaxIs DEF InSyntax
  <2>7. DOMAIN v = 1 .. Len(v)
    BY ONLY <2>6, SMT DEF Syntax
  <2>8. \A k \in DOMAIN v : o[p + k] \in v[k]
    BY <2>4, <2>6, <2>7 DEF Spelled
  <2> QED BY <2>4, <2>6, <2>8
<1> QED BY <1>4, <1>5, <1>6 DEF WellFormed, Cuts

LEMMA CutsAscii ==
  ASSUME NEW s \in Seq(Nat), NEW C \in SUBSET (0 .. Len(s)), Cuts(s, C), NEW p \in C,
         NEW m \in Nat, p + m <= Len(s), \A k \in 1 .. m : s[p + k] < 128
  PROVE  p + m \in C
<1> DEFINE S == {j \in 0 .. m : p + j \in C}
<1>1. p \in Nat /\ Len(s) \in Nat
  BY SMT
<1>2. 0 \in S
  <2>1. p + 0 = p /\ 0 \in 0 .. m
    BY <1>1, SMT
  <2> QED BY <2>1
<1>3. ASSUME NEW j \in 0 .. m - 1, j \in S
      PROVE  j + 1 \in S
  <2>1. /\ j + 1 \in 1 .. m /\ j + 1 \in 0 .. m /\ p + j # Len(s) /\ (p + j) + 1 = p + (j + 1)
        /\ p + (j + 1) \in 1 .. Len(s)
    BY ONLY <1>1, m \in Nat, p + m <= Len(s), j \in 0 .. m - 1, SMT
  <2>2. p + j \in C
    BY <1>3
  <2>3. s[(p + j) + 1] < 128 /\ s[(p + j) + 1] \in Nat
    <3>1. s[p + (j + 1)] < 128
      BY <2>1
    <3>2. s[p + (j + 1)] \in Nat
      BY <2>1
    <3> QED BY ONLY <2>1, <3>1, <3>2
  <2>4. Form(s[(p + j) + 1]) = 1
    BY <2>3, FormOf, SMTT(60)
  <2>5. (p + j) + 1 \in C
    BY <2>1, <2>2, <2>4, CutNext
  <2> QED BY <2>1, <2>5
<1>4. m \in 0 .. m
  BY SMT
<1>5. m \in S
  <2> HIDE DEF S
  <2> QED BY <1>2, <1>3, <1>4, Upwards
<1> QED BY <1>5

\* c comes after the first n code points.
Comes(o, q, g, n, c) ==
  /\ c = q[n + 1] /\ c \in Nat /\ IsScalar(c) /\ g[n] \in Nat /\ Spelled(o, g[n], c)
  /\ g[n + 1] = g[n] + Len(Utf8(c)) /\ Len(Utf8(c)) \in 1 .. 4
  /\ g[n] + Len(Utf8(c)) <= Len(o)

LEMMA SpellingNext ==
  ASSUME NEW o \in Seq(Nat), NEW q \in Seq(Nat), NEW e \in Nat, e <= Len(q), NEW g,
         Spelling(o, q, e, g), NEW n \in Nat, n < e
  PROVE  Comes(o, q, g, n, q[n + 1])
<1>0. PICK c : c = q[n + 1]
  OBVIOUS
<1>1. n + 1 \in 1 .. e /\ n + 1 \in 1 .. Len(q) /\ n \in 0 .. e /\ (n + 1) - 1 = n
  BY SMT
<1>2. c \in Nat
  BY <1>0, <1>1
<1>3. /\ IsScalar(c) /\ Spelled(o, g[n], c) /\ g[n + 1] = g[n] + Len(Utf8(c))
      /\ g[n] \in Nat
  BY <1>0, <1>1 DEF Spelling
<1>4. Len(Utf8(c)) \in 1 .. 4 /\ g[n] + Len(Utf8(c)) <= Len(o)
  BY <1>2, <1>3, Utf8Is DEF Spelled
<1> QED BY ONLY <1>0, <1>2, <1>3, <1>4 DEF Comes

\* Between a place in the octets and the place in the code points that it spells, m
\* of each are the same.
Alike(o, q, g, n, p, m) ==
  /\ n + m <= Len(q) /\ p + m <= Len(o) /\ g[n + m] = p + m
  /\ \A k \in 1 .. m : q[n + k] = o[p + k]

LEMMA AlikeOne ==
  ASSUME NEW o \in Seq(Nat), NEW q \in Seq(Nat), NEW g, Spelling(o, q, Len(q), g),
         NEW n \in Nat, NEW p \in Nat, NEW j \in Nat, Alike(o, q, g, n, p, j), n + j < Len(q),
         q[n + (j + 1)] < 128 \/ o[p + (j + 1)] < 128
  PROVE  Alike(o, q, g, n, p, j + 1)
<1>1. /\ n + j <= Len(q) /\ p + j <= Len(o) /\ g[n + j] = p + j
      /\ \A k \in 1 .. j : q[n + k] = o[p + k]
  BY DEF Alike
<1>2. /\ n + j \in Nat /\ Len(q) \in Nat /\ Len(o) \in Nat /\ p + j \in Nat
      /\ (n + j) + 1 = n + (j + 1) /\ (p + j) + 1 = p + (j + 1)
  BY SMT
<1>3. PICK c : c = q[(n + j) + 1]
  OBVIOUS
<1>4. /\ c \in Nat /\ IsScalar(c) /\ Spelled(o, p + j, c)
      /\ g[(n + j) + 1] = (p + j) + Len(Utf8(c)) /\ (p + j) + Len(Utf8(c)) <= Len(o)
  <2>1. PICK i \in Nat : i = n + j
    BY <1>2
  <2>2. Len(q) \in Nat /\ Len(q) <= Len(q) /\ i < Len(q)
    BY ONLY <1>2, <2>1, n + j < Len(q), SMT
  <2>3. Comes(o, q, g, i, q[i + 1])
    BY <2>2, SpellingNext
  <2> QED BY ONLY <1>1, <1>3, <2>1, <2>3 DEF Comes
<1>5. o[(p + j) + 1] = Utf8(c)[1]
  BY <1>2, <1>4, PartSpelled, ZenonT(60)
<1>6. Len(Utf8(c)) = 1 /\ Utf8(c)[1] = c
  BY <1>2, <1>3, <1>4, <1>5, Utf8Is, ZenonT(60)
<1>7. g[n + (j + 1)] = p + (j + 1) /\ p + (j + 1) <= Len(o) /\ q[n + (j + 1)] = o[p + (j + 1)]
  BY <1>2, <1>3, <1>4, <1>5, <1>6
<1>8. n + (j + 1) <= Len(q)
  BY ONLY <1>2, n \in Nat, j \in Nat, n + j < Len(q), SMT
<1>9. \A k \in 1 .. j + 1 : k = j + 1 \/ k \in 1 .. j
  BY SMT
<1> QED BY <1>1, <1>7, <1>8, <1>9 DEF Alike

\* ASCII octets are read as what they spell, and ASCII code points written so.
LEMMA AlikeAscii ==
  ASSUME NEW o \in Seq(Nat), NEW q \in Seq(Nat), NEW g,
         Spelling(o, q, Len(q), g), g[Len(q)] = Len(o),
         NEW n \in Nat, n <= Len(q), NEW p \in Nat, p = g[n], NEW m \in Nat,
         \/ p + m <= Len(o) /\ \A k \in 1 .. m : o[p + k] < 128
         \/ n + m <= Len(q) /\ \A k \in 1 .. m : q[n + k] < 128
  PROVE  Alike(o, q, g, n, p, m)
<1> DEFINE S == {j \in 0 .. m : Alike(o, q, g, n, p, j)}
<1>1. Len(q) \in Nat /\ Len(o) \in Nat
  BY SMT
<1>2. 0 \in S
  <2>1. n + 0 = n /\ p + 0 = p /\ 0 \in 0 .. m /\ ~\E k : k \in 1 .. 0
    BY SMT
  <2>2. p <= Len(o)
    <3>1. CASE n = 0
      BY <1>1, <3>1 DEF Spelling
    <3>2. CASE n # 0
      <4>1. PICK b \in Nat : n = b + 1
        <5>1. n - 1 \in Nat /\ n = (n - 1) + 1
          BY ONLY n \in Nat, <3>2, SMT
        <5> QED BY <5>1
      <4>2. b < Len(q)
        BY ONLY <1>1, n <= Len(q), n = b + 1, b \in Nat, SMT
      <4>3. g[b + 1] = g[b] + Len(Utf8(q[b + 1])) /\ g[b] + Len(Utf8(q[b + 1])) <= Len(o)
        <5>1. Len(q) <= Len(q)
          BY <1>1
        <5>2. Comes(o, q, g, b, q[b + 1])
          BY <1>1, <4>2, <5>1, SpellingNext
        <5> QED BY ONLY <5>2 DEF Comes
      <4> QED BY <4>1, <4>3
    <3> QED BY <3>1, <3>2
  <2> QED BY <2>1, <2>2 DEF Alike
<1>3. ASSUME NEW j \in 0 .. m - 1, j \in S
      PROVE  j + 1 \in S
  <2>1. Alike(o, q, g, n, p, j)
    BY <1>3
  <2>2. j \in Nat /\ j + 1 \in 1 .. m /\ j + 1 \in 0 .. m
    BY SMT
  <2>3. n + j <= Len(q) /\ g[n + j] = p + j
    BY <2>1 DEF Alike
  <2>4. n + j < Len(q)
    <3>1. CASE p + m <= Len(o)
      <4>1. p + j # Len(o)
        BY ONLY <1>1, <3>1, p \in Nat, m \in Nat, j \in 0 .. m - 1, SMT
      <4>2. n + j # Len(q)
        BY <2>3, <4>1
      <4> QED BY ONLY <1>1, <2>2, <2>3, <4>2, n \in Nat, SMT
    <3>2. CASE n + m <= Len(q)
      BY ONLY <1>1, <3>2, n \in Nat, m \in Nat, j \in 0 .. m - 1, SMT
    <3> QED BY <3>1, <3>2
  <2>5. q[n + (j + 1)] < 128 \/ o[p + (j + 1)] < 128
    BY <2>2
  <2>6. Alike(o, q, g, n, p, j + 1)
    BY <2>1, <2>2, <2>4, <2>5, AlikeOne
  <2> QED BY <2>2, <2>6
<1>4. m \in 0 .. m
  BY SMT
<1>5. m \in S
  <2> HIDE DEF S
  <2> QED BY <1>2, <1>3, <1>4, Upwards
<1> QED BY <1>5

LEMMA PrefixAppend ==
  ASSUME NEW s \in Seq(Nat), NEW u \in Seq(Nat), NEW t \in Seq(Nat), Prefix(s, t),
         Len(s) + Len(u) <= Len(t), \A k \in 1 .. Len(u) : u[k] = t[Len(s) + k]
  PROVE  Prefix(s \o u, t) /\ Prefix(s, s \o u)
<1>1. /\ s \o u \in Seq(Nat) /\ Len(s \o u) = Len(s) + Len(u) /\ Len(s) \in Nat /\ Len(u) \in Nat
      /\ DOMAIN (s \o u) = 1 .. Len(s) + Len(u)
      /\ \A k \in DOMAIN (s \o u) :
           (s \o u)[k] = IF k <= Len(s) THEN s[k] ELSE u[k - Len(s)]
  BY AppendIs
<1>2. ASSUME NEW k \in 1 .. Len(s) + Len(u)
      PROVE  (s \o u)[k] = t[k]
  <2>1. CASE k <= Len(s)
    <3>1. k \in 1 .. Len(s)
      BY <1>1, <2>1
    <3> QED BY <1>1, <2>1, <3>1 DEF Prefix
  <2>2. CASE ~(k <= Len(s))
    <3>1. k - Len(s) \in 1 .. Len(u) /\ Len(s) + (k - Len(s)) = k
      BY ONLY <1>1, <2>2, k \in 1 .. Len(s) + Len(u), SMT
    <3> QED BY <1>1, <2>2, <3>1
  <2> QED BY <2>1, <2>2
<1>3. \A k \in 1 .. Len(s) : k \in 1 .. Len(s) + Len(u) /\ k <= Len(s)
  BY ONLY <1>1, SMT
<1>4. Len(s) <= Len(s) + Len(u)
  BY ONLY <1>1, SMT
<1> QED BY <1>1, <1>2, <1>3, <1>4 DEF Prefix

-----------------------------------------------------------------------------
(* What is known while a conversion goes on, and when it has ended.        *)
Reading ==
  pc = "decode" =>
    /\ room # 0
    /\ \E g : Spelling(input, out, Len(out), g) /\ g[Len(out)] = pos
    /\ \A C \in SUBSET (0 .. Len(input)) : Cuts(input, C) => pos \in C

\* What is read a second time is what was there before.
ReadingBack ==
  pc = "decode" /\ origin # <<>> =>
    /\ Prefix(out, origin)
    /\ \E g : /\ Spelling(input, origin, Len(origin), g) /\ g[Len(origin)] = Len(input)
              /\ g[Len(out)] = pos

Written ==
  pc = "encode" => \E g : Spelling(out, input, pos, g) /\ g[pos] = Len(out)

WrittenBack ==
  pc = "encode" /\ origin # <<>> =>
    /\ Prefix(out, origin)
    /\ \E g : /\ Spelling(origin, input, Len(input), g) /\ g[Len(input)] = Len(origin)
              /\ g[pos] = Len(out)

Ended ==
  /\ pc = "decoded" /\ Accepted =>
       \E g : Spelling(input, out, Len(out), g) /\ g[Len(out)] = Len(input)
  /\ pc = "encoded" /\ Accepted =>
       \E g : Spelling(out, input, Len(input), g) /\ g[Len(input)] = Len(out)

CodecInv == Reading /\ ReadingBack /\ Written /\ WrittenBack /\ Ended /\ AcceptsUtf8

\* Of the parts, only those about the place where the conversion is count.
LEMMA AtPlace ==
  /\ pc = "decode" /\ Reading /\ ReadingBack => CodecInv
  /\ pc = "encode" /\ Written /\ WrittenBack => CodecInv
  /\ pc = "decoded" \/ pc = "encoded" => (CodecInv <=> Ended /\ AcceptsUtf8)
  /\ pc = "idle" => CodecInv
BY DEF CodecInv, Reading, ReadingBack, Written, WrittenBack, Ended, AcceptsUtf8

LEMMA PrefixSelf ==
  ASSUME NEW s \in Seq(Nat)
  PROVE  Prefix(s, s) /\ Prefix(<<>>, s)
<1>1. Len(<<>>) = 0 /\ Len(s) \in Nat /\ ~\E k : k \in 1 .. 0
  BY SMT
<1> QED BY <1>1 DEF Prefix

\* What an appended part is.
LEMMA AppendedIs ==
  ASSUME NEW s \in Seq(Nat), NEW u \in Seq(Nat)
  PROVE  /\ s \o u \in Seq(Nat) /\ Len(s \o u) = Len(s) + Len(u)
         /\ \A k \in 1 .. Len(s) : (s \o u)[k] = s[k]
         /\ \A k \in 1 .. Len(u) : (s \o u)[Len(s) + k] = u[k]
<1>1. /\ s \o u \in Seq(Nat) /\ Len(s \o u) = Len(s) + Len(u) /\ Len(s) \in Nat /\ Len(u) \in Nat
      /\ DOMAIN (s \o u) = 1 .. Len(s) + Len(u)
      /\ \A k \in DOMAIN (s \o u) :
           (s \o u)[k] = IF k <= Len(s) THEN s[k] ELSE u[k - Len(s)]
  BY AppendIs
<1>2. \A k \in 1 .. Len(s) : k \in 1 .. Len(s) + Len(u) /\ k <= Len(s)
  BY ONLY <1>1, SMT
<1>3. \A k \in 1 .. Len(u) : /\ Len(s) + k \in 1 .. Len(s) + Len(u) /\ ~(Len(s) + k <= Len(s))
                             /\ (Len(s) + k) - Len(s) = k
  BY ONLY <1>1, SMT
<1> QED BY ONLY <1>1, <1>2, <1>3

LEMMA ReadAscii ==
  ASSUME IInv, CodecInv, DecodeAscii
  PROVE  CodecInv'
<1> DEFINE m == Block8
           a == Ahead(m)
           n == Len(out)
<1>1. Types /\ pc = "decode" /\ Reading /\ ReadingBack
  BY DEF IInv, CodecInv, DecodeAscii
<1>2. /\ input \in Seq(Nat) /\ pos \in Nat /\ out \in Seq(Nat) /\ origin \in Seq(Nat)
      /\ m \in Nat /\ Len(input) \in Nat /\ n \in Nat
  BY <1>1, TextsAssumption DEF Types
<1>3. /\ pos + m <= Len(input) /\ \A k \in 1 .. m : input[pos + k] < 128
      /\ Advance(m, a)
  BY DEF DecodeAscii, AsciiAhead
<1>4. a \in Seq(Nat) /\ Len(a) = m /\ \A k \in 1 .. m : a[k] = input[pos + k]
  BY <1>1, <1>2, <1>3, AheadIs
<1>5. /\ pc' = pc /\ input' = input /\ room' = room /\ origin' = origin
      /\ pos' = pos + m /\ out' = out \o a
  BY <1>3 DEF Advance
<1> HIDE DEF a
<1>6. /\ out \o a \in Seq(Nat) /\ Len(out \o a) = n + m
      /\ \A k \in 1 .. n : (out \o a)[k] = out[k]
      /\ \A k \in 1 .. m : (out \o a)[n + k] = a[k]
  BY ONLY <1>2, <1>4, AppendedIs
<1>7. PICK d \in Seq(Nat) : d = out \o a
  BY <1>6
<1>8. \E h : Spelling(input, d, n + m, h) /\ h[n + m] = pos + m
  <2>1. PICK g : Spelling(input, out, n, g) /\ g[n] = pos
    BY <1>1 DEF Reading
  <2>2. Prefix(input, input) /\ \A b \in 1 .. n : d[b] = out[b] /\ out[b] \in Nat
    BY <1>2, <1>6, <1>7, PrefixSelf, SMTT(60)
  <2>3. Spelling(input, d, n, g)
    BY ONLY <1>2, <2>1, <2>2, SpellingKept
  <2>4. n + m <= Len(d) /\ \A j \in 1 .. m : d[n + j] < 128 /\ input[pos + j] = d[n + j]
    <3>1. Len(d) = n + m /\ \A j \in 1 .. m : d[n + j] = a[j]
      BY ONLY <1>6, <1>7
    <3>2. Len(d) <= Len(d)
      BY <1>7
    <3> QED BY ONLY <1>3, <1>4, <3>1, <3>2
  <2>5. LongerBy(input, d, n, pos, m)
    BY ONLY <1>2, <1>3, <1>7, <2>1, <2>3, <2>4, SpellingAscii
  <2> QED BY ONLY <2>5 DEF LongerBy
<1>9. ASSUME NEW C \in SUBSET (0 .. Len(input)), Cuts(input, C)
      PROVE  pos + m \in C
  <2>1. pos \in C
    BY <1>1, <1>9 DEF Reading
  <2> QED BY ONLY <1>2, <1>3, <1>9, <2>1, CutsAscii
<1>10. Reading'
  <2>1. room # 0
    BY <1>1 DEF Reading
  <2> QED BY ONLY <1>1, <1>5, <1>6, <1>7, <1>8, <1>9, <2>1 DEF Reading
<1>11. ASSUME origin # <<>>
       PROVE  /\ Prefix(d, origin)
              /\ \E g : /\ Spelling(input, origin, Len(origin), g)
                        /\ g[Len(origin)] = Len(input) /\ g[n + m] = pos + m
  <2>1. PICK g : /\ Spelling(input, origin, Len(origin), g) /\ g[Len(origin)] = Len(input)
                 /\ g[n] = pos
    BY <1>1, <1>11 DEF ReadingBack
  <2>2. Prefix(out, origin)
    BY <1>1, <1>11 DEF ReadingBack
  <2>3. n <= Len(origin)
    BY <2>2 DEF Prefix
  <2>4. Alike(input, origin, g, n, pos, m)
    BY ONLY <1>2, <1>3, <2>1, <2>3, AlikeAscii
  <2>5. /\ n + m <= Len(origin) /\ g[n + m] = pos + m
        /\ \A k \in 1 .. m : origin[n + k] = input[pos + k]
    BY <2>4 DEF Alike
  <2>6. Prefix(out \o a, origin)
    BY ONLY <1>2, <1>4, <2>2, <2>5, PrefixAppend
  <2> QED BY <1>7, <2>1, <2>5, <2>6
<1>12. ReadingBack'
  BY ONLY <1>1, <1>5, <1>6, <1>7, <1>11 DEF ReadingBack
<1> QED BY <1>1, <1>5, <1>10, <1>12, AtPlace DEF CodecInv, Written, WrittenBack, Ended, AcceptsUtf8

\* A text that was written is read on to the code point it was written for.
LEMMA BackComes ==
  ASSUME Types, NEW g, Spelling(input, origin, Len(origin), g), g[Len(origin)] = Len(input),
         g[Len(out)] = pos, Prefix(out, origin), pos < Len(input),
         NEW w, w = Form(input[pos + 1])
  PROVE  /\ Len(out) < Len(origin) /\ WholeAhead(w) /\ w = Len(Utf8(origin[Len(out) + 1]))
         /\ CodePoint(Ahead(w)) = origin[Len(out) + 1] /\ g[Len(out) + 1] = pos + w
<1>1. /\ input \in Seq(Nat) /\ pos \in Nat /\ out \in Seq(Nat) /\ origin \in Seq(Nat)
      /\ Len(input) \in Nat /\ Len(out) \in Nat /\ Len(origin) \in Nat
  BY DEF Types
<1>2. PICK n \in Nat : n = Len(out)
  BY <1>1
<1>3. n < Len(origin)
  <2>1. n # Len(origin)
    <3>1. pos # Len(input)
      BY ONLY <1>1, pos < Len(input), SMT
    <3> QED BY <1>2, <3>1
  <2>2. n <= Len(origin)
    BY <1>2 DEF Prefix
  <2> QED BY ONLY <1>1, <1>2, <2>1, <2>2, SMT
<1>4. PICK c : c = origin[n + 1]
  OBVIOUS
<1>5. Comes(input, origin, g, n, c)
  <2>1. Len(origin) <= Len(origin)
    BY <1>1
  <2> QED BY <1>1, <1>3, <1>4, <2>1, SpellingNext
<1>6. /\ c \in Nat /\ IsScalar(c) /\ Spelled(input, pos, c) /\ g[n + 1] = pos + Len(Utf8(c))
      /\ Len(Utf8(c)) \in 1 .. 4
  BY <1>2, <1>5 DEF Comes
<1>7. PICK v : v = Len(Utf8(c))
  OBVIOUS
<1>8. /\ v \in 1 .. 4 /\ pos + v <= Len(input) /\ Form(input[pos + 1]) = v
      /\ SubSeq(input, pos + 1, pos + v) = Utf8(c)
  BY ONLY <1>1, <1>6, <1>7, PartSpelled, ZenonT(60)
<1>9. w = v /\ Ahead(w) = Utf8(c)
  BY <1>8 DEF Ahead
<1>10. Whole(Utf8(c)) /\ CodePoint(Utf8(c)) = c
  BY ONLY <1>6, Encoded
<1>11. WholeAhead(w)
  BY <1>8, <1>9, <1>10, WholeAheadIs
<1> QED BY ONLY <1>2, <1>3, <1>4, <1>6, <1>7, <1>9, <1>10, <1>11

LEMMA ReadOne ==
  ASSUME IInv, CodecInv, DecodeOne, NEW w, w = Form(input[pos + 1]), WholeAhead(w)
  PROVE  CodecInv'
<1> DEFINE n == Len(out)
<1>1. Types /\ pc = "decode" /\ Reading /\ ReadingBack /\ pos < Len(input)
  BY DEF IInv, CodecInv, DecodeOne
<1>2. /\ input \in Seq(Nat) /\ pos \in Nat /\ out \in Seq(Nat) /\ origin \in Seq(Nat)
      /\ Len(input) \in Nat /\ n \in Nat
  BY <1>1 DEF Types
<1>3. PICK u : u = Ahead(w)
  OBVIOUS
<1>4. w \in 1 .. 4 /\ pos + w <= Len(input) /\ Whole(u)
  BY <1>1, <1>3, WholeAheadIs
<1>5. PICK c : c = CodePoint(u)
  OBVIOUS
<1>6. c \in Nat /\ IsScalar(c) /\ Len(Utf8(c)) = w /\ Spelled(input, pos, c)
  <2>1. u = SubSeq(input, pos + 1, pos + w)
    BY <1>3 DEF Ahead
  <2>2. Part(input, pos, w, u)
    BY ONLY <1>2, <1>4, <2>1 DEF Part
  <2>3. Stands(input, pos, w, CodePoint(u))
    BY ONLY <1>4, <2>2, PartWhole
  <2> QED BY ONLY <1>5, <2>3 DEF Stands
<1>7. /\ pc' = pc /\ input' = input /\ room' = room /\ origin' = origin
      /\ pos' = pos + w /\ out' = out \o <<c>>
  BY <1>3, <1>5 DEF DecodeOne, Advance
<1>8. /\ <<c>> \in Seq(Nat) /\ Len(<<c>>) = 1 /\ <<c>>[1] = c /\ 1 \in 1 .. 1
      /\ \A k \in 1 .. 1 : k = 1
  BY ONLY <1>6, SMT
<1>9. PICK e \in Seq(Nat) : e = <<c>>
  BY <1>8
<1>10. /\ out \o e \in Seq(Nat) /\ Len(out \o e) = n + 1
       /\ \A k \in 1 .. n : (out \o e)[k] = out[k]
       /\ (out \o e)[n + 1] = c
  <2>1. /\ out \o e \in Seq(Nat) /\ Len(out \o e) = n + Len(e)
        /\ \A k \in 1 .. n : (out \o e)[k] = out[k]
        /\ \A k \in 1 .. Len(e) : (out \o e)[n + k] = e[k]
    BY ONLY <1>2, e \in Seq(Nat), AppendedIs
  <2>2. Len(e) = 1 /\ e[1] = c /\ 1 \in 1 .. 1
    BY <1>8, <1>9
  <2> QED BY ONLY <2>1, <2>2
<1>11. PICK d \in Seq(Nat) : d = out \o e
  BY <1>10
<1>12. \E h : Spelling(input, d, n + 1, h) /\ h[n + 1] = pos + w
  <2>1. PICK g : Spelling(input, out, n, g) /\ g[n] = pos
    BY <1>1 DEF Reading
  <2>2. Prefix(input, input) /\ \A b \in 1 .. n : d[b] = out[b] /\ out[b] \in Nat
    BY <1>2, <1>10, <1>11, PrefixSelf, SMTT(60)
  <2>3. Spelling(input, d, n, g)
    BY ONLY <1>2, <2>1, <2>2, SpellingKept
  <2>4. c = d[n + 1] /\ Spelled(input, g[n], c)
    BY <1>6, <1>10, <1>11, <2>1
  <2>5. Longer(input, d, n, g, c)
    BY ONLY <1>2, <1>6, <1>11, <2>3, <2>4, SpellingOne
  <2> QED BY ONLY <1>6, <2>1, <2>5 DEF Longer
<1>13. ASSUME NEW C \in SUBSET (0 .. Len(input)), Cuts(input, C)
       PROVE  pos + w \in C
  <2>1. pos \in C
    BY <1>1, <1>13 DEF Reading
  <2>2. pos # Len(input)
    BY ONLY <1>1, <1>2, SMT
  <2> QED BY ONLY <1>2, <1>13, <2>1, <2>2, w = Form(input[pos + 1]), CutNext
<1>14. Len(d) = n + 1 /\ out' = d
  BY <1>7, <1>9, <1>10, <1>11
<1>15. Reading'
  <2>1. room # 0
    BY <1>1 DEF Reading
  <2> QED BY ONLY <1>1, <1>7, <1>12, <1>13, <1>14, <2>1 DEF Reading
<1>16. ASSUME origin # <<>>
       PROVE  /\ Prefix(d, origin)
              /\ \E g : /\ Spelling(input, origin, Len(origin), g)
                        /\ g[Len(origin)] = Len(input) /\ g[n + 1] = pos + w
  <2>1. PICK g : /\ Spelling(input, origin, Len(origin), g) /\ g[Len(origin)] = Len(input)
                 /\ g[n] = pos
    BY <1>1, <1>16 DEF ReadingBack
  <2>2. Prefix(out, origin)
    BY <1>1, <1>16 DEF ReadingBack
  <2>3. n < Len(origin) /\ c = origin[n + 1] /\ g[n + 1] = pos + w
    BY <1>1, <1>3, <1>5, <2>1, <2>2, BackComes
  <2>4. n + 1 <= Len(origin)
    <3>1. Len(origin) \in Nat
      BY <1>2
    <3> QED BY ONLY <1>2, <2>3, <3>1, SMT
  <2>5. Len(e) = 1 /\ \A k \in 1 .. Len(e) : e[k] = origin[n + k]
    BY <1>8, <1>9, <2>3
  <2>6. Prefix(out \o e, origin)
    BY ONLY <1>2, e \in Seq(Nat), <2>2, <2>4, <2>5, PrefixAppend
  <2> QED BY <1>11, <2>1, <2>3, <2>6
<1>17. ReadingBack'
  BY ONLY <1>1, <1>7, <1>14, <1>16 DEF ReadingBack
<1> QED BY <1>1, <1>7, <1>15, <1>17 DEF CodecInv, Written, WrittenBack, Ended, AcceptsUtf8

\* What is not read on is not well-formed, and was not written.
LEMMA ReadNone ==
  ASSUME IInv, CodecInv, DecodeOne, NEW w, w = Form(input[pos + 1]), ~WholeAhead(w)
  PROVE  CodecInv'
<1>1. Types /\ pc = "decode" /\ Reading /\ ReadingBack /\ pos < Len(input)
  BY DEF IInv, CodecInv, DecodeOne
<1>2. input \in Seq(Nat) /\ pos \in Nat /\ Len(input) \in Nat
  BY <1>1 DEF Types
<1>3. pc' = "decoded" /\ answer' = 0 /\ input' = input /\ out' = out /\ origin' = origin
  BY DEF DecodeOne, Return
<1>4. ~WellFormed(input)
  <2> SUFFICES ASSUME NEW C \in SUBSET (0 .. Len(input)), Cuts(input, C)
               PROVE  FALSE
    BY DEF WellFormed
  <2>1. pos \in C /\ pos # Len(input)
    <3>1. pos # Len(input)
      BY ONLY <1>1, <1>2, SMT
    <3> QED BY <1>1, <3>1 DEF Reading
  <2>2. w \in 1 .. 4 /\ pos + w <= Len(input) /\ Whole(SubSeq(input, pos + 1, pos + w))
    BY ONLY <1>2, <2>1, Cuts(input, C), C \in SUBSET (0 .. Len(input)),
            w = Form(input[pos + 1]), CutNext
  <2>3. WholeAhead(w)
    BY <1>1, <2>2, WholeAheadIs DEF Ahead
  <2> QED BY <2>3
<1>5. origin = <<>>
  <2> SUFFICES ASSUME origin # <<>>
               PROVE  FALSE
    OBVIOUS
  <2>1. PICK g : /\ Spelling(input, origin, Len(origin), g) /\ g[Len(origin)] = Len(input)
                 /\ g[Len(out)] = pos
    BY <1>1 DEF ReadingBack
  <2>2. Prefix(out, origin)
    BY <1>1 DEF ReadingBack
  <2>3. WholeAhead(w)
    BY <1>1, <2>1, <2>2, BackComes
  <2> QED BY <2>3
<1> QED BY <1>3, <1>4, <1>5 DEF CodecInv, Reading, ReadingBack, Written, WrittenBack, Ended,
                              AcceptsUtf8, Accepted

\* At the end nothing is left of the counts.
LEMMA NothingLeft ==
  ASSUME NEW s \in Seq(Nat)
  PROVE  Left(Beginnings(s), Len(s)) = 0 /\ LeftAll(s, Len(s)) = 0
<1>1. Len(s) \in Nat /\ Cardinality({}) = 0
  BY FS_EmptySet
<1>2. Beyond(Beginnings(s), Len(s)) = {}
  BY <1>1, SMT DEF Beyond, Beginnings
<1>3. ASSUME NEW limit
      PROVE  Left(Large(s, limit), Len(s)) = 0
  <2>1. Beyond(Large(s, limit), Len(s)) = {}
    <3>1. \A k \in 1 .. Len(s) : ~(k > Len(s))
      BY ONLY <1>1, SMT
    <3> QED BY ONLY <3>1 DEF Beyond, Large
  <2> QED BY <1>1, <2>1 DEF Left
<1>4. LeftAll(s, Len(s)) = (Len(s) - Len(s)) + 0 + 0 + 0
  BY <1>3 DEF LeftAll
<1> QED BY ONLY <1>1, <1>2, <1>4, SMT DEF Left

LEMMA SomethingLeft ==
  ASSUME NEW s \in Seq(Nat), NEW p \in Nat, p < Len(s)
  PROVE  LeftAll(s, p) > 0
<1>1. PICK a \in Nat : a = Left(Large(s, 127), p)
  BY LargeLeft, SMT
<1>2. PICK b \in Nat : b = Left(Large(s, 2047), p)
  BY LargeLeft, SMT
<1>3. PICK d \in Nat : d = Left(Large(s, 65535), p)
  BY LargeLeft, SMT
<1>4. LeftAll(s, p) = (Len(s) - p) + a + b + d
  BY ONLY <1>1, <1>2, <1>3, SMT DEF LeftAll
<1> QED BY <1>4, SMT

\* While code points are ahead, so are octets.
LEMMA NotAtEnd ==
  ASSUME NEW o \in Seq(Nat), NEW q \in Seq(Nat), NEW e \in Nat, e <= Len(q), NEW g,
         Spelling(o, q, e, g), NEW n \in Nat, n < e
  PROVE  g[n] \in Nat /\ g[n] < Len(o)
<1>1. Comes(o, q, g, n, q[n + 1])
  BY SpellingNext
<1>2. PICK v : v = Len(Utf8(q[n + 1]))
  OBVIOUS
<1>3. g[n] \in Nat /\ v \in 1 .. 4 /\ g[n] + v <= Len(o)
  BY <1>1, <1>2 DEF Comes
<1>4. Len(o) \in Nat
  OBVIOUS
<1> QED BY ONLY <1>3, <1>4, SMT

LEMMA ReadEnd ==
  ASSUME IInv, CodecInv, EndDecode
  PROVE  CodecInv'
<1> DEFINE n == Len(out)
<1>1. Types /\ pc = "decode" /\ Reading /\ ReadingBack /\ pos = Len(input) /\ DecodeCount
  BY DEF IInv, CodecInv, EndDecode
<1>2. /\ input \in Seq(Nat) /\ out \in Seq(Nat) /\ origin \in Seq(Nat)
      /\ Len(input) \in Nat /\ n \in Nat /\ Len(origin) \in Nat /\ n <= n
  BY <1>1 DEF Types
<1>3. /\ pc' = "decoded" /\ answer' = n /\ input' = input /\ out' = out /\ origin' = origin
      /\ room' = room
  BY DEF EndDecode, Return
<1>4. n = room /\ n # 0
  <2>1. n + 0 = room
    BY <1>1, <1>2, NothingLeft DEF DecodeCount
  <2>2. room # 0
    BY <1>1 DEF Reading
  <2> QED BY ONLY <1>2, <2>1, <2>2, SMT
<1>5. PICK g : Spelling(input, out, n, g) /\ g[n] = Len(input)
  BY <1>1 DEF Reading
<1>6. WellFormed(input)
  BY <1>2, <1>5, SpelledWell
<1>7. input # <<>>
  <2>1. 0 \in Nat /\ 0 < n
    BY ONLY <1>2, <1>4, SMT
  <2>2. g[0] \in Nat /\ g[0] < Len(input)
    BY <1>2, <1>5, <2>1, NotAtEnd
  <2>3. Len(input) # 0
    BY ONLY <1>2, <2>2, SMT
  <2>4. Len(<<>>) = 0
    BY SMT
  <2> QED BY <2>3, <2>4
<1>8. ASSUME origin # <<>>
      PROVE  out = origin
  <2>1. PICK f : /\ Spelling(input, origin, Len(origin), f) /\ f[Len(origin)] = Len(input)
                 /\ f[n] = pos
    BY <1>1, <1>8 DEF ReadingBack
  <2>2. n <= Len(origin) /\ \A k \in 1 .. n : out[k] = origin[k]
    BY <1>1, <1>8 DEF ReadingBack, Prefix
  <2>3. ~(n < Len(origin))
    <3> SUFFICES ASSUME n < Len(origin)
                 PROVE  FALSE
      OBVIOUS
    <3>1. Len(origin) <= Len(origin)
      BY <1>2
    <3>2. f[n] \in Nat /\ f[n] < Len(input)
      BY <1>2, <2>1, <3>1, NotAtEnd
    <3>3. f[n] = Len(input)
      BY <1>1, <2>1
    <3> QED BY ONLY <1>2, <3>2, <3>3, SMT
  <2>4. n = Len(origin)
    BY ONLY <1>2, <2>2, <2>3, SMT
  <2> QED BY ONLY <1>2, <2>2, <2>4, SameSeq
<1>9. Accepted'
  BY ONLY <1>3, <1>4 DEF Accepted
<1>10. Ended'
  BY ONLY <1>3, <1>5 DEF Ended
<1>11. AcceptsUtf8'
  BY ONLY <1>3, <1>6, <1>7, <1>8, <1>9 DEF AcceptsUtf8
<1> QED BY <1>3, <1>10, <1>11 DEF CodecInv, Reading, ReadingBack, Written, WrittenBack

-----------------------------------------------------------------------------
LEMMA WriteAscii ==
  ASSUME IInv, CodecInv, EncodeAscii
  PROVE  CodecInv'
<1> DEFINE m == Block32
           a == Ahead(m)
           n == Len(out)
<1>1. Types /\ pc = "encode" /\ Written /\ WrittenBack
  BY DEF IInv, CodecInv, EncodeAscii
<1>2. /\ input \in Seq(Nat) /\ pos \in Nat /\ out \in Seq(Nat) /\ origin \in Seq(Nat)
      /\ m \in Nat /\ Len(input) \in Nat /\ n \in Nat
  BY <1>1, TextsAssumption DEF Types
<1>3. /\ pos + m <= Len(input) /\ \A k \in 1 .. m : input[pos + k] < 128
      /\ Advance(m, a)
  BY DEF EncodeAscii, AsciiAhead
<1>4. a \in Seq(Nat) /\ Len(a) = m /\ \A k \in 1 .. m : a[k] = input[pos + k]
  BY <1>1, <1>2, <1>3, AheadIs
<1>5. /\ pc' = pc /\ input' = input /\ room' = room /\ origin' = origin
      /\ pos' = pos + m /\ out' = out \o a
  BY <1>3 DEF Advance
<1> HIDE DEF a
<1>6. /\ out \o a \in Seq(Nat) /\ Len(out \o a) = n + m
      /\ \A k \in 1 .. n : (out \o a)[k] = out[k]
      /\ \A k \in 1 .. m : (out \o a)[n + k] = a[k]
  BY ONLY <1>2, <1>4, AppendedIs
<1>7. PICK d \in Seq(Nat) : d = out \o a
  BY <1>6
<1>8. n + m <= Len(d) /\ n <= Len(d)
  BY ONLY <1>2, <1>6, <1>7, SMT
<1>9. \E h : Spelling(d, input, pos + m, h) /\ h[pos + m] = n + m
  <2>1. PICK g : Spelling(out, input, pos, g) /\ g[pos] = n
    BY <1>1 DEF Written
  <2>2. Prefix(out, d)
    BY <1>6, <1>7, <1>8 DEF Prefix
  <2>3. \A b \in 1 .. pos : input[b] = input[b] /\ input[b] \in Nat
    <3>1. pos <= Len(input)
      BY <1>1, <1>2 DEF Types
    <3> QED BY <1>2, <3>1
  <2>4. Spelling(d, input, pos, g)
    BY ONLY <1>2, <1>7, <2>1, <2>2, <2>3, SpellingKept
  <2>5. \A j \in 1 .. m : input[pos + j] < 128 /\ d[n + j] = input[pos + j]
    BY ONLY <1>3, <1>4, <1>6, <1>7
  <2>6. LongerBy(d, input, pos, n, m)
    BY ONLY <1>2, <1>3, <1>7, <1>8, <2>1, <2>4, <2>5, SpellingAscii
  <2> QED BY ONLY <2>6 DEF LongerBy
<1>10. Written'
  BY ONLY <1>1, <1>5, <1>6, <1>7, <1>9 DEF Written
<1>11. ASSUME origin # <<>>
       PROVE  /\ Prefix(d, origin)
              /\ \E g : /\ Spelling(origin, input, Len(input), g)
                        /\ g[Len(input)] = Len(origin) /\ g[pos + m] = n + m
  <2>1. PICK g : /\ Spelling(origin, input, Len(input), g) /\ g[Len(input)] = Len(origin)
                 /\ g[pos] = n
    BY <1>1, <1>11 DEF WrittenBack
  <2>2. Prefix(out, origin)
    BY <1>1, <1>11 DEF WrittenBack
  <2>3. pos <= Len(input)
    BY <1>1, <1>2 DEF Types
  <2>4. Alike(origin, input, g, pos, n, m)
    BY ONLY <1>2, <1>3, <2>1, <2>3, AlikeAscii
  <2>5. /\ n + m <= Len(origin) /\ g[pos + m] = n + m
        /\ \A k \in 1 .. m : input[pos + k] = origin[n + k]
    BY <2>4 DEF Alike
  <2>6. Prefix(out \o a, origin)
    BY ONLY <1>2, <1>4, <2>2, <2>5, PrefixAppend
  <2> QED BY <1>7, <2>1, <2>5, <2>6
<1>12. WrittenBack'
  BY ONLY <1>1, <1>5, <1>6, <1>7, <1>11 DEF WrittenBack
<1> QED BY <1>1, <1>5, <1>10, <1>12 DEF CodecInv, Reading, ReadingBack, Ended, AcceptsUtf8

LEMMA WriteOne ==
  ASSUME IInv, CodecInv, EncodeOne, NEW c, c = input[pos + 1], IsScalar(c)
  PROVE  CodecInv'
<1> DEFINE n == Len(out)
<1>1. Types /\ pc = "encode" /\ Written /\ WrittenBack /\ pos < Len(input)
  BY DEF IInv, CodecInv, EncodeOne
<1>2. /\ input \in Seq(Nat) /\ pos \in Nat /\ out \in Seq(Nat) /\ origin \in Seq(Nat)
      /\ Len(input) \in Nat /\ n \in Nat /\ c \in Nat
  BY <1>1 DEF Types
<1>3. PICK u \in Seq(Nat) : u = Utf8(c)
  BY <1>2, Utf8Is
<1>4. PICK v \in Nat : v = Len(u)
  OBVIOUS
<1>5. /\ pc' = pc /\ input' = input /\ room' = room /\ origin' = origin
      /\ pos' = pos + 1 /\ out' = out \o u
  BY <1>3 DEF EncodeOne, Advance
<1>6. /\ out \o u \in Seq(Nat) /\ Len(out \o u) = n + v
      /\ \A k \in 1 .. n : (out \o u)[k] = out[k]
      /\ \A k \in 1 .. v : (out \o u)[n + k] = u[k]
  BY ONLY <1>2, <1>3, <1>4, AppendedIs
<1>7. PICK d \in Seq(Nat) : d = out \o u
  BY <1>6
<1>8. n + v <= Len(d) /\ n <= Len(d)
  BY ONLY <1>2, <1>4, <1>6, <1>7, SMT
<1>9. \E h : Spelling(d, input, pos + 1, h) /\ h[pos + 1] = n + v
  <2>1. PICK g : Spelling(out, input, pos, g) /\ g[pos] = n
    BY <1>1 DEF Written
  <2>2. Prefix(out, d)
    BY <1>6, <1>7, <1>8 DEF Prefix
  <2>3. \A b \in 1 .. pos : input[b] = input[b] /\ input[b] \in Nat
    BY <1>1, <1>2, SMTT(60)
  <2>4. Spelling(d, input, pos, g)
    BY ONLY <1>2, <1>7, <2>1, <2>2, <2>3, SpellingKept
  <2>5. Spelled(d, g[pos], c)
    BY ONLY <1>3, <1>4, <1>6, <1>7, <1>8, <2>1 DEF Spelled
  <2>6. Longer(d, input, pos, g, c)
    BY ONLY <1>2, <1>7, <2>4, <2>5, c = input[pos + 1], IsScalar(c), SpellingOne
  <2> QED BY ONLY <1>3, <1>4, <2>1, <2>6 DEF Longer
<1>10. Written'
  BY ONLY <1>1, <1>5, <1>6, <1>7, <1>9 DEF Written
<1>11. ASSUME origin # <<>>
       PROVE  /\ Prefix(d, origin)
              /\ \E g : /\ Spelling(origin, input, Len(input), g)
                        /\ g[Len(input)] = Len(origin) /\ g[pos + 1] = n + v
  <2>1. PICK g : /\ Spelling(origin, input, Len(input), g) /\ g[Len(input)] = Len(origin)
                 /\ g[pos] = n
    BY <1>1, <1>11 DEF WrittenBack
  <2>2. Prefix(out, origin)
    BY <1>1, <1>11 DEF WrittenBack
  <2>3. Comes(origin, input, g, pos, c)
    <3>1. Len(input) <= Len(input)
      BY <1>2
    <3> QED BY <1>1, <1>2, <2>1, <3>1, SpellingNext
  <2>4. Spelled(origin, n, c) /\ g[pos + 1] = n + v
    BY <1>3, <1>4, <2>1, <2>3 DEF Comes
  <2>5. n + v <= Len(origin) /\ \A k \in 1 .. v : u[k] = origin[n + k]
    BY ONLY <1>3, <1>4, <2>4 DEF Spelled
  <2>6. Prefix(out \o u, origin)
    BY ONLY <1>2, <1>3, <1>4, <2>2, <2>5, PrefixAppend
  <2> QED BY <1>7, <2>1, <2>4, <2>6
<1>12. WrittenBack'
  BY ONLY <1>1, <1>5, <1>6, <1>7, <1>11 DEF WrittenBack
<1> QED BY <1>1, <1>5, <1>10, <1>12 DEF CodecInv, Reading, ReadingBack, Ended, AcceptsUtf8

LEMMA WriteNone ==
  ASSUME IInv, CodecInv, EncodeOne, NEW c, c = input[pos + 1], ~IsScalar(c)
  PROVE  CodecInv'
<1>1. Types /\ pc = "encode" /\ EncodeCount /\ WrittenBack /\ pos < Len(input)
  BY DEF IInv, CodecInv, EncodeOne
<1>2. /\ input \in Seq(Nat) /\ pos \in Nat /\ Len(input) \in Nat /\ Len(out) \in Nat
      /\ pos \in 0 .. Len(input) /\ pos + 1 \in DOMAIN input /\ origin \in Seq(Nat)
  BY <1>1 DEF Types
<1>3. /\ pc' = "encoded" /\ answer' = 0 /\ input' = input /\ out' = out /\ origin' = origin
      /\ room' = room
  BY DEF EncodeOne, Return
<1>4. room # 0
  <2>1. LeftAll(input, pos) > 0 /\ LeftAll(input, pos) \in Nat
    BY <1>1, <1>2, SomethingLeft, LeftAllType
  <2>2. Len(out) + LeftAll(input, pos) = room
    BY <1>1 DEF EncodeCount
  <2> QED BY ONLY <1>2, <2>1, <2>2, SMT
<1>5. origin = <<>>
  <2> SUFFICES ASSUME origin # <<>>
               PROVE  FALSE
    OBVIOUS
  <2>1. PICK g : Spelling(origin, input, Len(input), g)
    BY <1>1 DEF WrittenBack
  <2>2. Comes(origin, input, g, pos, c)
    <3>1. Len(input) <= Len(input)
      BY <1>2
    <3> QED BY <1>1, <1>2, <2>1, <3>1, SpellingNext, SMTT(60)
  <2> QED BY <2>2 DEF Comes
<1>6. ~\A k \in DOMAIN input : IsScalar(input[k])
  BY <1>2
<1> QED BY <1>3, <1>4, <1>5, <1>6 DEF CodecInv, Reading, ReadingBack, Written, WrittenBack,
                                    Ended, AcceptsUtf8, Accepted

LEMMA WriteEnd ==
  ASSUME IInv, CodecInv, EndEncode
  PROVE  CodecInv'
<1> DEFINE n == Len(out)
<1>1. Types /\ pc = "encode" /\ Written /\ WrittenBack /\ pos = Len(input) /\ EncodeCount
  BY DEF IInv, CodecInv, EndEncode
<1>2. /\ input \in Seq(Nat) /\ out \in Seq(Nat) /\ origin \in Seq(Nat)
      /\ Len(input) \in Nat /\ n \in Nat
  BY <1>1 DEF Types
<1>3. /\ pc' = "encoded" /\ answer' = n /\ input' = input /\ out' = out /\ origin' = origin
      /\ room' = room
  BY DEF EndEncode, Return
<1>4. n = room
  <2>1. n + 0 = room
    BY <1>1, <1>2, NothingLeft DEF EncodeCount
  <2> QED BY ONLY <1>2, <2>1, SMT
<1>5. PICK g : Spelling(out, input, Len(input), g) /\ g[Len(input)] = n
  BY <1>1 DEF Written
<1>6. \A k \in DOMAIN input : IsScalar(input[k])
  BY <1>2, <1>5, SMTT(60) DEF Spelling
<1>7. ASSUME origin # <<>>
      PROVE  out = origin
  <2>1. n = Len(origin) /\ \A k \in 1 .. n : out[k] = origin[k]
    BY <1>1, <1>7 DEF WrittenBack, Prefix
  <2> QED BY ONLY <1>2, <2>1, SameSeq
<1>8. Accepted'
  BY ONLY <1>3, <1>4 DEF Accepted
<1>9. Ended'
  BY ONLY <1>3, <1>5 DEF Ended
<1>10. AcceptsUtf8'
  BY ONLY <1>3, <1>6, <1>7, <1>8 DEF AcceptsUtf8
<1> QED BY <1>3, <1>9, <1>10 DEF CodecInv, Reading, ReadingBack, Written, WrittenBack

-----------------------------------------------------------------------------
(* How the conversions begin.                                              *)
Spells(s, from) ==
  from # <<>> => \E g : Spelling(s, from, Len(from), g) /\ g[Len(from)] = Len(s)

IsWritten(from, s) ==
  from # <<>> => \E g : Spelling(from, s, Len(s), g) /\ g[Len(s)] = Len(from)

\* What spells something has an octet to begin with.
LEMMA SpelledBegins ==
  ASSUME NEW s \in Seq(Nat), NEW from \in Seq(Nat), from # <<>>, Spells(s, from)
  PROVE  utf32_length_from_utf8(s) # 0
<1>1. PICK g : Spelling(s, from, Len(from), g)
  BY DEF Spells
<1>2. Len(from) \in Nat /\ Len(s) \in Nat /\ Len(from) <= Len(from) /\ 0 \in Nat /\ 0 < Len(from)
      /\ 0 + 1 = 1
  <2>1. Len(from) \in Nat /\ Len(from) # 0 /\ Len(s) \in Nat
    BY SMT
  <2> QED BY ONLY <2>1, SMT
<1>3. PICK c : c = from[1]
  OBVIOUS
<1>4. Comes(s, from, g, 0, c)
  BY <1>1, <1>2, <1>3, SpellingNext
<1>5. c \in Nat /\ IsScalar(c) /\ Spelled(s, 0, c)
  BY <1>1, <1>4 DEF Comes, Spelling
<1>6. Begins(s[1])
  <2>1. Begins(s[0 + 1])
    BY <1>2, <1>5, PartSpelled
  <2> QED BY <1>2, <2>1
<1>7. s # <<>>
  <2>1. g[0] < Len(s) /\ g[0] = 0
    BY <1>1, <1>2, NotAtEnd DEF Spelling
  <2>2. Len(s) # 0
    BY ONLY <1>2, <2>1, SMT
  <2>3. Len(<<>>) = 0
    BY SMT
  <2> QED BY <2>2, <2>3
<1> QED BY <1>6, <1>7, SomethingBegins

LEMMA StartReading ==
  ASSUME NEW s \in Seq(Nat), NEW from \in Seq(Nat), Spells(s, from), Decode(s, from)
  PROVE  CodecInv'
<1>1. /\ input' = s /\ pos' = 0 /\ out' = <<>> /\ answer' = 0 /\ origin' = from
      /\ room' = utf32_length_from_utf8(s)
      /\ pc' = IF utf32_length_from_utf8(s) = 0 THEN "decoded" ELSE "decode"
  BY DEF Decode, Start
<1>2. CASE utf32_length_from_utf8(s) = 0
  <2>1. from = <<>>
    BY <1>2, SpelledBegins
  <2>2. ~(s # <<>> /\ WellFormed(s))
    BY <1>2, WellFormedBegins, SomethingBegins
  <2>3. pc' = "decoded"
    BY <1>1, <1>2
  <2> QED BY <1>1, <2>1, <2>2, <2>3, SMTT(60) DEF CodecInv, Reading, ReadingBack, Written, WrittenBack,
                                        Ended, AcceptsUtf8, Accepted
<1>3. CASE utf32_length_from_utf8(s) # 0
  <2>1. pc' = "decode"
    BY <1>1, <1>3
  <2>2. Len(<<>>) = 0 /\ Len(from) \in Nat
    BY SMT
  <2>3. Reading'
    <3>1. \E g : Spelling(s, <<>>, 0, g) /\ g[0] = 0
      BY SpellingNone
    <3>2. \A C \in SUBSET (0 .. Len(s)) : Cuts(s, C) => 0 \in C
      BY DEF Cuts
    <3>3. Len(out') = 0
      BY <1>1, <2>2
    <3> QED BY ONLY <1>1, <1>3, <3>1, <3>2, <3>3 DEF Reading
  <2>4. ReadingBack'
    <3>1. Prefix(<<>>, from)
      BY PrefixSelf
    <3>2. from # <<>> => \E g : /\ Spelling(s, from, Len(from), g) /\ g[Len(from)] = Len(s)
                                /\ g[0] = 0
      BY DEF Spells, Spelling
    <3>3. Len(out') = 0
      BY <1>1, <2>2
    <3> QED BY ONLY <1>1, <3>1, <3>2, <3>3 DEF ReadingBack
  <2> QED BY <2>1, <2>3, <2>4 DEF CodecInv, Written, WrittenBack, Ended, AcceptsUtf8
<1> QED BY <1>2, <1>3

LEMMA StartWriting ==
  ASSUME NEW s \in Seq(Nat), NEW from \in Seq(Nat), IsWritten(from, s), Encode(s, from)
  PROVE  CodecInv'
<1>1. /\ input' = s /\ pos' = 0 /\ out' = <<>> /\ origin' = from /\ pc' = "encode"
  BY DEF Encode, Start
<1>2. Len(out') = 0
  <2>1. Len(<<>>) = 0
    BY SMT
  <2> QED BY <1>1, <2>1
<1>3. Written'
  <2>1. \E g : Spelling(<<>>, s, 0, g) /\ g[0] = 0
    BY SpellingNone
  <2> QED BY ONLY <1>1, <1>2, <2>1 DEF Written
<1>4. WrittenBack'
  <2>1. Prefix(<<>>, from)
    BY PrefixSelf
  <2>2. from # <<>> => \E g : /\ Spelling(from, s, Len(s), g) /\ g[Len(s)] = Len(from)
                              /\ g[0] = 0
    BY DEF IsWritten, Spelling
  <2> QED BY ONLY <1>1, <1>2, <2>1, <2>2 DEF WrittenBack
<1> QED BY <1>1, <1>3, <1>4 DEF CodecInv, Reading, ReadingBack, Ended, AcceptsUtf8

LEMMA CodecCall ==
  ASSUME Call
  PROVE  CodecInv'
<1>1. <<>> \in Seq(Nat) /\ \A s : Spells(s, <<>>) /\ IsWritten(<<>>, s)
  BY DEF Spells, IsWritten
<1>2. ASSUME NEW s \in Octets, Decode(s, <<>>)
      PROVE  CodecInv'
  <2>1. s \in Seq(0 .. 255)
    BY TextsAssumption
  <2>2. s \in Seq(Nat)
    BY <2>1, 255 \in Nat, Widened, ZenonT(60)
  <2> QED BY <1>1, <1>2, <2>2, StartReading
<1>3. ASSUME NEW s \in CodePoints, Encode(s, <<>>)
      PROVE  CodecInv'
  <2>1. s \in Seq(Nat)
    BY TextsAssumption
  <2> QED BY <1>1, <1>3, <2>1, StartWriting
<1> QED BY <1>2, <1>3 DEF Call

LEMMA CodecBack ==
  ASSUME IInv, CodecInv, Back
  PROVE  CodecInv'
<1>1. input \in Seq(Nat) /\ out \in Seq(Nat) /\ Ended /\ Accepted
  BY DEF IInv, Types, CodecInv, Back
<1>2. CASE pc = "decoded" /\ Encode(out, input)
  <2>1. IsWritten(input, out)
    BY <1>1, <1>2 DEF Ended, IsWritten
  <2> QED BY <1>1, <1>2, <2>1, StartWriting
<1>3. CASE pc = "encoded" /\ Decode(out, input)
  <2>1. Spells(out, input)
    BY <1>1, <1>3 DEF Ended, Spells
  <2> QED BY <1>1, <1>3, <2>1, StartReading
<1> QED BY <1>2, <1>3 DEF Back

LEMMA CodecStays ==
  ASSUME CodecInv, UNCHANGED vars
  PROVE  CodecInv'
BY DEF vars, CodecInv, Reading, ReadingBack, Written, WrittenBack, Ended, AcceptsUtf8, Accepted

LEMMA CodecStep ==
  ASSUME IInv, CodecInv, Step
  PROVE  CodecInv'
<1>1. CASE DecodeOne
  <2>1. PICK w : w = Form(input[pos + 1])
    OBVIOUS
  <2> QED BY <1>1, <2>1, ReadOne, ReadNone
<1>2. CASE EncodeOne
  <2>1. PICK c : c = input[pos + 1]
    OBVIOUS
  <2> QED BY <1>2, <2>1, WriteOne, WriteNone
<1> QED BY <1>1, <1>2, ReadAscii, ReadEnd, WriteAscii, WriteEnd DEF Step

LEMMA CodecInductive == Spec => [](IInv /\ CodecInv)
<1>1. Init => CodecInv
  BY DEF Init, CodecInv, Reading, ReadingBack, Written, WrittenBack, Ended, AcceptsUtf8
<1>2. ASSUME IInv, CodecInv, [Next]_vars
      PROVE  CodecInv'
  BY <1>2, CodecCall, CodecBack, CodecStep, CodecStays DEF Next
<1> QED BY Inductive, <1>1, <1>2, PTL DEF Spec

\* The decoder accepts exactly the texts of RFC 3629 that are not empty, and the
\* encoder exactly the strings of code points that have a form in UTF-8; what was
\* accepted and is converted back comes out as it was.
THEOREM AcceptsUtf8Always == Spec => []AcceptsUtf8
<1>1. CodecInv => AcceptsUtf8
  BY DEF CodecInv
<1> QED BY <1>1, CodecInductive, PTL
=============================================================================
