---------------------------- MODULE TablePacker ----------------------------
(***************************************************************************)
(* scripts/pack_tables.py, which lays the tables out in one little-endian  *)
(* payload, and the raw DEFLATE streams (RFC 1951) that a compressor may   *)
(* make of that.  A number in a table is the sequence of its octets, the   *)
(* most significant one first.                                             *)
(***************************************************************************)
EXTENDS Integers, Sequences, SequencesExt, FiniteSets

SECTION_ORDER ==
  <<<<"idna_stage1", 2>>, <<"idna_stage2", 2>>, <<"idna_bool_blocks", 8>>,
    <<"idna_utf8_mappings", 1>>, <<"decomposition_index", 1>>, <<"decomposition_block", 2>>,
    <<"decomposition_data", 4>>, <<"ccc_index", 1>>, <<"ccc_block", 1>>,
    <<"composition_index", 1>>, <<"composition_block", 2>>, <<"composition_data", 4>>,
    <<"id_continue_flat", 4>>, <<"id_start_flat", 4>>, <<"dir_start", 4>>, <<"dir_final", 4>>,
    <<"dir_value", 1>>, <<"combining_flat", 4>>, <<"joining_start", 4>>,
    <<"joining_final", 4>>, <<"joining_value", 1>>>>

Padding(at, a) == [k \in 1 .. (a - (at % a)) % a |-> 0]

\* The payload, and for each section its offset and its number of elements.
Pack(sections) ==
  FoldLeft(LAMBDA b, s :
             LET aligned == b.payload \o Padding(Len(b.payload), s[2])
                 vals    == sections[s[1]]
             IN  [payload |-> aligned \o FlattenSeq([k \in DOMAIN vals |-> Reverse(vals[k])]),
                  off     |-> [n \in DOMAIN b.off \cup {s[1]} |->
                                 IF n = s[1] THEN Len(aligned) ELSE b.off[n]],
                  count   |-> [n \in DOMAIN b.count \cup {s[1]} |->
                                 IF n = s[1] THEN Len(vals) ELSE b.count[n]]],
           [payload |-> <<>>, off |-> <<>>, count |-> <<>>], SECTION_ORDER)

-----------------------------------------------------------------------------
(* What a compressor may write.  A token is <<octet>> or <<length,          *)
(* distance>>.                                                              *)

Number(v, n) == [k \in 1 .. n |-> (v \div 2^(k - 1)) % 2]

\* Codes in the order of their lengths and then of their symbols; each begins where
\* those before it end.
CodeBits(size, s) ==
  LET own == size[s + 1]
      before(b) == Cardinality({t \in DOMAIN size : size[t] = b /\ (b < own \/ t <= s)})
  IN  Reverse(Number(FoldLeft(LAMBDA sum, b : sum + 2^(own - b) * before(b), 0,
                              [b \in 1 .. own |-> b]), own))

\* Four lengths, and two distances, for each number of extra bits.
LengthExtra(k) == IF k < 8 \/ k = 28 THEN 0 ELSE (k \div 4) - 1
LengthBase(k) == IF k < 8 THEN 3 + k ELSE IF k = 28 THEN 258 ELSE 3 + (4 + (k % 4)) * 2^LengthExtra(k)
DistanceExtra(k) == IF k < 4 THEN 0 ELSE (k \div 2) - 1
DistanceBase(k) == IF k < 4 THEN 1 + k ELSE 1 + (2 + (k % 2)) * 2^DistanceExtra(k)

Token(lits, dists, t) ==
  IF Len(t) = 1 THEN CodeBits(lits, t[1])
  ELSE LET kl == IF t[1] = 258 THEN 28
                 ELSE CHOOSE k \in 0 .. 27 : t[1] - LengthBase(k) \in 0 .. 2^LengthExtra(k) - 1
           kd == CHOOSE k \in 0 .. 29 : t[2] - DistanceBase(k) \in 0 .. 2^DistanceExtra(k) - 1
       IN  CodeBits(lits, 257 + kl) \o Number(t[1] - LengthBase(kl), LengthExtra(kl))
           \o CodeBits(dists, kd) \o Number(t[2] - DistanceBase(kd), DistanceExtra(kd))

Tokens(lits, dists, tokens) ==
  FlattenSeq([k \in DOMAIN tokens |-> Token(lits, dists, tokens[k])]) \o CodeBits(lits, 256)

\* The lengths of codes, with runs of the same length in one symbol.
Runs(sizes) ==
  LET RunAt(p, most) == CHOOSE n \in 1 .. most :
                       /\ p + n - 1 <= Len(sizes) /\ \A k \in 0 .. n - 1 : sizes[p + k] = sizes[p]
                       /\ n = most \/ p + n > Len(sizes) \/ sizes[p + n] # sizes[p]
      From[p \in 1 .. Len(sizes) + 1] ==
        IF p > Len(sizes) THEN <<>>
        ELSE LET zeros == RunAt(p, 138)
                 same  == RunAt(p, 6)
             IN  IF sizes[p] = 0 /\ zeros > 10 THEN <<<<18, zeros - 11, 7>>>> \o From[p + zeros]
                 ELSE IF sizes[p] = 0 /\ zeros > 2 THEN <<<<17, zeros - 3, 3>>>> \o From[p + zeros]
                 ELSE IF p > 1 /\ sizes[p] = sizes[IF p > 1 THEN p - 1 ELSE p] /\ same > 2
                 THEN <<<<16, same - 3, 2>>>> \o From[p + same]
                 ELSE <<<<sizes[p], 0, 0>>>> \o From[p + 1]
  IN  From[1]

FixedLits == [s \in 1 .. 288 |-> IF s \in 145 .. 256 THEN 9 ELSE IF s \in 257 .. 280 THEN 7 ELSE 8]
FixedDists == [s \in 1 .. 30 |-> 5]
LengthOrder == <<16, 17, 18, 0, 8, 7, 9, 6, 10, 5, 11, 4, 12, 3, 13, 2, 14, 1, 15>>

Header(lits, dists, cls) ==
  LET n == CHOOSE n \in 4 .. 19 :
             /\ \A k \in n + 1 .. 19 : cls[LengthOrder[k] + 1] = 0
             /\ n = 4 \/ cls[LengthOrder[n] + 1] # 0
      runs == Runs(lits \o dists)
  IN  Number(Len(lits) - 257, 5) \o Number(Len(dists) - 1, 5) \o Number(n - 4, 4)
      \o FlattenSeq([k \in 1 .. n |-> Number(cls[LengthOrder[k] + 1], 3)])
      \o FlattenSeq([k \in DOMAIN runs |-> CodeBits(cls, runs[k][1]) \o Number(runs[k][2], runs[k][3])])

\* The bits of a block that begins after at others.
BlockBits(at, b, final) ==
  <<final>> \o Number(b.btype, 2) \o
  CASE b.btype = 0 ->
         Padding(at + 3, 8) \o Number(Len(b.octets), 16) \o Number(65535 - Len(b.octets), 16)
         \o FlattenSeq([k \in DOMAIN b.octets |-> Number(b.octets[k], 8)])
    [] b.btype = 1 -> Tokens(FixedLits, FixedDists, b.tokens)
    [] b.btype = 2 -> Header(b.lits, b.dists, b.cls) \o Tokens(b.lits, b.dists, b.tokens)

zlib_deflate(blocks) ==
  LET bits  == FoldLeft(LAMBDA s, k : s \o BlockBits(Len(s), blocks[k],
                                                     IF k = Len(blocks) THEN 1 ELSE 0),
                        <<>>, [k \in DOMAIN blocks |-> k])
      whole == bits \o Padding(Len(bits), 8)
  IN  [k \in 1 .. Len(whole) \div 8 |->
         FoldRight(LAMBDA b, sum : b + 2 * sum, SubSeq(whole, 8 * k - 7, 8 * k), 0)]
=============================================================================
