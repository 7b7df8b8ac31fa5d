------------------------------ MODULE Inflate ------------------------------
(***************************************************************************)
(* src/raw_inflate.hpp: inflate_raw() with its bit reader and its canonical *)
(* Huffman codes.  A stream with codes of its own is one that a compressor  *)
(* has written, or the beginning of one: the only stream the program        *)
(* expands is its own blob.  A code is not tested for being complete.       *)
(***************************************************************************)
EXTENDS Integers, Sequences, SequencesExt, FiniteSets

VARIABLES
  pc,       \* "idle", "block", "stored", "dynamic", "lengths", "symbols", "copy", "inflated"
  src, dst_cap,
  br,       \* the reader: octets taken, bits held, their number, and what get() answered
  dst,      \* what was written
  bfinal,
  cl, lit, dist,
  hlit, hdist, lens,
  length, distance,   \* of the match that is copied
  out       \* the answer

inflateVars ==
  <<pc, src, dst_cap, br, dst, bfinal, cl, lit, dist, hlit, hdist, lens, length, distance, out>>

-----------------------------------------------------------------------------
(* BitReader.  A caller that is answered Nothing returns 0 at once, so a    *)
(* reader that has failed is not used again.                                *)

Nothing == -1

Readers == [p : Nat, acc : Nat, bits : Nat, v : Int]
NewReader == [p |-> 0, acc |-> 0, bits |-> 0, v |-> 0]

LittleEndian(s) == FoldRight(LAMBDA o, sum : o + 256 * sum, s, 0)

\* ensure(n), which takes no octet before it must, and get(n).
Get(r, n) ==
  LET taken == IF r.bits < n THEN (n - r.bits + 7) \div 8 ELSE 0
      acc   == r.acc + 2^r.bits * LittleEndian(SubSeq(src, r.p + 1, r.p + taken))
  IN  IF r.v = Nothing \/ r.p + taken > Len(src)
      THEN [r EXCEPT !.v = Nothing]
      ELSE [p |-> r.p + taken, acc |-> acc \div 2^n, bits |-> r.bits + 8 * taken - n,
            v |-> acc % 2^n]

\* Mutant: the rest of the octet is read.
Unaligned(r) == r

Aligned(r) == [r EXCEPT !.acc = @ \div 2^(r.bits % 8), !.bits = @ - (r.bits % 8)]

-----------------------------------------------------------------------------
(* Huff.                                                                    *)

MAXBITS == 15

\* build(): sizes[s + 1] is the length of the code of s, 0 where it has none.
Build(sizes) ==
  LET counts == [b \in 0 .. MAXBITS |->
                   IF b = 0 THEN 0 ELSE Cardinality({s \in DOMAIN sizes : sizes[s] = b})]
      first[b \in 0 .. MAXBITS] == IF b = 0 THEN 0 ELSE 2 * (first[b - 1] + counts[b - 1])
      OfSize(b) == SelectSeq([s \in DOMAIN sizes |-> s - 1], LAMBDA s : sizes[s + 1] = b)
  IN  [max_bits   |-> CHOOSE b \in {0} \cup ToSet(sizes) : \A o \in ToSet(sizes) : o <= b,
       counts     |-> counts,
       first_code |-> [b \in 0 .. MAXBITS |-> first[b]],
       base_idx   |-> [b \in 0 .. MAXBITS |->
                         Cardinality({s \in DOMAIN sizes : sizes[s] \in 1 .. b - 1})],
       symbols    |-> FlattenSeq([b \in 1 .. MAXBITS |-> OfSize(b)])]

NoCodes == [max_bits |-> 0]

IsCode(h, code, n) == h.counts[n] # 0 /\ code - h.first_code[n] < h.counts[n]

\* decode(): bit after bit, until what was read is a code of its length.
Decode(h, r) ==
  LET From[n \in 1 .. MAXBITS + 1, code \in Nat, s \in Readers] ==
        LET b    == Get(s, 1)
            next == 2 * code + b.v
        IN  IF n > h.max_bits \/ b.v = Nothing THEN [b EXCEPT !.v = Nothing]
            ELSE IF IsCode(h, next, n)
            THEN [b EXCEPT !.v = h.symbols[h.base_idx[n] + next - h.first_code[n] + 1]]
            ELSE From[n + 1, next, b]
  IN  From[1, 0, r]

kFixedLitLenHuff ==
  Build([s \in 1 .. 288 |-> IF s <= 144 THEN 8 ELSE IF s <= 256 THEN 9 ELSE IF s <= 280 THEN 7 ELSE 8])
kFixedDistHuff == Build([s \in 1 .. 32 |-> 5])

len_base ==
  <<3, 4, 5, 6, 7, 8, 9, 10, 11, 13, 15, 17, 19, 23, 27, 31, 35, 43, 51, 59, 67, 83, 99, 115,
    131, 163, 195, 227, 258>>
len_extra ==
  <<0, 0, 0, 0, 0, 0, 0, 0, 1, 1, 1, 1, 2, 2, 2, 2, 3, 3, 3, 3, 4, 4, 4, 4, 5, 5, 5, 5, 0>>
dist_base ==
  <<1, 2, 3, 4, 5, 7, 9, 13, 17, 25, 33, 49, 65, 97, 129, 193, 257, 385, 513, 769,
    1025, 1537, 2049, 3073, 4097, 6145, 8193, 12289, 16385, 24577>>
dist_extra ==
  <<0, 0, 0, 0, 1, 1, 2, 2, 3, 3, 4, 4, 5, 5, 6, 6, 7, 7, 8, 8, 9, 9, 10, 10, 11, 11, 12, 12, 13, 13>>
order == <<16, 17, 18, 0, 8, 7, 9, 6, 10, 5, 11, 4, 12, 3, 13, 2, 14, 1, 15>>

-----------------------------------------------------------------------------
InflateInit ==
  /\ pc = "idle" /\ src = <<>> /\ dst_cap = 0 /\ br = NewReader /\ dst = <<>> /\ bfinal = 0
  /\ cl = NoCodes /\ lit = NoCodes /\ dist = NoCodes /\ hlit = 0 /\ hdist = 0 /\ lens = <<>>
  /\ length = 0 /\ distance = 0 /\ out = 0

inflate_raw(stream, cap) ==
  /\ pc = "idle" /\ pc' = "block" /\ src' = stream /\ dst_cap' = cap
  /\ UNCHANGED <<br, dst, bfinal, cl, lit, dist, hlit, hdist, lens, length, distance, out>>

Codes == <<cl, lit, dist, hlit, hdist, lens>>
Match == <<length, distance>>
Stream == <<src, dst_cap, bfinal>>

Fail ==
  /\ pc' = "inflated" /\ out' = 0
  /\ UNCHANGED <<src, dst_cap, br, dst, bfinal, Codes, Match>>

\* The last block has been read, or the next one follows.
EndBlock(written) ==
  /\ pc' = IF bfinal = 1 THEN "inflated" ELSE "block"
  /\ out' = IF bfinal = 1 THEN written ELSE out

\* Mutant: one too many.
RoomAtEnd(n) == Len(dst) + n <= dst_cap + 1

Room(n) == Len(dst) + n <= dst_cap

BlockHeader ==
  /\ pc = "block"
  /\ LET final == Get(br, 1)
         btype == Get(final, 2)
     IN  \/ btype.v \notin 0 .. 2 /\ Fail
         \/ /\ btype.v \in 0 .. 2
            /\ br' = btype /\ bfinal' = final.v
            /\ pc' = <<"stored", "symbols", "dynamic">>[btype.v + 1]
            /\ IF btype.v = 1 THEN lit' = kFixedLitLenHuff /\ dist' = kFixedDistHuff
                              ELSE UNCHANGED <<lit, dist>>
            /\ UNCHANGED <<src, dst_cap, dst, cl, hlit, hdist, lens, Match, out>>

\* The length and its complement, then the octets themselves.
Stored ==
  /\ pc = "stored"
  /\ LET len  == Get(Aligned(br), 16)
         nlen == Get(len, 16)
     IN  IF nlen.v = Nothing \/ len.v + nlen.v # 65535 \/ Len(src) - nlen.p < len.v \/ ~Room(len.v)
         THEN Fail
         ELSE /\ dst' = dst \o SubSeq(src, nlen.p + 1, nlen.p + len.v)
              /\ br' = [nlen EXCEPT !.p = @ + len.v]
              /\ EndBlock(Len(dst) + len.v)
              /\ UNCHANGED <<Stream, Codes, Match>>

DynamicHeader ==
  /\ pc = "dynamic"
  /\ LET lits  == Get(br, 5)
         dists == Get(lits, 5)
         codes == Get(dists, 4)
         read  == FoldLeft(
                    LAMBDA s, n : LET g == Get(s.r, 3)
                                  IN  [r |-> g, clen |-> [s.clen EXCEPT ![order[n] + 1] = g.v]],
                    [r |-> codes, clen |-> [s \in 1 .. 19 |-> 0]],
                    [n \in 1 .. codes.v + 4 |-> n])
     IN  IF codes.v = Nothing \/ read.r.v = Nothing THEN Fail
         ELSE /\ br' = read.r /\ cl' = Build(read.clen) /\ lens' = <<>>
              /\ hlit' = lits.v + 257 /\ hdist' = dists.v + 1
              /\ pc' = "lengths"
              /\ UNCHANGED <<Stream, dst, lit, dist, Match, out>>

Repeat(n, size) == [k \in 1 .. n |-> size]

\* One length, or a run of them.
CodeLength ==
  /\ pc = "lengths" /\ Len(lens) < hlit + hdist
  /\ LET sym == Decode(cl, br)
         Run(bits, least, size) ==
           LET rep == Get(sym, bits)
           IN  IF rep.v = Nothing THEN Fail
               ELSE /\ br' = rep /\ lens' = lens \o Repeat(rep.v + least, size)
                    /\ UNCHANGED <<pc, Stream, dst, cl, lit, dist, hlit, hdist, Match, out>>
     IN  \/ (sym.v = Nothing \/ (sym.v = 16 /\ lens = <<>>)) /\ Fail
         \/ /\ sym.v \in 0 .. 15 /\ br' = sym /\ lens' = Append(lens, sym.v)
            /\ UNCHANGED <<pc, Stream, dst, cl, lit, dist, hlit, hdist, Match, out>>
         \/ sym.v = 16 /\ lens # <<>> /\ Run(2, 3, Last(lens))
         \/ sym.v = 17 /\ Run(3, 3, 0)
         \/ sym.v = 18 /\ Run(7, 11, 0)

EndCodeLengths ==
  /\ pc = "lengths" /\ Len(lens) >= hlit + hdist
  /\ lit' = Build(SubSeq(lens, 1, hlit)) /\ dist' = Build(SubSeq(lens, hlit + 1, hlit + hdist))
  /\ pc' = "symbols"
  /\ UNCHANGED <<Stream, br, dst, cl, hlit, hdist, lens, Match, out>>

Literal(sym) ==
  /\ sym.v \in 0 .. 255
  /\ IF Room(1) THEN /\ dst' = Append(dst, sym.v) /\ br' = sym
                     /\ UNCHANGED <<pc, Stream, Codes, Match, out>>
                ELSE Fail

EndOfBlock(sym) ==
  /\ sym.v = 256 /\ br' = sym /\ EndBlock(Len(dst))
  /\ UNCHANGED <<Stream, dst, Codes, Match>>

\* Octets that were written before are to be written again.
BeginMatch(sym) ==
  /\ sym.v \in 257 .. 285
  /\ LET extra  == Get(sym, len_extra[sym.v - 256])
         dsym   == IF extra.v = Nothing THEN extra ELSE Decode(dist, extra)
         dextra == Get(dsym, dist_extra[dsym.v + 1])
     IN  IF dsym.v \notin 0 .. 29 THEN Fail
         ELSE IF dextra.v = Nothing THEN Fail
         ELSE IF dist_base[dsym.v + 1] + dextra.v > Len(dst)
                 \/ ~Room(len_base[sym.v - 256] + extra.v) THEN Fail
         ELSE /\ length' = len_base[sym.v - 256] + extra.v
              /\ distance' = dist_base[dsym.v + 1] + dextra.v
              /\ br' = dextra /\ pc' = "copy"
              /\ UNCHANGED <<Stream, dst, Codes, out>>

Symbol ==
  /\ pc = "symbols"
  /\ LET sym == Decode(lit, br)
     IN  \/ Literal(sym) \/ EndOfBlock(sym) \/ BeginMatch(sym)
         \/ sym.v \notin 0 .. 285 /\ Fail

\* A match may reach into what it writes itself.
CopyByte ==
  /\ pc = "copy" /\ length > 0
  /\ dst' = Append(dst, dst[Len(dst) + 1 - distance]) /\ length' = length - 1
  /\ UNCHANGED <<pc, Stream, br, Codes, distance, out>>

EndMatch ==
  /\ pc = "copy" /\ length = 0 /\ pc' = "symbols"
  /\ UNCHANGED <<Stream, br, dst, Codes, Match, out>>

InflateStep ==
  \/ BlockHeader \/ Stored \/ DynamicHeader \/ CodeLength \/ EndCodeLengths
  \/ Symbol \/ CopyByte \/ EndMatch

-----------------------------------------------------------------------------
\* The reader never holds a whole octet between two operations, so that octets can be
\* copied from where it is; the lengths fit their array, and what is written its buffer.
InflateTypeOK ==
  /\ br.p \in 0 .. Len(src) /\ br.bits \in 0 .. 7 /\ br.acc \in 0 .. 2^br.bits - 1
  /\ Len(dst) + length <= dst_cap \/ pc # "copy"
  /\ Len(dst) <= dst_cap /\ Len(lens) <= 288 + 32
  /\ pc = "copy" => distance \in 1 .. Len(dst)
  /\ out \in 0 .. dst_cap
=============================================================================
