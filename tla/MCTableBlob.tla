---------------------------- MODULE MCTableBlob ----------------------------
(* TableBlob for TLC: small tables in the 21 sections, their payload in blocks of
   every kind, whole or cut or altered, and streams that show the rest of DEFLATE. *)
EXTENDS TableBlob

\* One number in each section, three in the mappings so that what follows needs
\* padding, and two where the code has pairs.
Count(n) == CASE n = "idna_utf8_mappings" -> 3 [] n \in {"id_start_flat", "dir_start", "dir_value"} -> 2
              [] OTHER -> 1
MCSections ==
  [n \in {SECTION_ORDER[i][1] : i \in DOMAIN SECTION_ORDER} |->
     LET i == CHOOSE j \in DOMAIN SECTION_ORDER : SECTION_ORDER[j][1] = n
     IN  [k \in 1 .. Count(n) |-> [o \in 1 .. SECTION_ORDER[i][2] |-> (3 * i + o + 2 * k) % 10]]]

\* What zlib answers for the payload.
MCChecksum == {3, 5, 7, 9, 10, 12, 13, 14, 15, 16, 17, 18, 21, 22, 28, 29, 31}

\* A payload as tokens: matches of up to five octets, from up to four before.
Tokenised(s) ==
  LET Same(p, l, d) == p > d /\ p + l - 1 <= Len(s) /\ \A k \in p .. p + l - 1 : s[k] = s[k - d]
      From[p \in 1 .. Len(s) + 1] ==
        IF p > Len(s) THEN <<>>
        ELSE IF \E d \in 1 .. 4 : Same(p, 3, d)
        THEN LET m == CHOOSE m \in (3 .. 5) \X (1 .. 4) :
                        /\ Same(p, m[1], m[2])
                        /\ \A o \in (3 .. 5) \X (1 .. 4) : Same(p, o[1], o[2]) => o[1] <= m[1]
             IN  <<m>> \o From[p + m[1]]
        ELSE <<<<s[p]>>>> \o From[p + 1]
  IN  From[1]

\* Codes of 1, 2, 3 ... bits for the symbols in order.
Skew(symbols, n) ==
  [s \in 1 .. n |->
     IF Contains(symbols, s - 1)
     THEN LET k == CHOOSE k \in DOMAIN symbols : symbols[k] = s - 1
          IN  IF k = Len(symbols) THEN k - 1 ELSE k
     ELSE 0]
Lits == Skew(<<257, 0, 5, 3, 256, 9, 1, 259, 7, 2, 4, 258, 6, 8>>, 260)
\* The same for many, so that there are runs of each kind to repeat.
EvenLits ==
  [s \in 1 .. 266 |-> CASE s \in 1 .. 10 \cup {259} -> 4 [] s \in {257, 258} -> 3
                       [] s \in {260, 266} -> 5 [] OTHER -> 0]
Dists == Skew(<<2, 0, 3, 1>>, 4)
Cls == [s \in 1 .. 19 |-> IF s \in {14, 19} THEN 5 ELSE IF s \in {15, 16} THEN 0 ELSE 4]

StoredBlock(s) == [btype |-> 0, octets |-> s]
FixedBlock(t) == [btype |-> 1, tokens |-> t]
DynamicBlock(t, lits) == [btype |-> 2, tokens |-> t, lits |-> lits, dists |-> Dists, cls |-> Cls]

Part(s, i) == SubSeq(s, 1 + (i - 1) * 20, IF i = 4 THEN Len(s) ELSE 20 * i)
Mixed(s) ==
  zlib_deflate(<<DynamicBlock(Tokenised(Part(s, 1)), Lits), StoredBlock(Part(s, 2)),
                 FixedBlock(Tokenised(Part(s, 3))), DynamicBlock(Tokenised(Part(s, 4)), EvenLits)>>)

Blob(stream, taken, payload, size) ==
  [compressed |-> stream, compressed_size |-> taken, payload |-> payload,
   uncompressed_size |-> size]
Entire(stream, payload) == Blob(stream, Len(stream), payload, Len(payload))

\* In blocks of one kind; in blocks of every kind, whole, cut anywhere, or into too small
\* a buffer; and with an octet altered.
PayloadBlobs(payload, mixed) ==
  LET Altered(k) == [payload EXCEPT ![k] = 9 - @]
  IN  {Entire(zlib_deflate(<<StoredBlock(Part(payload, 1)), StoredBlock(<<>>),
                             StoredBlock(SubSeq(payload, 21, Len(payload)))>>), payload),
       Entire(zlib_deflate(<<FixedBlock([k \in DOMAIN payload |-> <<payload[k]>>])>>), payload)}
      \cup {Blob(mixed, n, payload, Len(payload)) : n \in 0 .. Len(mixed)}
      \cup {Blob(mixed, Len(mixed), payload, n) : n \in 0 .. Len(payload)}
      \cup {Entire(zlib_deflate(<<StoredBlock(Altered(k))>>), Altered(k)) :
              k \in {1, 2, 15, 16, 40, 80, 81}}

\* The payload with matches, in one block that ends the stream, and any bit of that
\* altered between the block's type and its end: another symbol, distance or end is read
\* there, and what follows perhaps out of step.  None expands to the payload again.
Flip(octet, b) == IF (octet \div 2^b) % 2 = 1 THEN octet - 2^b ELSE octet + 2^b
GarbledBlobs(payload) ==
  LET stream == zlib_deflate(<<FixedBlock(Tokenised(payload))>>)
  IN  {Entire(stream, payload)} \cup
      {Blob([stream EXCEPT ![k] = Flip(@, b)], Len(stream), Garbled, Len(payload)) :
         k \in 2 .. Len(stream) - 1, b \in 0 .. 7}

\* Matches of every length code and of distances up to 16 codes, one that begins at the
\* first octet; and three streams that zlib itself has written, whole and cut.
Ramp == [k \in 1 .. 40 |-> (7 * k) % 256]
LengthCodes == {3, 4, 10, 11, 12, 13, 18, 19, 34, 35, 66, 67, 114, 115, 130, 131, 227, 257, 258}
Expanded(start, matches) ==
  FoldLeft(LAMBDA s, m : s \o [k \in 1 .. m[1] |-> s[Len(s) + 1 - m[2] + ((k - 1) % m[2])]],
           start, matches)
WithMatches(matches) ==
  LET stream  == zlib_deflate(<<StoredBlock(Ramp), FixedBlock(matches)>>)
      payload == Expanded(Ramp, matches)
  IN  Blob(stream, Len(stream), payload, Len(payload) + 1)
Streams ==
  {WithMatches(<<<<l, d>>>>) : l \in LengthCodes, d \in {1, 40}}
  \cup {WithMatches(<<<<258, 33>>, <<3, d>>>>) : d \in {5, 7, 16, 17, 33, 64, 65, 129, 192, 193, 256, 257, 298}}
  \cup LET whole == WithMatches(<<<<258, 33>>, <<3, 298>>>>)
       IN  {[whole EXCEPT !.compressed_size = @ - k] : k \in 1 .. 4}

Written ==
  {[stream |-> <<203, 72, 205, 201, 201, 7, 0>>, payload |-> <<104, 101, 108, 108, 111>>],
   [stream |-> <<5, 193, 129, 13, 0, 0, 8, 195, 160, 208, 249, 255, 205, 2, 212, 160, 6, 53, 97, 71, 60>>,
    payload |-> <<1, 1, 1, 1, 2, 2, 3, 1, 1, 1, 1, 2, 2, 3, 1, 1, 1, 1, 2, 2, 3, 1, 2, 1, 1, 1, 3, 4,
                  1, 1, 2, 1, 1>>],
   [stream |-> <<109, 193, 177, 13, 0, 0, 12, 194, 48, 5, 242, 255, 205, 221, 43, 236, 250, 176, 5,
                 49, 161, 84, 186, 120>>,
    payload |-> Expanded(<<3, 4>>, <<<<15, 1>>>>) \o Expanded(<<1>>, <<<<22, 1>>>>)
                \o <<2, 1, 4, 1, 4, 2, 2, 1, 3, 1, 3, 4, 1>> \o Expanded(<<3>>, <<<<20, 1>>>>) \o <<4>>]}
WrittenBlobs ==
  UNION {{Blob(w.stream, n, w.payload, Len(w.payload)) : n \in 0 .. Len(w.stream)} : w \in Written}

MCBlobs ==
  LET payload == Pack(MCSections).payload
  IN  PayloadBlobs(payload, Mixed(payload)) \cup GarbledBlobs(payload) \cup Streams \cup WrittenBlobs
=============================================================================
