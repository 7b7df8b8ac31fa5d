----------------------------- MODULE TableBlob -----------------------------
(***************************************************************************)
(* What the winner of ensure_tables() does with the blob (src/             *)
(* table_store.hpp), which TableStore takes as one step that finds the     *)
(* blob intact or not: expand it, compare size and checksum, bring the     *)
(* numbers into the order of the host, and set the pointers.               *)
(***************************************************************************)
EXTENDS Inflate, TablePacker

CONSTANTS
  Sections,              \* the tables that the generator packed
  uncompressed_crc32,    \* the checksum it noted
  Blobs                  \* [compressed, compressed_size, payload, uncompressed_size]: streams of
                         \* its payload, and others; the stream may be cut or altered

\* The offsets and counts of table_blob.inc.
Packed == Pack(Sections)

VARIABLES
  blob,
  big,          \* is the host big-endian?  Any answer will do once it matters
  crc, summed,  \* the checksum of the first octets, and their number
  converted,    \* how many of the conversions are done
  pointers      \* the tables' pointers: the offset of each in the buffer, and the size of
                \* the numbers behind it; none before they are published

blobVars == <<blob, big, crc, summed, converted, pointers>>

Init ==
  /\ InflateInit /\ crc = 0 .. 31 /\ summed = 0 /\ converted = 0 /\ big = FALSE /\ blob \in Blobs
  /\ pointers = <<>>

Expand ==
  /\ inflate_raw(SubSeq(blob.compressed, 1, blob.compressed_size), blob.uncompressed_size)
  /\ UNCHANGED blobVars

-----------------------------------------------------------------------------
BitsOf(o) == {k \in 0 .. 7 : (o \div 2^k) % 2 = 1}
Xor(a, b) == (a \ b) \cup (b \ a)
Polynomial == {31, 30, 29, 27, 26, 24, 23, 21, 20, 19, 15, 9, 8, 5}

Shift(c) == Xor({k - 1 : k \in c \ {0}}, IF 0 \in c THEN Polynomial ELSE {})

\* crc32_ieee(), an octet at a time; the number is the set of its bits.
ChecksumTurn ==
  /\ pc = "inflated" /\ out = blob.uncompressed_size /\ summed < out
  /\ crc' = FoldLeft(LAMBDA c, k : Shift(c), Xor(crc, BitsOf(dst[summed + 1])),
                     <<1, 2, 3, 4, 5, 6, 7, 8>>)
  /\ summed' = summed + 1
  /\ UNCHANGED <<inflateVars, blob, big, converted, pointers>>

\* Mutant: the size is enough.
SizeFits == out = blob.uncompressed_size

Intact == out = blob.uncompressed_size /\ (0 .. 31) \ crc = uncompressed_crc32

Verify ==
  /\ pc = "inflated" /\ (out # blob.uncompressed_size \/ summed = out)
  /\ IF Intact THEN pc' = "verified" /\ big' \in BOOLEAN ELSE pc' = "failed" /\ UNCHANGED big
  /\ UNCHANGED <<Stream, br, dst, Codes, Match, out, blob, crc, summed, converted, pointers>>

\* Mutant: one section less.
WithoutFinal ==
  <<<<"idna_stage1", 2>>, <<"idna_stage2", 2>>, <<"idna_bool_blocks", 8>>,
    <<"decomposition_block", 2>>, <<"decomposition_data", 4>>, <<"composition_block", 2>>,
    <<"composition_data", 4>>, <<"id_continue_flat", 4>>, <<"id_start_flat", 4>>,
    <<"dir_start", 4>>, <<"combining_flat", 4>>, <<"joining_start", 4>>,
    <<"joining_final", 4>>>>

\* The sections that are converted, and the size of their numbers.
Conversions ==
  <<<<"idna_stage1", 2>>, <<"idna_stage2", 2>>, <<"idna_bool_blocks", 8>>,
    <<"decomposition_block", 2>>, <<"decomposition_data", 4>>, <<"composition_block", 2>>,
    <<"composition_data", 4>>, <<"id_continue_flat", 4>>, <<"id_start_flat", 4>>,
    <<"dir_start", 4>>, <<"dir_final", 4>>, <<"combining_flat", 4>>, <<"joining_start", 4>>,
    <<"joining_final", 4>>>>

\* count numbers of that size, from off on, with their octets in reverse.
bswap_inplace(buffer, size, off, count) ==
  [at \in DOMAIN buffer |->
     LET k == at - 1 - off
     IN  IF k \in 0 .. size * count - 1 THEN buffer[at - (k % size) + size - 1 - (k % size)]
                                        ELSE buffer[at]]

ConvertSection ==
  /\ pc = "verified" /\ big /\ converted < Len(Conversions)
  /\ LET s == Conversions[converted + 1]
     IN  dst' = bswap_inplace(dst, s[2], Packed.off[s[1]], Packed.count[s[1]])
  /\ converted' = converted + 1
  /\ UNCHANGED <<pc, Stream, br, Codes, Match, out, blob, big, crc, summed, pointers>>

at(section, size) == [off |-> Packed.off[section], size |-> size]

\* Each pointer, the section it is set to and the type it is cast to.
Pointers ==
  [idna_stage1              |-> at("idna_stage1", 2),
   idna_stage2              |-> at("idna_stage2", 2),
   idna_bool_blocks         |-> at("idna_bool_blocks", 8),
   idna_utf8_mappings       |-> at("idna_utf8_mappings", 1),
   decomposition_index      |-> at("decomposition_index", 1),
   decomposition_block_flat |-> at("decomposition_block", 2),
   decomposition_data       |-> at("decomposition_data", 4),
   ccc_index                |-> at("ccc_index", 1),
   ccc_block_flat           |-> at("ccc_block", 1),
   composition_index        |-> at("composition_index", 1),
   composition_block_flat   |-> at("composition_block", 2),
   composition_data         |-> at("composition_data", 4),
   id_continue              |-> at("id_continue_flat", 4),
   id_start                 |-> at("id_start_flat", 4),
   dir_start                |-> at("dir_start", 4),
   dir_final                |-> at("dir_final", 4),
   dir_value                |-> at("dir_value", 1),
   combining_ranges         |-> at("combining_flat", 4),
   joining_start            |-> at("joining_start", 4),
   joining_final            |-> at("joining_final", 4),
   joining_value            |-> at("joining_value", 1)]

\* From here on the tables are read.
Publish ==
  /\ pc = "verified" /\ (big => converted = Len(Conversions)) /\ pc' = "ready"
  /\ pointers' = Pointers
  /\ UNCHANGED <<Stream, br, dst, Codes, Match, out, blob, big, crc, summed, converted>>

Next ==
  \/ Expand
  \/ InflateStep /\ UNCHANGED blobVars
  \/ ChecksumTurn \/ Verify \/ ConvertSection \/ Publish

Spec == Init /\ [][Next]_<<inflateVars, blobVars>>

-----------------------------------------------------------------------------
Whole == blob.compressed_size = Len(blob.compressed)

TypeOK ==
  /\ InflateTypeOK /\ crc \subseteq 0 .. 31 /\ summed \in 0 .. out /\ converted \in 0 .. Len(Conversions)
  /\ pc \in {"idle", "block", "stored", "dynamic", "lengths", "symbols", "copy", "inflated",
             "verified", "failed", "ready"}

\* In place of the payload of a stream that was altered after it was compressed.
Garbled == <<-1>>

\* All or nothing: a whole stream whose payload fits in the buffer gives that payload,
\* through stored blocks, fixed codes, codes of its own and matches; any other gives 0,
\* unless it was altered.
InflatesAll ==
  pc = "inflated" /\ blob.payload # Garbled =>
    IF Whole /\ Len(blob.payload) <= dst_cap
    THEN out = Len(blob.payload) /\ dst = blob.payload
    ELSE out = 0

\* The tables are ready, and only then there are pointers into the buffer, exactly when
\* the octets are those that were packed: not if the payload or the stream was altered,
\* the stream cut or the size another.
ReadyIfIntact ==
  LET intact == Whole /\ blob.payload = Packed.payload
                /\ blob.uncompressed_size = Len(blob.payload)
  IN  /\ pc = "ready" => intact
      /\ pc = "failed" => ~intact
      /\ pointers # <<>> => pc = "ready"

\* A number that the host reads through a pointer.
Load(p, k) ==
  LET octets == SubSeq(dst, p.off + p.size * k + 1, p.off + p.size * (k + 1))
  IN  IF big THEN octets ELSE Reverse(octets)

\* The table that the code reads through a pointer, where their names differ.
Renamed ==
  [decomposition_block_flat |-> "decomposition_block", ccc_block_flat |-> "ccc_block",
   composition_block_flat |-> "composition_block", id_continue |-> "id_continue_flat",
   id_start |-> "id_start_flat", combining_ranges |-> "combining_flat"]
TableOf(name) == IF name \in DOMAIN Renamed THEN Renamed[name] ELSE name

\* On either kind of host each table reads, through its own pointer, as it was packed,
\* at aligned addresses; and each has one.
LoadsAsPacked ==
  pc = "ready" =>
    /\ {TableOf(name) : name \in DOMAIN pointers} = DOMAIN Sections
    /\ \A name \in DOMAIN pointers :
         LET p     == pointers[name]
             table == Sections[TableOf(name)]
         IN  /\ p.off % p.size = 0
             /\ table = [k \in 1 .. Len(table) |-> Load(p, k - 1)]
=============================================================================
