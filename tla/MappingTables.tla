--------------------------- MODULE MappingTables ---------------------------
(***************************************************************************)
(* The tables of src/mapping.cpp, laid out as scripts/idna_table.py does   *)
(* it: a first level with an entry for each block of code points, which    *)
(* leads to one bit per code point where all are valid or disallowed, and  *)
(* to one number per code point otherwise; and the mappings in UTF-8, each *)
(* ended by a zero.                                                        *)
(***************************************************************************)
EXTENDS Integers, Sequences, SequencesExt

CONSTANTS
  Valid,                \* the code points that stay as they are
  MapsTo,               \* from the others that are allowed to what they become, perhaps nothing
  encode_utf8(_),       \* the octets of a code point
  IDNA_BLOCK_SIZE, IDNA_LOW_RANGE_END,
  IDNA_VALID, IDNA_DISALLOWED, IDNA_IGNORED, IDNA_BOOL_FLAG

\* A sequence without what it has already had.
Distinct(s) == FoldLeft(LAMBDA d, x : IF Contains(d, x) THEN d ELSE Append(d, x), <<>>, s)

\* The distinct mappings, one after the other; the first is the empty one.
Entry(s) == FlattenSeq([k \in DOMAIN s |-> encode_utf8(s[k])]) \o <<0>>
Targets ==
  LET mapped == SelectSeq([k \in 1 .. IDNA_LOW_RANGE_END |-> k - 1],
                          LAMBDA c : c \in DOMAIN MapsTo /\ MapsTo[c] # <<>>)
  IN  Distinct([k \in DOMAIN mapped |-> MapsTo[mapped[k]]])
EntriesBefore(k) == <<0>> \o FlattenSeq([j \in 1 .. k - 1 |-> Entry(Targets[j])])

utf8_table == EntriesBefore(Len(Targets) + 1)

seq_to_idx ==
  [s \in ToSet(Targets) \cup {<<>>} |->
     IF s = <<>> THEN IDNA_IGNORED
     ELSE Len(EntriesBefore(CHOOSE k \in DOMAIN Targets : Targets[k] = s))]

flat == [c \in 0 .. IDNA_LOW_RANGE_END - 1 |->
           IF c \in Valid THEN IDNA_VALID
           ELSE IF c \in DOMAIN MapsTo THEN seq_to_idx[MapsTo[c]] ELSE IDNA_DISALLOWED]

Blocks ==
  [b \in 1 .. IDNA_LOW_RANGE_END \div IDNA_BLOCK_SIZE |->
     [k \in 0 .. IDNA_BLOCK_SIZE - 1 |-> flat[(b - 1) * IDNA_BLOCK_SIZE + k]]]
IsBool(block) == \A k \in DOMAIN block : block[k] \in {IDNA_VALID, IDNA_DISALLOWED}

\* Equal blocks are stored once.
BoolBlocks == Distinct(SelectSeq(Blocks, IsBool))
MixedBlocks == Distinct(SelectSeq(Blocks, LAMBDA block : ~IsBool(block)))
PlaceIn(blocks, block) == (CHOOSE k \in DOMAIN blocks : blocks[k] = block) - 1

stage1 ==
  [b \in 0 .. Len(Blocks) - 1 |->
     IF IsBool(Blocks[b + 1]) THEN IDNA_BOOL_FLAG + PlaceIn(BoolBlocks, Blocks[b + 1])
     ELSE IDNA_BLOCK_SIZE * PlaceIn(MixedBlocks, Blocks[b + 1])]

mixed_data ==
  [at \in 0 .. Len(MixedBlocks) * IDNA_BLOCK_SIZE - 1 |->
     MixedBlocks[(at \div IDNA_BLOCK_SIZE) + 1][at % IDNA_BLOCK_SIZE]]

\* The bits that are set.
bool_words ==
  {at \in 0 .. Len(BoolBlocks) * IDNA_BLOCK_SIZE - 1 :
     BoolBlocks[(at \div IDNA_BLOCK_SIZE) + 1][at % IDNA_BLOCK_SIZE] = IDNA_VALID}
=============================================================================
