-------------------------------- MODULE Text --------------------------------
(***************************************************************************)
(* The way of a text through to_ascii() as far as it is not about labels:  *)
(* octets are decoded and what they mean is mapped, and a text that is     *)
(* ASCII is only lowered.  Labels are also mapped by themselves, as by     *)
(* to_unicode().  The variables of Mapping begin with m.                   *)
(***************************************************************************)
EXTENDS Transcoding, MappingTables

CONSTANTS
  Labels, AsciiTexts,     \* what is mapped without being decoded first, and lowered
  IDNA_HIGH_IGNORED_START, IDNA_HIGH_IGNORED_END, Lanes

VARIABLES mpc, minput, mpos, mout, msize, mptr, mgranted, mok

M == INSTANCE Mapping WITH
  pc <- mpc, input <- minput, pos <- mpos, out <- mout, out_size <- msize,
  ptr <- mptr, granted <- mgranted, ok <- mok,
  idna_stage1 <- stage1, idna_stage2 <- mixed_data, idna_bool_blocks <- bool_words,
  idna_utf8_mappings <- utf8_table

\* Code points are mapped; the mappings are octets of UTF-8, each mapping ended by a
\* zero, and a number below their size leads to the beginning of one.
ASSUME MappingsAssumption ==
  /\ Labels \subseteq Seq(Nat) /\ AsciiTexts \subseteq Seq(Nat)
  /\ utf8_table \in Seq(0 .. 255)
  /\ \A at \in M!Begins : M!Octet(at) # 0 => at + M!Width(M!Octet(at)) \in M!Begins
  /\ IDNA_LOW_RANGE_END \in Nat /\ IDNA_IGNORED \in M!Begins
  /\ \A c \in 0 .. IDNA_LOW_RANGE_END - 1 :
       /\ M!idna_lookup(c) \in Nat
       /\ M!idna_lookup(c) \notin {IDNA_VALID, IDNA_DISALLOWED} =>
            (M!idna_lookup(c) < Len(utf8_table) => M!idna_lookup(c) \in M!Begins)

mapVars == <<mpc, minput, mpos, mout, msize, mptr, mgranted, mok>>
textVars == <<vars, mapVars>>

TextInit == Init /\ M!Init

MapDecoded ==
  /\ pc = "decoded" /\ Accepted /\ origin = <<>>
  /\ M!Map(out) \/ M!Refuse(out)
  /\ UNCHANGED vars

MapLabel ==
  /\ pc = "idle"
  /\ (\E s \in Labels : M!Map(s)) \/ (\E s \in AsciiTexts : M!AsciiMap(s))
  /\ UNCHANGED vars

TextNext ==
  \/ mpc = "idle" /\ (Call \/ Back) /\ UNCHANGED mapVars
  \/ Step /\ UNCHANGED mapVars
  \/ MapDecoded \/ MapLabel
  \/ M!Step /\ UNCHANGED vars

TextSpec == TextInit /\ [][TextNext]_textVars

-----------------------------------------------------------------------------
PassesAgree == M!PassesAgree
MapsAsTable == M!MapsAsTable
=============================================================================
