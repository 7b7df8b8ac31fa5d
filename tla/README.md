# Formal models of ada-url/idna

TLA+ modules, TLC configurations and TLAPS proofs about the C++ library in
`src/` (paths below are relative to the repository; `src/x.cpp` is the library's
own source directory). The library turns domain names into their ASCII form and
back (UTS #46: `ada::idna::to_ascii`, `to_unicode`), with everything these need:
mapping, normalisation, Punycode, label validity, UTF transcoding, and Unicode
tables that are expanded from a compressed blob on first use.

- [The system](#the-system) lists the components, their state and operations.
- [Modules](#modules) says which module models what, and how.
- [Runs](#runs) says what TLC checks, with which bounds.
- [Proofs](#proofs) says what TLAPS proves, and along which argument.
- [Limits](#limits) says what is abstracted and what is left out.
- [Plan](#plan) says what comes next.

## The system

All calls are synchronous functions of their arguments, with one exception: the
tables. They are process-wide, are expanded by whichever call needs them first,
and every function below that uses them may be refused ("false", empty) while
they are not there.

| component | state | operations | what makes it correct |
|---|---|---|---|
| table store, `src/table_store.hpp` | `tables_init_state` (the one atomic), plain global pointers, one heap buffer | `ensure_tables()`, `tables_are_ready()` | one initialiser; no data race on the pointers; no leak; decided once; nobody waits for ever |
| table expansion, `src/raw_inflate.hpp`, `src/table_store.hpp` | bit reader, Huffman tables, output cursor | `inflate_raw()`, `crc32_ieee()`, byte swap | writes and reads in bounds; the payload or nothing; every number reads as it was packed |
| table generators, `scripts/*.py` | none | `write_blob()`, `build_two_level()` | the layouts that the library reads |
| Punycode, `src/punycode.cpp` | the locals of three loops | `utf32_to_punycode()`, `punycode_to_utf32()`, `verify_punycode()` | no `int32_t` overflow; inverse of each other; all three accept the same |
| `to_ascii`, `src/to_ascii.cpp` | the answer so far, scan position | `to_ascii()`, `from_ascii_to_ascii()` | idempotent; one ASCII form per domain; nothing left after a failure |
| `to_unicode`, `src/to_unicode.cpp` | the answer so far, scan position | `to_unicode()` | never fails; each label the given one or the checked decoding |
| mapping, `src/mapping.cpp` | a buffer sized by a first pass | `map()`, `ascii_map()` | the passes agree |
| normalisation, `src/normalization.cpp` | one buffer edited in place | `normalize()`, `is_already_nfc()` | in-place passes overwrite nothing unread; the shortcut agrees |
| label validity, `src/validity.cpp` | indices and flags of two scans | `is_label_valid()` | ContextJ and Bidi rules |
| identifiers, `src/identifier.cpp` | none | `valid_name_code_point()` | range search |
| transcoding, `src/unicode_transcoding.cpp` | a buffer sized by counting | `utf8_to_utf32()` and others | count and conversion agree |

How they interact: `to_ascii` calls `map`, `is_already_nfc`/`normalize`, then for
each label either decodes (`punycode_to_utf32`) and rechecks it with the same
functions or validates and encodes it. `to_unicode` runs the same recheck label
by label. `map` is the first in both that asks for the tables; `normalize`,
`is_already_nfc` and `is_label_valid` each ask again. The only thing two calls
share is the table store.

What is hard here:

- **Concurrency, weak memory.** The store has no mutex: an acquire load, an
  `acq_rel` compare-exchange, release stores, and plain pointers published
  through them; failed allocations give the slot back; waiting is bounded, so
  "false" can be answered a moment before the tables are there.
- **Arithmetic.** Punycode's guards must be exact in front of every `int32_t`
  operation, and they rely on each other across iterations.
- **Duplicated logic.** `verify_punycode` repeats the decoder without its output,
  `is_already_nfc` repeats `normalize`, `to_unicode` repeats `to_ascii`'s recheck.
- **In-place passes** over one buffer (normalisation), and buffers sized by a
  first pass that must agree with the second (mapping, transcoding).
- **Whole-domain properties** that no function states alone: idempotence, round
  trips, one ASCII form for one domain.

PROJECT.json lists these as hazards, each at its line.

## Modules

### Table store

`TableStore` is `ensure_tables()` and `tables_are_ready()`, for any threads. What
is at stake is visibility, so the model keeps the C++ memory model's objects and
not just interleavings:

| module | code |
|---|---|
| `tables_init_state`: the sequence of all stores (modification order), each with the set of plain locations it hands over | the atomic; a release store hands over all its thread sees |
| `seen[t]`: the oldest store that `t` may still load | read-read and write-read coherence |
| `view[t]`: plain locations `t` is sure to see | happens-before; a read outside of it is a data race |
| `buffer[t]`, `ptr[l]` | the `new (std::nothrow)` buffer and its state, the global pointers |
| `pc[t]`, `spins[t]`, `result[t]` | place in the function, wait loop counter, latest answer |
| `intact` | whether the blob inflates to its size and matches its CRC (does not change) |

Every load, exchange, store, allocation and pointer assignment is an action; the
pointer assignments come in any order. A load may return any store from `seen[t]`
on, so every stale read C++ allows happens; the exchange reads the newest store.
`kTablesSpinLimit` is the constant `SpinLimit`.

`TablesPromise` is the abstract specification: undecided, ready or failed, and
each thread's latest answer. Its callers are modelled against it and never see
the atomics.

### Punycode

`Punycode` has RFC 3492's parameters as constants and the arithmetic on them
(`adapt()` as its parts, the threshold). `PunycodeLoop` is the digit loop that
the decoder and the verifier contain line for line, one action per turn of each
of its loops; `PunycodeDecode` and `PunycodeVerify` add what each does with a
code point. `PunycodeEncode` is `utf32_to_punycode()`, its scan one code point at
a time. Locals keep their names. `MaxInt` is `0x7fffffff`; numbers are
mathematical integers and the type invariants say that they stay in range, which
is what rules overflow out. `PunycodeRoundTrip` extends the decoder and composes it with
the encoder in both orders. The `c < 0x80` test after the decoder's addition cannot fire, as `n`
never decreases, and has no action.

### Domains

`Domain` has the strings and what `to_ascii` and `to_unicode` call. A string is a
sequence of symbols, each one code point, the four of `xn--`, a run of Punycode
digits, or a run of bytes that is not UTF-8. What the called functions compute
(mapping, NFC, validity, Punycode) are operator constants. Whether they get the
tables is a step of `TablesPromise` by the calling thread, with other threads
stepping in between.

`ToAscii` has one action per stage and, in its scan, one per step that writes and one per exit: an
ACE label is appended (`AppendAce`) and then checked where it lies in `out`, another one gets its prefix
(`AppendPrefix`) and then its digits, and each of the eight failing returns clears `out` itself
(`NonAsciiAce`, `UndecodableAce` ... `UnencodableLabel`). `out` begins as what the caller's string
may hold. `ToUnicode` has one action per kind of label; `DomainRoundTrip` extends the latter and composes up to three calls of one thread.
`ToUnicode`'s `kept` is a history variable: what became of each label.

In `to_ascii` only `map()` can be refused: `TypeOK` (in the run, of all calls: `AllTypeOK`) states that the thread has been
told "true" from then on, and by the promise it is never told "false" again. The
later functions' own checks thus have no refusing branch.

### Normalisation

`Normalization` is `normalize()` with its locals under their names: `decompose()`,
`sort_marks()` and `compose()` edit `input` in place, one action per turn of each of
their loops (`DecomposeTurn`; `PassStarter`, `TakeMark`, `ShiftMark`, `PlaceMark`;
`ComposeHangul`, `BeginMarks`, `ComposeMark`, `KeepMark`, `EndMarks`). `row` is the code
point whose composition row the local `composition` points to. `is_already_nfc()` writes
nothing and is an operator, made of the same parts as the code's. `source` is a history
variable: the string as it was given. Next to them stands `Nfc`, the definition of UAX
15 with neither buffer nor index. `is_already_nfc()` calls `compose()` on one
decomposition; the model uses the definition's `Composed` there, which `Normalizes`
justifies.

Decomposition, composition and combining classes are constants: the block tables'
addressing is a lookup in a function, and so is the search in a composition row, which
`TableSearch` has. Positions count from 1.

### Label validity

`Validity` is `is_label_valid()`, called for the labels of a domain one after the other.
`Joiner` is a turn of the loop of `is_contextj_valid()`, `RtlTurn` one of the loop over a
right-to-left label; what the code finds out by a scan without other state (the last
code point that is not NSM, the joining types around a joiner) is an operator. What the
tables say of a code point is a constant. `accepted` is a history variable: the labels
found valid so far. `Domain`'s constants `Nfc` and `Valid` are what these two modules
compute.

### Searches

`TableSearch` has the two searches of the library, one action per turn: the one in ranges
(`RangeTurn`: `find_range()` of `validity.cpp`, which is also what `std::ranges::lower_bound`
does for `identifier.cpp` and for the combining marks) and the branchless one in a
composition row (`RowTurn`: `normalization.cpp`, where it is written twice). A row's
search works on places in an array of keys and results; a place is even when it is a key.
`NameCodePoint` is `valid_name_code_point()` with the answers it gives without a table.

### Text

`Transcoding` is `utf8_to_utf32()` and `utf32_to_utf8()` with the functions that count for
them. `DecodeAscii` and `EncodeAscii` are the paths for 16 octets and for two code points
at once, `DecodeOne` and `EncodeOne` those for a single one; `Decode` and `Encode` are their
callers, which size the buffer (`room`) first. `Mapping` is `map()`, both passes with their
own way to step over a mapping, and `ascii_map()` with its arithmetic on words.
`MappingTables` builds the tables from what they are to say as `idna_table.py` does, so that
`idna_lookup()` is checked against the layout and not against itself. `Text` composes
them: octets are decoded, and what they mean is mapped. The variables of `Mapping` begin
with m there.

### Table expansion

`Inflate` is `raw_inflate.hpp`: `Get` and `Decode` are functions of the bit reader that give back
the value and the reader as it stands then; the block loop has an action per kind of block
header, per code length, per symbol and per octet of a match. `TablePacker` lays out a
payload as `pack_tables.py` does and writes it as DEFLATE, in the blocks it is told to; the
compressor is zlib and not part of the repository, so that part is written from RFC 1951.
`TableBlob` composes the two with what `ensure_tables()` does next: `ChecksumTurn`, `Verify`,
`ConvertSection` (a big-endian host's conversion) and `Publish`. `TableStore` takes all this as
one step that finds the blob intact or not; `ReadyIfIntact` says that this is right.

### Proof and model-checking modules

Each `*Proofs` module extends what it is about: `TableStoreProofs`, `TableSearchProofs`,
`NormalizationProofs` and `ValidityProofs` the module of that name, `NormalFormProofs`
`NormalizationProofs`, `PunycodeProofs`
`PunycodeRoundTrip` (so decoder, encoder and verifier), `DomainProofs` `DomainRoundTrip` (so
`to_ascii` and `to_unicode`), `TextProofs` `Text` (so transcoding and mapping). `MC*` modules only
define values of constants; operators whose comment begins with "Mutant" are deliberate mistakes
that show, one by one, that the properties notice them.

## Runs

| run | checks | bounds |
|---|---|---|
| `tables` | `TypeOK`, `OneInitializer`, `SafeTables`, `NoLeak`, `ImplementsPromise`, `CallReturns`, `SlotReleased` | 3 threads, one of which may be suspended for ever, 2 pointers, wait of 2, 1 failed allocation |
| `punycode_round_trip` | `TypeOK`, `EncoderTypeOK`, `CountsWritten`, `DecodesEncoding`, `EncodesDecoding`, `AgreesWithVerify` | base 4, `MaxInt` 14; labels up to 4 code points, all strings up to 3 to 5 octets |
| `punycode_verify_leading` | `LeadingDelimiterRejected` is **violated** | base 4, `MaxInt` 20 |
| `punycode_vectors` | `MatchesFixture` | the code's own parameters; ten pairs of the repository's fixture, and three labels of some 1930 code points |
| `domain_round_trip` | `AllTypeOK`, `LabelByLabel`, `NoGoingBack`, `FailureLeavesNothing`, `LabelsKept`, `Idempotent`, `RoundTrip` | 22 symbols, all strings up to 2, some 450 domains of 2 or 3 labels; `out` empty or not before the first call |
| `normalization` | `TypeOK`, `UnreadKept`, `Normalizes`, `ShortcutIsSound` | a small Unicode of 27 code points; strings up to 2, of groups of them up to 3 or 4 |
| `normalization_shortcut` | `TrueIfNormal` is **violated** | as above |
| `validity` | `EveryJoinerInContext`, `RtlLabelsKeepRule`, `RejectsOnlyByRule` | 14 classes of code points; labels up to 3, of groups of them of 4 |
| `validity_bidi_domain` | `BidiDomainRule` is **violated** | domains of 2 labels of up to 2 code points of 5 classes |
| `table_search` | `TypeOK`, `FindsRange`, `FindsPair` | every row over 7 numbers, every table of ranges over 7 that may touch at 3 places; 9 code points |
| `text` | `TypeOK`, `WritesFit`, `AcceptsUtf8`, `PassesAgree`, `MapsAsTable` | octets and code points on both sides of every limit; texts up to 5 octets or 3 code points; 8 blocks of 64 code points; words of 3 octets |
| `table_expansion` | `TypeOK`, `InflatesAll`, `ReadyIfIntact`, `LoadsAsPacked` | a payload of some 80 octets, its stream cut at every octet, or with a bit altered; 50 other streams |

**Table store.** Three threads are the least with which one initialises, one waits
and one arrives late with a stale load; two pointers the least with which one may
be missed; a failed allocation makes the slot change hands. Liveness is checked on the same
instance as safety, so the threads are not taken to be interchangeable. Stores are bounded by the
failed allocations, so there is no state constraint. Nobody is obliged to call, so a behaviour
may rest in "idle".

**Fairness.** `FairSpec` has weak fairness of each thread's own steps inside a call:
the operating system runs a thread that can run. It is not assumed of the threads
in `Stuck`, and calling is not fair. `CallReturns` is about the others: that it
holds with a suspended initialiser is what `kTablesSpinLimit` is for.
`SlotReleased` adds fairness of the `Stuck` threads as a premise, since the slot
of a suspended initialiser is released by nobody. The other modules are sequential; nothing
about them is said under fairness, and that the searches end is proved.

**Punycode.** With four digits and six basic code points overflow comes after two or
three digits, so each guard fails on some string; the three kinds of code point
(basic, encodable, not) are all there. Small parameters have two effects worth
knowing when reading `DecodesEncoding`:

- The decoder tests `w` for the next digit before it knows that the next digit is
  zero. With `TMin` below `Base - t` it would reject encodings of integers near
  `MaxInt`; RFC 3492's own parameters and bounds on the bias exclude this, and
  so do those of the run (`TMin` 2 of base 4).
- The decoder's `i` counts from the start of the label, the encoder's `d` from the
  code point written last. A delta that just fits the one may not fit the other:
  `NearLimit`. With the code's own parameters that needs a label of about two
  thousand code points with a gap of nearly all of Unicode; such a label is
  encoded and its encoding does not decode. The property permits a rejection
  then, and never a different label.

`punycode_vectors` reaches the same limit with the code's own parameters: 1926 letters and
then U+10FFFF are encoded, 1927 are not (the jump does not fit), and 1929 before U+10FAED are
not either, because the count of those passed over does not fit after the jump has.

`punycode_verify_leading` is a finding: `verify_punycode()` consumes a leading
delimiter, so it accepts strings such as `-a`, which the decoder rejects and of which
`tests/punycode_tests.cpp:118-119` says: "A leading "-" therefore starts the encoded
part, is not a digit, and the input is invalid." `AgreesWithVerify` shows that this is
the only difference: it is a refinement of `PunycodeVerify` by `PunycodeDecode`,
step by step, for all other strings.

**Domains.** The symbols of `MCDomain` are chosen one per case the code tells apart: a
letter and its capital, a mark, a composed letter, its capital, code points that map
to nothing, to a dot, to `xn--` or to more than one, one that is disallowed, one that
is not valid in a label, bytes that are not UTF-8, and encodings of labels that are
good, not lower case, not mapped, not NFC, only ASCII, not valid, or encodings
themselves. `MaxBytes` is such that some domains are too long, and some only
after mapping.

- `FailureLeavesNothing`: the domains have a label to fail at each of the eight exits behind one that was
  already written, and the early returns are taken with something in the caller's string.
- `Idempotent` relies on the ASCII path coming before the length check.
- `RoundTrip` is about what `to_unicode()` makes of the answer and of the string itself. It has two
  exceptions that the code makes on purpose: an ASCII string is answered unchecked, so what
  `to_unicode` makes of it may be refused; and a Unicode form may be longer than
  `max_domain_input_bytes`.
- `NoGoingBack`: `to_unicode` asks for the tables at every encoded label. A call that
  begins without them and is granted them midway leaves the first labels encoded
  and decodes the later ones; never the other way round.
- The properties hold for *stable* tables, those in which what `map()` returns is
  left alone by `map()`; the code takes this for granted, `MCDomain` assumes it in two
  `ASSUME`s, and whether Unicode's tables are is a question about data.

**Normalisation.** `MCNormalization` has one code point of each kind that the comments of
`normalization.cpp` name: marks of three classes and two of one class, composites of one
and two marks, a singleton, an exclusion, a decomposition that composes to another
composite, a mark that decomposes, a compatibility decomposition, starters that compose
with each other (as U+16D63 to U+16D6A do since Unicode 16), and Hangul with one leading
consonant, two vowels and two finals. An `ASSUME` states that these tables are
consistent as Unicode's are. Four code points are the least with which a mark is
blocked by one kept before it and another composes past it.

- `UnreadKept` is why the passes may share one buffer, in four parts: `decompose()` goes backward
  through a buffer that was grown by exactly what it needs, keeps what it has not read and leaves
  the concatenated decompositions (`DecomposesInPlace`); `sort_marks()` has put in order what it
  has passed (`MarksInOrder`) and moves no starter (`StartersStay`); and while `compose()`
  reads, what is ahead of it is the sorted decomposition still.
- `ShortcutIsSound`: what `is_already_nfc()` accepts is in NFC, and what it rejects
  without need is of one kind only. That kind is a finding: `normalization_shortcut`
  violates "Returns true if `input` is already in Unicode Normalization Form C"
  (`include/ada/idna/normalization.h:9`). A composite followed by a mark of a class lower
  than that of its last decomposed mark (U+00E9 U+0338) is in NFC if the lower mark
  composes with nothing, and is rejected. Its callers then normalise, so the
  answers are right all the same.

**Label validity.** The rules of RFC 5892 and RFC 5893 are written next to the model as
quantified formulas over whole labels, with the classes spelled out again. Four code points hold a joiner with
neighbours on both sides and a transparent one in between, or two joiners each with its
own context; and a right-to-left label with both kinds of digit, in both orders, and
marks at the end.

- `RejectsOnlyByRule`: a label of nothing but NSM is rejected in any domain, Bidi or not; the
  property counts it as breaking the rule.
- `validity_bidi_domain` is a finding. The comments at `validity.cpp:197-199` and
  `232-234` say that all labels of a domain with at least one right-to-left label must
  satisfy the rule; the code (235) tests it only for labels that are themselves right to
  left. A label of one extended Arabic-Indic digit (U+06F0, class EN) is accepted in front
  of a Hebrew one.

**Searches.** Seven numbers make rows and tables of up to seven entries, so that halving meets odd and
even sizes at every depth, with gaps, neighbours and ranges of one code point; the nine
code points lie before, between, in and after them.

**Text.** Each limit of UTF-8 has the octet on both sides of it (`MCText`): the last and first lead and
continuation octets, the second octets that make a form overlong, a surrogate or too large, and
each length cut short. The paths for several at once take two, and words have three octets, so that
texts are shorter and longer than one, and end in the middle of one; the lanes of a word do not
know how many there are. The mapping table has a block of each kind the generator makes (all of it
mixed, disallowed, bits only, twice the same bits, ending in an ignored code point) and mappings to
nothing, to one, two and three code points of one to four octets.

- `AcceptsUtf8` compares the decoder, which tests the code point it has put together, with the
  ranges of octets of RFC 3629, and has each conversion undo the other.
- `PassesAgree`: the first pass of `map()` steps by the width of a lead octet, the second by
  decoding; they must agree or the second writes past the buffer.

**Table expansion.** The payload has all 21 sections, with padding between some. Its stream mixes stored
blocks, the fixed codes and two sets of codes of its own, with runs of each kind in the code lengths and
matches longer than their distance. It is given whole, cut after each octet, with each smaller size of
buffer, and with altered octets under the old checksum. In a stream of the fixed codes each bit between the
block's type and its last octet is altered too; most of these still give as many octets as they should, and only
the checksum tells. Other streams have matches of every length code
and of distances of up to 298 octets, and three come from zlib itself.

- `InflatesAll` says "all or nothing": the inflater's 0 for a stream that is cut, at any place, is what
  the comparison of sizes relies on.
- `LoadsAsPacked` reads each number as the host would, little- and big-endian, through the pointer that the code
  reads the table with (`Pointers`: an offset and the size it is cast to), and has every table have one.
  The names of six sections differ from those of their pointers (`Renamed`).

Deadlock is checked for the table store only: elsewhere a sequential call ends.

## Proofs

| theorem | module | states |
|---|---|---|
| `TypeCorrect` | `TableStoreProofs` | `Spec => []TypeOK` |
| `OneInitializerAlways`, `SafeTablesAlways`, `NoLeakAlways` | | the three invariants |
| `Implements` | | `Spec => ImplementsPromise`, the refinement |
| `NoOverflow`, `EncoderNoOverflow` | `PunycodeProofs` | `TypeOK` of the decoder, `EncoderTypeOK` |
| `CountIsOfWritten` | | `BothSpec => []CountsWritten` |
| `ImplementsVerify` | | `Spec => AgreesWithVerify`, the refinement |
| `LabelByLabelAlways` | `DomainProofs` | `Spec => []LabelByLabel`, of `to_unicode` |
| `TypesCorrect`, `NoGoingBackAlways` | | `TypeOK` of all three calls, `NoGoingBack` |
| `FailureLeavesNothingAlways` | | `FailureLeavesNothing` |
| `LabelsAlwaysKept`, `IdempotentAlways` | | `LabelsKept`, `Idempotent` |
| `TypeCorrect` | `NormalizationProofs` | `Spec => []TypeOK` |
| `DecomposesInPlaceAlways`, `SortsMarks` | | the first three parts of `UnreadKept` |
| `UnreadAlwaysKept` | `NormalFormProofs` | `Spec => []UnreadKept` |
| `NormalizesAlways` | | `Spec => []Normalizes` |
| `ShortcutAlwaysSound` | | `Spec => []ShortcutIsSound` |
| `AcceptedIsNormal` | | its first half, of any string: `is_already_nfc(s)` implies `Nfc(s) = s` |
| `ComposeKeepsAhead` | `NormalizationProofs` | `Spec => [][KeepsAhead]_vars`: no turn of `compose()` writes what is unread |
| `JoinersAlwaysInContext`, `RtlLabelsAlwaysKeepRule`, `RejectsOnlyByRuleAlways` | `ValidityProofs` | the three invariants |
| `InBounds`, `FindsRangeAlways`, `FindsPairAlways` | `TableSearchProofs` | the three invariants of the searches |
| `NarrowsAlways` | | `Spec => Narrows`: each turn leaves less in question |
| `TypeCorrect`, `WritesFitAlways` | `TextProofs` | `Spec => []TypeOK`, `Spec => []WritesFit` |
| `AcceptsUtf8Always` | | `Spec => []AcceptsUtf8` |
| `PassesAgreeAlways` | | `TextSpec => []PassesAgree` |

They are for all values of the constants that satisfy the named assumptions, which TLC evaluates in
the runs, and which are what the code takes for granted too:

| assumption | in | why the code may rely on it |
|---|---|---|
| `StoreAssumption` | `TableStore` | there are pointers; the wait is bounded and of at least one turn |
| `PunycodeAssumption`, `InputsAssumption`, `EncodeAssumption` | `Punycode`, `PunycodeDecode`, `PunycodeEncode` | relations among the constants of RFC 3492; strings of at most `MaxInt` units; surrogates lie between basic code points and the last one |
| `DomainAssumption` | `Domain` | dot and `xn--` are ASCII and differ; the empty string decodes to itself |
| `DecodeAssumption` | `ToUnicode` | what a label decodes to and passes the checks has no dot in it: `is_label_valid()` accepts no ASCII but letters, digits and hyphen |
| `CalledAssumption` | `DomainRoundTrip` | lower case is not made lower; `map()` leaves no capital, and NFC makes and removes no dot |
| `HangulAssumption`, `TablesAssumption`, `CccAssumption` | `Normalization` | the block tables answer for every code point, with code points and classes |
| `CompositionAssumption` | `Normalization` | facts of Unicode's data: Hangul is composed by arithmetic only; composites and what begins their pairs are starters, as a pair with a mark in its place is excluded from composition; full decompositions are in canonical order |
| `CompositesAssumption` | `Normalization` | facts of Unicode's data: decompositions are full; a composite decomposes to what the first of its pair does, followed by the second, and these compose to it again |
| `LabelAssumption` | `Validity` | so do those of directions and joining types; the two joiners differ |
| `TablesAssumption` | `TableSearch` | the generators write tables in order |
| `TextsAssumption`, `MappingsAssumption` | `Transcoding`, `Text` | strings are of octets, or of code points; `utf8_mappings` holds code points in UTF-8, each mapping ended by a zero, and every status of `idna_lookup()` is one of the three or leads to where a mapping begins |

So the theorems are about any number of threads and pointers and any wait; any bootstring
parameters and input; domains of any length over any mapping, NFC and Punycode that respect the
above, whatever other threads do to the tables meanwhile; strings and labels of any length with any
tables.

Induction over data is done by the least counterexample: the places at which a claim fails are a
set of naturals, and if it is not empty it has a least element (`LeastOf`, `LeastNatural`, from the
library's well-founded induction). What a loop has computed so far is given as a function of
places (of a sum, of the place to which each code point moves, of where each code point's octets
end) that the invariant says to exist.

**Table store.** None of the three invariants is inductive. Added are: a decided value
(ready, failed) is the last store and nothing precedes it (`DecidedIsLast`), since
otherwise a stale load could decide something else; what the initialising thread has
done at each place (`InitProgress`); who owns each buffer and each pointer
(`BufferOwned`, `PointerOwned`); what a decided store carries (`Decided`); and that a
thread that was told true has acquired that store and can load no older one
(`Answered`). One lemma covers all steps outside the initialisation (`OutsideInit`),
one the initialising thread's up to its last (`InsideInit`), one its giving up
(`GivingUp`). The refinement follows from the invariant: `StoreReady` and `RejectBlob`
are `Decide`, an answer "true" of another thread is `Grant`, of "false" `Refuse`, all
other steps stutter.

**Decoder.** `TypeOK` says that `n`, `i`, `w`, `oldi` and `delta` are never outside
`0 .. MaxInt`. Needed in addition: the octets consumed bound the code points written
(`Room`), which bounds the divisor and the insertion index; and `oldi <= i` within an
integer, so that the delta given to `adapt()` is not negative. The rest is arithmetic
of the guards, in lemmas of its own: `digit <= (MaxInt - i) \div w` gives
`i + digit * w <= MaxInt`, and so on.

**Encoder.** `EncoderIInv` adds to the types what the outer loop is about: `h` is the number of
places in the input with a code point below `n` (a cardinality, `Counted`); during a scan it counts
those below `n` anywhere and those equal to `n` behind the scan. From this `h + 1` is positive when `delta` is
divided by it, and the multiplication's guard is exact. A scan is for a code point that occurs
(`InRange`); once it has met one, `d` counts only the places passed since (`Restarted`), so that the
increments behind it are in range although they have no guard.

**Verifier.** `AgreesWithVerify` is shown with the length of what was decoded as the verifier's count;
each action of the decoder is the verifier's of the same name. The one thing to prove is that both
test the same number in `adapt()` and before the insertion, which the decoder's invariant gives.

**to_ascii.** `TypeOK` says that past `map()` the thread has been told "true", so that nothing it calls
then is refused the tables: `map()` goes on only when granted, and the promise never takes a "true"
back. That a failed call leaves nothing is proved exit by exit (`AsciiFails` is what each of them owes): those of
the scan, where labels and a part of one are written (`AsciiAppend`), clear `out` themselves; the returns before
it do not, and need that `out` is still empty from the beginning, which `AsciiIInv` adds.

That the answer of one call is answered by the next as it is (`Idempotent`) needs what the answer is
made of: lower-case ASCII, in each label (`AsciiIInv`), so that the second call takes the path that
checks nothing and changes nothing. `LabelsKept` counts dots: those of the answer so far and of the
rest, which is always a suffix of the mapped string, add up to all of them, also while the label at hand is
written but not yet passed.

**to_unicode.** A label is "decoded" only by a step in which the tables were granted;
from then on `answer[Caller]` stays "true" (a lemma about every step of the promise),
and "refused" needs the contrary.

`LabelByLabel` is about the strings, and its proof about a scan that both functions share: what is
left is a label, then a dot and the rest, or the end. `LabelIInv` says that what is out and what is
passed have the same number of labels, that the k-th of the one is the k-th of the other or its checked
decoding (`SameLabels`), and that what is out ends in a dot, or is empty, whenever a label is to
follow (`Ended`). The lemma `LabelsExtended` then says that a dotless string written there becomes
one label, the last, and changes no other. Labels are defined by their dots, not by the scan.

**Normalisation.** The growth of the string is a sum over its code points, and the place to
which each moves is the sum up to it; sums are monotone, so going backward the place written is never
before the place read, and it comes out at zero with the last code point (`DecomposesInPlace`).
`sort_marks()` is an insertion sort: between two turns the part passed is ordered, but for starters,
and while a mark is moved one code point of that part is there twice (`MarksInOrder`). That a starter
stays where it is follows from the class 0 ending every shift. In `compose()` the place
written is at most the place read, in Hangul as in marks, so what is ahead is not written (`KeepsAhead`).

What `compose()` finds there is the ordered decomposition. `Ordered` puts each code point at the place
that is the number of those which come before it (`Before`), so it sorts without saying how. The invariant
(`Moving`) is that the string is a permutation of the decomposition, or was before a mark was taken out
(`Shifting`), in which two marks have changed places only if the later has the lower class and no starter is
between them. One shift exchanges two neighbours (`SwappedBijective`). Of the sorted string, `SortedIsOrdered`
shows that `j` comes before `k` in the decomposition exactly if it stands before it in the string, and
a bijection maps those before to those before, so the counts are the places.

`Composed` is a fold, by a recursive function, and its partial results `u` are what `compose()` is compared
with: between two turns what is written is `u` at the place read (`Folding`). The code's loop looks ahead
where the definition looks back, so the invariant has two more parts. Between starters (`Between`) the next
code point must not compose with what is written: after a syllable that is what `ComposeHangul` has tested,
after marks what ended them. Among marks (`AmongMarks`) the locals say what the definition finds in
`u`: `row` is its last starter and `previous_ccc` the class of the last mark kept, -1 if there is none. Only a string
that begins with marks, or a syllable before one, has no row to compose with, and the place of the last
starter (`Base`) tells these apart.

That the shortcut is right (`AcceptedIsNormal`) is shown chunk by chunk. The decomposition of an accepted
string is in order already: within a code point's pieces by the data, between two by `trailing_ccc()`.
Composing it then gives each code point back in its turn: the first of its pieces does not compose
backward (`FirstAppends`, from `would_compose()` and `ComposesBackward`), is a starter if
there are more, and so shields them from all before (`StarterShields`, `ChunkFolds`).

That it rejects only what it must (`NormalIsAccepted`) needs to know where the code points of a string in NFC
came from. Every step of composing keeps what `Stable` says: a code point is a composite of the table or has no
decomposition; what a starter began with did not compose with the one before it (`Apart`); a mark
behind a starter does not compose with it or is blocked, unless the starter has become another by taking a later mark
of a higher class (`Keeps`, `Overtaken`). Each part answers one check of `is_already_nfc()`, and the exception is
one that `MarksOutOfOrder` reports: the mark overtaken, or one between it and the composite, has a lower class than what
`trailing_ccc()` finds before it (`NoneOvertaken`, by the least counterexample).

**Label validity.** The scan for joiners has checked those it has passed. The one over a right-to-left
label keeps in its flags which digits were seen (`RtlSoFar`), so that testing them at each digit amounts
to the rule's "not both"; the last code point that is not NSM is the one before the trailing NSMs
by the least-counterexample argument. The converse, that nothing else is rejected, goes branch by branch
of `is_label_valid()`.

**Searches.** The invariant says what is known of the entries put aside: those up to `lo` end before the
code point, those from `hi` on do not (`RangeInv`); until the key is met, those before `lo` are
smaller and those from `hi` on greater (`RowInv`), and both places are even. Since tables are sorted,
what one comparison says of the middle holds of all on its side (`EndsInOrder`). Where the loop ends, the
one entry left is the only one that can match.

**Transcoding.** `WritesFit` is not inductive: a write must be known to fit before what is ahead is read. What
is added is an equation (`IInv`): what is written and what was counted and is still ahead make up
the room. What is ahead is a set of places (`Left`), the octets that begin a code point or the code points over
each limit, so one step is a lemma about cardinalities; a code point of w octets has one beginning,
which is where the test of the continuation octets comes in. That what is decoded is a scalar value needs
the ranges of each form only.

**UTF-8.** `AcceptsUtf8` compares three things that the code never relates: the ranges of octets of
RFC 3629, the decoder's tests of the code point it has put together, and the encoder. Three lemmas about a
single code point carry it, all arithmetic on groups of six bits: what the tests accept is what the
ranges say (`SyntaxIs`), what the encoder writes passes the tests and reads as the same code
point (`Encoded`), and what passes is written back as it was (`Decoded`). For texts, a well-formed one
is one that can be cut at places such that a form is ahead of each (`Cuts`), and `CodecInv` says that
the decoder's position is in *every* such set of cuts, since the first octet of a form decides how
long it is; so where it gives up there is none. What was converted so far spells the code points that
are out, in the sense of a function of places (`Spelling`), and on the way back what comes out is a
prefix of the origin.

**Mapping.** Both passes are related to a sum of costs over the code points (`Sums`): 1, or the number of
code points in the mapping, as the recursive function `count` defines it. That `count` is what its
definition says, at every place where a mapping begins, is proved by the least counterexample
from the end of the table, in which mappings end. The first pass has the sum of what it has passed, the second
has written that of what it has passed and of the part of a mapping it is in; the total is the size, and the second
pass's steps by decoding agree with the first's by width, as the table is UTF-8.

Only model-checked, and why:

- `CallReturns`, `SlotReleased`: liveness under fairness.
- `DecodesEncoding`, `EncodesDecoding`: that encoding and decoding are inverse relates two loops with
  different state (digits of deltas against insertions), by an induction over the whole string. The first is no
  theorem about *all* parameters that `PunycodeAssumption` admits. Where `Base - t` is greater than `t`, a delta that
  is an `int32_t` may end in a digit 0 whose weight is none, and the decoder tests the weight before it reads
  the digit: with base 4, `TMin` 1, `TMax` 2, initial bias 99 and `MaxInt` 14, `<<3, 12>>` is encoded with the digits
  1, 1, 1, 0, of weights 1, 3, 9 and 27, and rejected. A proof needs a bound on the bias, which decides how soon `t` is `TMax`.
- `RoundTrip`: it relates two functions through the inverse of Punycode, and has exceptions by length.
- `MapsAsTable`: compares with the table's construction, which is made of folds.
- `InflatesAll`, `LoadsAsPacked`, `ReadyIfIntact`: they are about what a compressor and the packer, built of
  folds, may have written, and about alterations of that. `TypeOK` of `TableBlob`: in part (the lengths fit their array) it holds of such streams only.
- `MatchesFixture`: about given values.

## Limits

- The memory model is release/acquire on one atomic with coherence; out-of-thin-air
  values and spurious failures (the exchange is the strong one) do not occur in it.
- In `TableStore` the expansion is one step, and whether the blob is as it should be the one bit
  `intact`; `TableBlob` has the detail, for a small payload. The real contents of the tables are in no
  module.
- The streams considered are those a compressor may write, their prefixes, payloads altered before
  compression, and streams of the fixed codes altered after it. Streams with altered codes of their own,
  over-subscribed or incomplete ones among them, are not.
- The build that takes transcoding from simdutf (`ADA_USE_SIMDUTF`) is not modelled.
- That `to_unicode()` need not expect its encoder to fail rests on the mapping table leaving scalar values
  only, which is a matter of its data.
- `Domain` is not instantiated with `Mapping`, `Normalization` and `Validity`: its strings are of symbols,
  theirs of code points.
- Code points of 0x110000 and above, which `normalization.cpp` guards against at every
  lookup, are in none of the runs: they have no entry in any table.
- A symbol of `Domain` is not a character: lengths are those of `Bytes`, a Punycode run
  is atomic, and labels over 63 octets are not distinguished, as the code does not check
  lengths of labels.
- Not modelled and not planned: the data (`*_tables.cpp`, `table_blob.inc`); of the generators all
  but the two layouts, that is, reading the Unicode files and writing C++; the single header with
  `singleheader/demo.cpp` (one call, on a literal of ten thousand lines), benchmarks, and the
  build; `contains_forbidden_domain_code_point()` (one table lookup per octet).

## Plan

What is left to prove, the most important first:

1. `Punycode`: `EncodesDecoding`, from `CountsWritten` and the decoder's insertions as the same set of places; then
   `DecodesEncoding`, for parameters that keep the bias below a bound (see above).
2. `MapsAsTable`, once the table's construction is stated as what it leaves instead of a fold.
3. `Inflate`: that nothing is written outside of the buffer, for any stream.
