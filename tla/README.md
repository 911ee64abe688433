# TLA+ specifications of axc

axc is a file archiver: `axc c` cuts files into chunks, compresses the chunks
on rayon's thread pool and writes them, an index and a footer into one file;
`axc x`, `axc l` and `axc t` extract, list and verify such a file. This
directory holds TLA+ models of it, TLC configurations that check them, and
proofs for TLAPS. Line numbers refer to the files under `src/`.

## 1. Inventory

| Component | State it keeps | Operations | Modelled in |
|---|---|---|---|
| container format (`format.rs`) | none | read and write of header, chunk record, entry, footer | `AxcFormat` |
| create (`archive.rs:103-189`, `cmd_create` in `main.rs`) | `chunk_id_counter`, `file_entries`, the chunks and records of the file in hand, the output stream | write header; per file: sanitise, read, split, compress in parallel, write records, push entry; seek, write index, write footer, print, drop the writer | `CreateArchive` |
| rayon pool (external) | deques of ranges, the range each worker runs | split, pop, steal, run a leaf, collect | `CreateArchive` |
| buffered output (external) | what was written and not yet flushed | write, flush on a full buffer, flush on seek, flush on drop with its error lost | `CreateArchive`, `ReadArchive` |
| extract (`archive.rs:230-402`) | chunk map, position, file in memory, `total_decompressed`, `extracted_paths`; the output directory | open, index, scan, then per entry: sanitise, make directories, skip or assemble, check the limit, create, write, set the mode | `ReadArchive` |
| list and index (`archive.rs:191-224`) | none | open, index, print the table | `ReadArchive` |
| test (`archive.rs:404-455`) | position, `chunk_count` | open, verify each record | `ReadArchive` |
| path sanitising (`archive.rs`) | none | `sanitise_path` | `AxcFormat` |
| CRC-32 (`checksum.rs`) | running crc | `oneshot` | `AxcFormat`, as an injective function |
| codec pipeline (`mod.rs`) | none | `compress_full`, `decompress` (and `compress`, which nothing calls) | `Codec`, step by step; `AxcFormat`, as the archive sees it |
| LZ77 (`lz77.rs`) | hash heads, chain ring, position, best match; the decoded bytes | match finder, token stream, decompression | `Lz77` |
| rANS (`ans.rs`) | frequency tables, coder state, byte stream | normalise, build the tables, encode, decode | `Rans` |
| command line (`main.rs`) | none | argument parsing, `collect_files`, output | `CollectFiles`; the options in `ReadArchive` |
| errors, re-exports (`error.rs`, `lib.rs`) | none | none | the error names are results of `ReadArchive` |

How they interact. `cmd_create` opens (and truncates) the output, wraps it in a
`BufWriter` and calls `create_archive`. For one file at a time the main thread
hands the chunks to the pool and blocks; the workers share one atomic counter,
from which a worker draws an id when it *reaches* a chunk, and the records come
back in chunk order. The archive file is the only channel to the other
commands, which find a file's chunks through `first_chunk + i`: the reader
trusts an order that the writer's threads produced. A worker compresses its
chunk by itself: `compress_full` makes LZ77 tokens, encodes tokens and chunk
with rANS, keeps the shorter of the two and says which in a flag byte;
`decompress` undoes it in the reader, between the two checksum tests.

What is hard here:

- **Threads.** Ids are drawn in scheduling order; records get ready in any order.
- **Buffers.** The end of the archive sits in the `BufWriter` until its drop,
  which loses the error of its flush; a crash leaves any prefix.
- **Half-done work.** An extraction that fails or is killed half way leaves
  files; the next command decides by `dest.exists()` what to do with them.
- **Damage.** Magic bytes, tags, two checksums for each chunk and one of the
  footer cover a part of the file each; ids and the index have none.
- **Inverse machines.** The rANS decoder must pass through the encoder's states
  backwards, byte for byte; the LZ77 decoder must rebuild runs that overlap
  themselves; the match finder follows a ring whose slots are taken over.
- **Rounding and width.** Frequencies are rounded to a fixed sum, distances and
  lengths cut to bytes.
- **Ending.** `collect()` returns only if no range is left behind in a deque;
  the scans end only because each turn moves past a record.

What makes each part correct: creation: unique ids in gapless blocks per file,
payloads in file order, never a cut file that passes for an archive, an end to
every creation. Reader: every file comes back as it was given or the command
says so, no false alarm, no wrong byte, no torn file, no file touched that was
not to be, the limit kept, no path outside, an end to every command. Codec: the
chunk that went in comes out, the tables fit, the state stays in its interval,
an end to every loop. `PROJECT.json` lists the hazards at their lines with the
property that watches each.

## 2. Modules

```
ArchivePromise        AxcFormat  <- AxcFormatProofs
      ^                ^    ^   ^
      | refined by     |    |   +------ CollectFiles
      |                |    |                ^
      |    CreateArchive    ReadArchive      |
      |     ^   ^      ^     ^               |
      |     |   |      |     |               |
      |     | MCCreate |     |               |
      |     |          |     |               |
      +-----|-------- AxcSystem  <-  MCSystem
            |              ^
   CreateArchiveProofs     |
            ^              |
   CreateStreamProofs      |
            ^              |
            +---- ReadArchiveProofs  <-  AxcSystemProofs

          Octets
          ^    ^
       Lz77    Rans          <- Lz77Proofs, RansProofs
          ^    ^                       ^
          Codec  <- MCCodec       CodecProofs (also of Codec)
```

**AxcFormat.** The archive is a sequence of *cells*: a header, a chunk
record's 34-byte header, the codec flag or the body of a payload, an index
entry, a footer. Offsets count cells as the code counts bytes. The field `k`
plays the part of magic and tag bytes, so a reader that lands on the wrong cell
sees a wrong tag. `Crc32` is injective: a checksum matches only what it was
taken of. `Decompress` keeps the code's asymmetry: the LZ path stops at the end
of its tokens and never looks at `original_len`, the raw path decodes exactly
`original_len` symbols. It is the inverse of `CompressFull` for every chunk but
those that `Codec` shows to be none: the chunks in `DOMAIN Short` come back as
the shorter `Short[chunk]` (finding 5), and decoding one in `PanicChunks` panics
(`DecoderPanics`, finding 6). Which chunks these are is a parameter, as the
hash and the table of the real codec decide it; `compress_full` writes them
without an error. `AsI64` is the cast `as i64` of a length that has `LenRange`
values, 2^64 in the code.

**CreateArchive.** One action per step of the main thread (`WriteHeader`,
`RefuseFile`, `StartFile`, `Collect`, `WriteRecord`, `PushEntry`, `StartIndex`,
`WriteEntry`, `WriteFooter`, `Report`, `DropWriter`) and of a worker (`Split`,
`FetchAdd`, `Compress`, `Pop`, `Steal`), and `Kill`. `out` is the stream handed
to the `BufWriter`, `flushed` the part of it that is in the file: every write
may push any part of the buffer (`flushed' \in flushed .. Len(out')`), or fail
after pushing some of it; `seek` pushes everything; the drop pushes everything
or, with the fault "drop", some of it in silence. A worker's `job` is the range
it runs; `leaf` says that it has started it and will not split it. rayon splits
a range adaptively, so the model lets a worker split a range as far as it likes
or not at all. A worker leaves in its slot the id (`slots`) and the chunk that it
packed (`packed`), of which payload and checksums are made, so a record that is
collected in the wrong place is one with the wrong contents. `base` is a history
variable. `CreateArchive` also states the
properties of creation; `SequentialOrder` among them says that the stream's
payloads are the files' bytes, in order and up to where the writer is.

**ReadArchive.** One command at a time on the archive `img` and on an output
directory (`fs`: files, `dirs`: directories). `Start` chooses the command and
the options; `OpenRefused`, `OpenList`, `OpenExtract` and `OpenTest` do the
header, footer and index checks; `Listed` is the table of `axc l`; `ScanRecord` /
`ScanEnd` are `build_chunk_map`, `TestRecord` / `TestEnd` the loop of
`test_archive`; `RefuseEntry`, `SkipEntry`, `StartEntry`, `ReadChunk`,
`CreateFile`, `WriteFile`, `SetMode`, `EndExtract` are the body of
`extract_archive`, split where another observer (a kill, an I/O error) can tell
the parts apart. `IoError` and `Die` are the environment; either may find
`create_dir_all` half way (`SomeParents`). A command ends in "ok", in the name of
the `AxcError` it returns, for `AxcError::Io` in the kind of the `io::Error` (so
that a read-only file, a directory in the way and the end of the file can be told
apart, and "Io" alone is a failure of the environment), or in "panic". `ScanRecord`
seeks by the length as an `i64`: to the next record, back to one that it has seen,
or to before the file, which is an error.

**ArchivePromise.** The abstract archive: a set of files, a server that gives
some of them back, and "ok" only when all are back except where a path was
occupied. It has no chunk, index, checksum or thread.

**AxcSystem.** Extends the two and composes them: the creator runs, exits (`Exit` makes `img` what is on the disk and forgets the printed
size, which no later step reads), then commands run, and the storage may damage
one cell or the end of the file once. `Damages` chooses among twelve kinds: what a
magic number, a tag or a checksum covers, directly or because a wrong length,
off by one or so large that it is negative as an `i64`, makes it fail, and what
nothing covers (ids, index entries, names). `P == INSTANCE ArchivePromise WITH ...` is
the refinement mapping; `PromiseKept == P!Spec`.

**CollectFiles.** `collect_files` as an operator from the arguments of `axc c`
(each a path and the node that is there: a file, a directory, nothing) to the
list of archive names and files. A path is a sequence of components; a
component with backslashes is the tuple of the parts they divide it into, so
that replacing them by separators is flattening. `MCSystem` takes the inputs of
every run from it.

**Lz77.** `lz77_compress`, then `lz77_decompress` of its tokens. One action per
turn of a loop: `BeginSearch`, `Candidate`, `Extend` (a byte more matches),
`Judge` (is it the best so far; go on along `prev`), `EndSearch`, `Insert` (a
position into the chains), `Emit`, and for the decoder `DecodeLiteral`,
`DecodeMatch`, `SkipCorrupt`, `CopyByte`. `prev` is the ring of the code; `entered` and
`src` (where each token's bytes begin in the input) are history variables. The
hash is a parameter: nothing may depend on which one it is.

**Rans.** `ans_encode`, then `ans_decode`. `Normalise` states the outcome of
the rounding loop and of the two sorted corrections: who gets one more, who
gives one away. `Push`, `EncodeSymbol`, `DecodeSymbol` and `Refill` are the
loops of the coder. The encoder's bytes are reversed before they are written,
so the stream is a stack. `trace` is a history variable: the encoder's states
that the decoder has not yet come back to. A table that sums to more than its
slots makes `build_alias` index past the end: `StartDecode` then panics.

**Codec.** `compress_full` and `decompress` on top of the two. Which encoding is
kept depends on the lengths of headers that do not scale down with the table,
so both choices are possible for every chunk: this allows all that the code
does and more.

Definitions under a "Mutation" comment in the modules are the plausible bugs
that `PROJECT.json` lists under "mutants": with each put in place of the
definition it varies, TLC finds its property violated. No specification uses them.

## 3. Runs

| Run | Question | Instance |
|---|---|---|
| `create` | types, unique ids, ids in blocks, no false archive, every record in its place; every creation ends | 3 workers; three input lists: files of 3+1 and 0+2 chunks, and one whose second name is refused; all faults; `FairSpec` |
| `roundtrip` | the i-th chunk draws the i-th id, and the ids lead to the records; a whole archive is refused only for a named cause; what is in the way stops extraction there only; the list tells what was put in; the trees of `axc c` come back; the system refines `ArchivePromise` | 1 worker; files of 3 + 1, 0 + 2, 6 and, with the chunks of findings 5 and 6, 2 + 2 chunks; two commands of any kind, five output directories, limits 5 and 100, I/O errors and kills on both sides; `SystemSpec` |
| `damage` | no wrong byte, no torn file, no clobbering, the limit | the first two lists of `roundtrip`, with the nine kinds of damage that something covers and lost flushes and failing chmods in the reader |
| `shuffled` | with more workers: a wrong file has its own ids out of order; a whole archive, or one that `t` called OK, misses a chunk for no other reason | 2 workers, files of 3 and 2 chunks, two commands, a damaged checksum or payload, limits 3 and 8 |
| `misdirected` | after any damage: only whole chunks that were put in come out, and nothing outside the output directory; what can stop `x` after `t` said OK; every command ends | 1 worker, two commands, all twelve kinds of damage: ids and counts off by one, lengths off by one or negative, names with `..`, a root or `.`, tags and all that is covered; I/O errors and kills; `FairSystem` |
| `codec` | every loop of both codecs and the pipeline; every chunk is done in the end | bytes of four values, window 16, table 8; all inputs of up to four bytes, those of five to eight over two values, ten longer ones; `FairCodec` |
| `create_report` | finding 1 | 1 worker |
| `roundtrip_parallel` | finding 2 | 2 workers, one file of 3 chunks |
| `same_name` | finding 3 | 1 worker, two files of one name |
| `test_tag` | finding 4 | 1 worker, one damaged tag |
| `lz77_window` | finding 5 | a pattern that comes again 15 and 16 bytes further |
| `rans_table` | finding 6 | 21 equal bytes and three others |

Bounds and why they are enough. Three chunks are the least that split twice and
that can come back as 0, 2, 1; a thief can then be stolen from while the other
two workers run. Six chunks (`roundtrip`) let one deque hold two ranges, of which
a worker must take up the one that it put aside last. `ChunkSize` 2 tells a
full chunk from a short one. Two files show that the counter, the limit
and the file in memory are handled across files. `LzChunks` makes one chunk take
the LZ path and most others the raw path; one more of the LZ path comes back
short, and decoding one of the raw path panics. `LenRange` 16 leaves
room for lengths that are negative as an `i64`, by one to four cells: back to the
record itself, to cells of the record or the one before, and, at the first
record, to before the file. Two commands (`MaxRuns`) show what a
first command leaves to a second, in particular a kill followed by a run with
and without `-f`. The five output directories are: empty, an old file, a read-only file, a
directory where a file goes, a file where a directory goes. Limit 5 is
reached exactly by the first file of one list and passed by its second, and
never reached by the second list, and it cuts the file of six chunks in its
middle; 100 never cuts. The arguments of `axc c`
include a file, a directory with a file and a socket, `.`, a path that is not
there and a file name with a backslash. Two commands are what `misdirected`
needs for `t` and then `x`, with the damage before, between or after them. In
`shuffled` limit 3 cuts the first file, and 8 is the size of both together, which
extraction passes only when ids that are out of order lead it to a full chunk
instead of a short one.

The codec keeps the code's proportions: a window of `Radix * Radix` (16, as
65536 is 256 * 256), which is what makes finding 5 possible and what the
assumption `WindowSize <= OffsetRange` says, and lengths of one byte (`MaxMatch`
is 5). The inputs make the rounded frequencies fall short of the table, fit it
and exceed it, push two bytes for one symbol, follow a chain to its depth limit,
out of the window and into slots that later positions took over, reach the
longest match, overlap a match with itself and match more than `SkipLimit`. `CHECK_DEADLOCK FALSE` is set because a
creator that ended and a user who has had `MaxRuns` commands do stop.

Fairness. The operating system schedules the main thread and every worker, so
`WF_vars(MainStep)` and `WF_vars(WorkerStep(w))` for each `w`; a reader that was
started runs on, so `WF(UseStep)`, and the creator in the composed system
`WF(CreateStep)`. Nobody is obliged to kill a process, to start a command, to
fail a write or to damage a file: those actions have no fairness. Weak fairness is
enough, as a worker's enabled step stays enabled until it is taken or another
worker takes the range. `FairCodec` is weak fairness of the pipeline's one
thread, which nothing blocks. `CommandEnds` excepts one case, which no scheduling
helps: a record with a `compressed_len` of 2^64 - 34 sends `build_chunk_map` back
to itself for ever (`archive.rs:273`; no checksum covers the field). The property
says that a command ends or gets to a record that points back (`PointsBack`); it
may end also then, as a length that leads to a cell that is no record ends the scan.

`roundtrip` and `damage` use one worker on purpose: with two, finding 2 makes
`NoWrongByte` fail. The reader cannot see the number of workers, only the ids:
what is left of those properties with more workers is what `shuffled` checks,
and the theorems `ShuffledAlone`, `OrderedIsKept`, `NoAlarmRaised` and
`TestedIsExtractable` prove it for any number. Its two files are the least in which the ids of one could lead
to the other's chunks; `NoWrongByte` fails on the same instance, so ids do get
out of order there. `roundtrip` also has
no lost flush, in the creator or the reader: after one a command can say "ok"
for a file cut short, which breaks the promise and which the code accepts by
dropping its writers without a flush. `NoFalseArchive` and `NoWrongByte` say
what still holds then: the archive is refused, the extracted file is a
beginning of the right one.

## 4. Findings

1. *The printed size is too small* (`main.rs:156`, run `create_report`).
   `cmd_create` asks the file system for the size while the end of the archive
   is still in the `BufWriter`.
2. *Parallel creation swaps chunks* (`archive.rs:133`, run
   `roundtrip_parallel`). Ids are drawn in scheduling order, the reader looks for
   `first_chunk + i`. Two workers can draw 0, 2, 1: every lookup hits, every
   checksum matches, and the extracted file has its last two chunks swapped.
   `SerialInOrder` and the theorem `SerialIdsFollow` say when it cannot happen:
   with one worker. `BlockOfIds` shows the ids are still right as a set, which
   is why no check of the reader notices. The harm stays with the file whose own
   ids are out of order (`OnlyShuffledIsWrong`, theorem `ShuffledAlone`), and
   where all are in order the archive is as good as one worker's
   (`NoFalseAlarm` and `TestPredictsExtract` name the order as the reason for
   which a chunk is missing; theorem `OrderedIsKept`).
3. *Two inputs of one archive name* (`archive.rs:328`, run `same_name`):
   extraction skips the second in silence and says ok.
4. *`axc t` stops at a foreign tag and says OK* (`archive.rs:425`, run
   `test_tag`), having verified fewer chunks than the index refers to.
5. *The match window is one position too long* (`lz77.rs:57`, run
   `lz77_window`). A distance of 65536 is written in two bytes as 0, and the
   decompressor skips such a match as corrupt. The chunk comes back too short,
   its checksum fails, and `axc x` refuses an archive that `axc c` wrote
   without an error. `DecodesBack` and its theorem say that nothing else can go
   wrong, and `SmallComesBack` that it takes a chunk of at least 65540 bytes,
   which the default of 512 KiB allows.
6. *The frequencies can sum to more than the table* (`ans.rs:58`, run
   `rans_table`). Every symbol that occurs gets at least 1, and the excess is
   taken back in one pass, 1 from each symbol that has more. With more rare
   symbols than frequent ones can pay for, the sum stays too large, and the
   decoder panics in `build_alias`. A long text of four letters behind a
   header in some thirty other characters is such a chunk, and `axc x` and `axc t` of
   the archive with it panic (`NoFalseAlarm` names the cause). `NeverShort` says
   that the error goes only this way; `RansExact` that a table that fits is exact.

## 5. Proofs

All hold for every set of inputs, output directories, limits and faults, every
chunk size and every number of commands that meet the assumptions:
`ChunkSizeAssumption` (a chunk size of 0 panics in `slice::chunks`),
`InputsAssumption` (inputs are lists of file records), `WorkersAssumption` (the
pool has a thread), `FaultsAssumption` and `ReadFaultsAssumption`,
`PlacesAssumption` (in an output directory no path is a file and a directory at
once, and each lies below it), `LimitsAssumption`, `MaxRunsAssumption`,
`ShortAssumption` (a chunk that finding 5 spoils is one of the LZ path and comes
back shorter, but not empty: `DecodesBack`, and its first token is a literal) and
`LenRangeAssumption` (a length has room for the damage that the storage does). What a
theorem needs beyond them it states itself, and the paragraphs below name it. TLC evaluates them in every run that extends the module.
`Spec` and `SystemSpec` have no fairness, so the theorems hold under any
scheduler. Those of the codec hold for every number of byte values, every window
of at most `Radix * Radix`, every hash function, chain depth, table size and
input (`RadixAssumption`, `LzAssumption`, `HashAssumption`,
`LzInputsAssumption`, `TableSizeAssumption`).

- `AxcFormatProofs`: what the helpers return (`SplitIntoChunks` gives chunks of
  the file's bytes, `ChunkRecord` a record and its payload, and so on), cited
  by the modules below. Sums, `SanitisePath` and `FlattenSeq` are recursive
  functions; `Climb` (a set of numbers that holds 0 and each successor holds
  all) is the induction that takes them apart. A fact by induction is stated for
  the set of lengths at which it is true.
- `CreateArchiveProofs`: `TypeCorrect == Spec => []TypeOK`. `TypeOK` alone is
  not inductive: a worker writes `slots[job[w].lo]`, and `PushEntry` reads
  `files[cur]`; `TypeInv` adds that `cur` is a file while one is in hand.
  `ChunkIdsUnique == Spec => []UniqueChunkIds` from `IdInv`: an id that a
  worker holds, that lies in a slot whose record is unwritten, or that is in
  the stream is below the counter and is in one of these places only. The ids
  move from the first to the last; `FetchAdd` brings in one above them all.
  `IdsAreBlocks == Spec => []BlockOfIds`. `PoolInv` says
  that the ranges that workers run or have put aside never overlap and cover
  only chunks without a record (so no worker overwrites another's slot, whoever
  steals what), and that a worker holding an id has a chunk to put it on.
  `BlockInv` adds that the ids in slots and hands are a subset of
  `base .. counter - 1` and that every number in that interval is one of them;
  when `collect()` returns nobody holds an id, and an injection between finite
  sets gives the count. `SerialIdsFollow == Spec => []SerialInOrder` from
  `SerialInv`: with one worker every range in its deque lies to the right of the one it
  runs, so the chunks before `job[w].lo` are exactly those done and `counter`
  is `base` plus their number.
- `CreateStreamProofs`: `WholeOrRefused == Spec => []NoFalseArchive` from
  `FooterInv`: before the footer is written no cell of the stream is a footer,
  and from `index_offset` on the stream is the index, entry by entry. The footer
  is the last cell of the stream, so a prefix that ends in a footer is the whole.
  `StreamSound`, from `StreamInv`, is what the reader's theorems start from: the
  cells of the stream are whole records, one for each chunk and in the files'
  order, then the entries. `FilesLieTogether == Spec => []FilesLaid`, for any
  number of workers: the records of a file follow each other in the order of its
  chunks, and `first_chunk` is the id of the first of them, whatever ids the
  others drew. `EntriesLeadToRecords`, from `SerialStreamInv`: with one worker a
  chunk's id says where its record is.
  `PayloadsInOrder == Spec => []SequentialOrder`, for any number of workers,
  from `OrderInv`: the stream's payloads are the bytes of the files before `cur`
  and then of the `written` records of the file in hand.

- `Lz77Proofs`: `LzTypes`, `ChainsAreFresh` and `LzDecodesBack` from `LzInv`.
  `ChainInv` explains the ring: an entered position owns its slot as long as
  the window reaches back to it (`SlotsApart`: positions that share a slot are
  a window apart), and its chain goes on from there to an older position of the
  same hash. A search at `pos` follows only chains within the window of `pos`,
  so it never sees a slot that was taken over. `MatchInv` says that what was
  matched so far are equal bytes, `SrcInv` that every token boundary of `out`
  stands for a position of the input and the token behind it for the bytes from
  there, `DecodeInv` that the decoder has reached a boundary and has the input
  up to it, or less if a match with the offset 0 was skipped. `SmallComesBack`:
  `[](Len(input) < OffsetRange + MinMatch => LzRoundTrip)`, since a match of
  `MinMatch` bytes at the distance `OffsetRange` lies in no shorter input, so that
  `NoWrap` is kept.
- `RansProofs`: `RansTypes`, `DecoderGoesBack` and `RansRoundTrip` from
  `RansInv`. `CdfInv` says that the symbols' slots follow each other; `Trail`
  that two neighbours in `trace` are one pushed byte or one encoded symbol
  apart. `MovedAndBack` is the arithmetic of one symbol, `AliasOwner` that a
  slot names its symbol. A pushed byte leaves a state below `TableSize`, an
  encoded symbol one that is not (`MovedUp`), so the decoder reads a byte
  exactly where one was pushed. The theorems do not need the sum to be
  `TableSize`, only not more: with more the decoder has panicked.
  `TableNeverShort == RansSpec => []NeverShort`: with `FillInv` the last
  cumulative sum is the sum of what `Normalise` gives. Rounding down loses less
  than one slot for each symbol that occurs (`EnoughOccur`), so there are as many
  symbols as slots are missing, and exactly so many have a rank below that number
  (`FirstOfOrder`: ranks in a strict order are different, and an interval has
  no room for more); downwards at most as many give one away as there are too
  many.
- `CodecProofs`: `CodecRunsLz77` and `CodecRunsRans` show that the pipeline
  implements the two codecs' specifications, `CodecIsExact` that the chunk comes
  back. The link is in `Stages`: while rANS works, what it was given is `out` or
  `input` as the flag says, so `RansExact` makes the argument of
  `lz77_decompress` what `lz77_compress` returned. `SmallChunkIsExact` puts
  the two together for the chunks that are too short for finding 5.
- `ReadArchiveProofs`, of `AxcSystem`, for every archive, damage and fault:
  `NothingTorn == SystemSpec => []NoTornFile` from `TornInv`. Until a file is
  created each one is finished or as it was, from then to its entry in
  `extracted` all but `Dest` are, and the errors that the code detects, and the
  panics, arise only before: `ReadChunk` has verified every chunk by then. `NothingTouched`
  from `KeepInv`: without `-f` the file in hand is never one that the command
  found.
- `AxcSystemProofs`, the archive from `axc c` to the last command. `UseInv`
  carries the creator's invariants over `Exit` (`CreatorInv`, of which nothing
  changes once the creator ended) and adds `ImgInv`, what the storage may have
  made of each cell, and `OpenInv`, what an archive that was opened guarantees:
  its footer is the creator's, so its stream is whole and its cells are the
  stream's but for the damaged one.
  - `ListIsComplete == SystemSpec => []ListTellsAll`: the entries are one for
    each file, and nothing between `PushEntry` and the table changes them.
  - `OnlyEntriesReplaced`: `[]NoClobber` if no name is damaged. With `-f` and a
    damaged name `Dest` may be any path, and the file there is replaced.
  - `ShuffledAlone`: `[]OnlyShuffledIsWrong` with any number of workers and
    `Covered` (the storage leaves ids, index entries and names alone), from
    `MapInv` (what the scan has put in `chunk_map` is a record of the stream or
    the damaged one) and `DataInv`: if the ids of the entry's file are in order
    (`OrderedFile`), `file_data` is its first `chunk_idx` chunks, and a finished
    file is a beginning of what was given or shuffled. The step is `ReadChunk`:
    both checksums hold, so the payload is that of a record with the id that was
    asked for; `FilesLaid` and unique ids make it the file's next chunk.
  - `OneWorkerOrders`: `[]AllOrdered` with one worker (`SerialOrders`: a record's
    place is its id). It turns each theorem about ordered archives into one about
    a pool of one: `BytesAreGiven` (`[]NoWrongByte`) and `PromiseIsKept` are such
    corollaries.
  - `OrderedIsKept == SystemSpec /\ []AllOrdered => PromiseKept`, the refinement
    of `ArchivePromise`, step by step, with `Covered`, paths that are
    apart (`PathsApart`: finding 3) and no lost flush or failing chmod in the
    reader. `PromiseInv` relates `extracted` and the entries passed to what is
    back: a path is in `extracted`, occupied before the command, or still to come.
  - `TestedIsExtractable == SystemSpec => []TestPredictsExtract`, without a
    hypothesis. `TrailInv` says that there is a set of positions, the trail, which
    a walk follows from the header to where it ends, and that every record on it
    passed its checks when `t` said OK: what `x` walks over is the same trail,
    also where a damaged tag or length ends it early, so every record that `x`
    notes is one that `t` verified. `GoodLength`: a record that passes its checks
    has no negative length, so the walk goes on forwards. An id that is not found
    leaves ids, entries or a tag damaged, or the ids out of order: with none of
    it (`Leads`), `ScanInv` says what `t` has verified up to `pos` record by
    record, that the heads of all records are then as they were written
    (`AllHeads`), and that `chunk_map` has the id of each record passed (`Noted`).
    `IndexDamaged` and `NameDamaged` find the cause of the other two errors.
  - `NoAlarmRaised == SystemSpec => []NoFalseAlarm`, without a hypothesis: as
    long as nothing has been damaged and the stream is on the disk to its end, a
    command stops only at an I/O error, a kill, a path in the output directory,
    a limit below the size of what was put in, or one of the three faults of the
    creator. `WholeRecord` says of a record what findings 5 and 6 do to it,
    `AlarmInv` that `DataInv` and `ScanInv` hold with every head as it was
    written, so the scan passes whole records, and every lookup hits if the ids
    are in order; `SpentInv` that `total` is then at most the size of the entries
    passed and what is in hand; `DoneInv` that a creator that came to its end
    has written the footer.
  - `ReaderTypes == SystemSpec => []ReadTypeOK` and `ExtractsInside ==
    SystemSpec => []StaysInside`, without a hypothesis: `PlaceInv` says that
    every path in the output directory is a non-empty list of normal
    components, whatever the names in the archive are; `CountInv` bounds the
    positions. That `SanitisePath` only gives such lists is an induction.
  - `LimitIsKept == SystemSpec => []LimitRespected`, without a hypothesis, from
    `SizeInv`: the bytes in the files extracted and those in hand are at most
    `total`, which is at most the limit. The sum over the files is an
    induction; a file that is written again takes the place of its old bytes.
  - `ChunksStayWhole`: `[]WholeChunksOnly` for any number of workers and any
    damage, ids, entries and names included. It assumes no lost flush in the reader, and
    `WritesApart`: either no write is cut short or no two names lead to one
    path, since a file finished once could be cut short the second time.
    `OneCell` says that the storage spoils one cell, `WholeInv` that
    what was put together is made of chunks that were given.

Finding 2 is why some of these theorems speak of ordered ids: with two workers the
bytes do come back in another order. The hypothesis is `AllOrdered`, which is about the
archive that was written and not about the pool, and it is met by every archive
of one worker (`OneWorkerOrders`), by every archive of one-chunk files, and by
any other whose workers happened to reach the chunks of each file in turn. It
becomes false with the entry of a file that is out of order, and no step makes it
true again, as nothing that was written is moved. The other hypotheses are those of
the runs that check the properties (section 3), where TLC reaches the cases they
speak of.

Only model-checked: `TreesComeBack` (a statement about the fixed arguments of
`MCSystem`), `StopsInTheWay`, `Termination`, `CommandEnds` and `CodecEnds` (liveness is beyond
the prover), and the properties of the runs that show the findings, which are
false.

## 6. What is not modelled

- **Byte widths of the container.** Offsets are small naturals; the `u16` name
  length and the `u32` token and payload lengths are not cut. The bytes of the
  tokens are, and `compressed_len` as an `i64`.
- **Damage to ids and entries** is in `misdirected` only: no code or document
  says they are protected, so `NoWrongByte` is not asked of it.
- **The bits and collisions** of CRC-32: `Crc32` is injective.
- **The codec's headers**: the serialised frequency table, the payload length,
  and the errors for a header that is too short. The decompressor's branches
  for a token cut short or an unknown tag: whole streams never take them, and a
  damaged one fails its checksum first.
- **Memory**: the allocations sized by fields of the file, but for a
  `compressed_len` of 2^63 or more, at which `vec!` panics.
- **Symbolic links** in the output directory.
- **mtime**, which is stored and printed but never restored; the printed tables and wording.
- **The previous contents of the output** and inputs that change while they are
  read; **a second process** on the output directory.
- `ChunkRecord::read` and `compress`, which nothing calls; the compression
  level, which nothing reads; a directory that cannot be listed, of which
  `collect_files` warns.

## 7. Plan

Done: the creator, the reader, the composed system and its refinement, file
collection, both codecs and their pipeline; the proofs of the creator's and the
reader's safety properties, of the refinement and of the codecs' exactness.

What would come next, in order:

1. A second process on the output directory (`dest.exists()` against
   `File::create`), and the truncation of an output that is also an input.
2. `Crc`: the table-driven loop against bitwise division, on a small width.
