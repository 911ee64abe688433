------------------------------ MODULE AxcSystem ------------------------------
(***************************************************************************)
(* The life of an archive: `axc c` writes it (CreateArchive), the storage  *)
(* that keeps it may damage one cell of it or lose its end, and a user     *)
(* runs extract, list and test on it (ReadArchive).                        *)
(***************************************************************************)
EXTENDS CreateArchive, ReadArchive

CONSTANT Damages  \* the kinds of damage that the storage may do

VARIABLES
  phase,    \* "create", then "use"
  damage,   \* history: what the storage did to the archive file
  tested    \* history: the last `axc t` on the file as it is said OK

createMemory == <<files, pc, cur, chunks, base, counter, job, deque, claim,
                  slots, packed, written, entries, out, flushed, index_offset>>
createVars   == <<createMemory, reported>>
readerVars   == <<outdir, options, rpc, locals, results, res, before, runs>>

systemVars == <<createVars, phase, damage, tested, img, readerVars>>

SystemInit ==
  /\ Init
  /\ img = <<>>
  /\ phase = "create" /\ damage = "none" /\ tested = FALSE
  /\ ReadInit

CreateStep == Step /\ UNCHANGED <<phase, damage, tested, img, readerVars>>
CreateKill == Kill /\ UNCHANGED <<phase, damage, tested, img, readerVars>>

\* The creator has exited: img is what it left, and nobody remembers the size
\* that it printed.
Exit ==
  /\ phase = "create" /\ pc \in Ended
  /\ phase' = "use"
  /\ img' = Disk
  /\ reported' = NoSize
  /\ UNCHANGED <<createMemory, damage, tested, readerVars>>

-----------------------------------------------------------------------------
(* Damage.  A damaged payload cell or tag reads as no known kind; a damaged *)
(* field holds another value of its type, a damaged checksum matches        *)
(* nothing.                                                                 *)

Junk     == [k |-> "junk"]
BadCrc32 == [crc |-> <<>>]

\* The cells that a kind of damage may leave in place of this one.
DamagedCells(cell, kind) ==
  LET Of(kinds, cells) == IF cell.k \in kinds THEN cells ELSE {}
  IN CASE kind = "payload" -> Of({"flag", "body"}, {Junk})
       [] kind = "tag"     -> Of({"chunk"}, {Junk})
       [] kind = "frame"   -> Of({"header", "entry", "footer"}, {Junk})
       [] kind = "version" -> Of({"header"}, {[cell EXCEPT !.version = 2]})
       [] kind = "footer"  -> Of({"footer"}, {[cell EXCEPT !.index_offset = @ - 1],
                                              [cell EXCEPT !.index_count = @ + 1]})
       [] kind = "crc"     -> Of({"chunk"}, {[cell EXCEPT !.checksum_orig = BadCrc32],
                                             [cell EXCEPT !.checksum_comp = BadCrc32]})
       [] kind = "length"  -> Of({"chunk"},
            UNION {{[cell EXCEPT !.original_len = @ + d],
                    [cell EXCEPT !.compressed_len = @ + d]} : d \in {-1, 1}})
       [] kind = "huge" -> Of({"chunk"},
            {[cell EXCEPT !.compressed_len = LenRange - d] : d \in 1 .. 4})
       [] kind = "id" -> Of({"chunk"}, {[cell EXCEPT !.id = @ + d] : d \in {-1, 1}})
       [] kind = "entry" -> Of({"entry"},
            UNION {{[cell EXCEPT !.e.first_chunk = @ + d],
                    [cell EXCEPT !.e.chunk_count = IF @ + d < 0 THEN 0 ELSE @ + d]} :
                      d \in {-1, 1}})
       [] kind = "name" -> Of({"entry"},
            {[cell EXCEPT !.e.name = name] :
               name \in {<<ParentDir, "a">>, <<RootDir, "a">>, <<"e", CurDir, "a">>}})
       [] OTHER -> {}

Spoil(kind) ==
  \/ \E i \in DOMAIN img : \E cell \in DamagedCells(img[i], kind) :
       img' = [img EXCEPT ![i] = cell]
  \/ /\ kind = "truncated"
     /\ \E n \in 0 .. Len(img) - 1 : img' = SubSeq(img, 1, n)

Damage ==
  /\ phase = "use" /\ rpc = "idle" /\ damage = "none"
  /\ \E kind \in Damages : Spoil(kind) /\ damage' = kind
  /\ tested' = FALSE
  /\ UNCHANGED <<createVars, phase, readerVars>>

-----------------------------------------------------------------------------
(* The commands. *)

Using ==
  /\ phase = "use"
  /\ tested' = IF cmd' = "t" /\ rpc' = "idle" THEN res' = "ok" ELSE tested
  /\ UNCHANGED <<createVars, phase, damage>>

UseStart == Command /\ Using
UseStep  == ReadStep /\ Using
UseFault == (IoError \/ Die) /\ Using

SystemNext ==
  \/ CreateStep \/ CreateKill \/ Exit
  \/ Damage
  \/ UseStart \/ UseStep \/ UseFault

SystemSpec == SystemInit /\ [][SystemNext]_systemVars

\* A program that was started runs on; nobody has to start one.
FairSystem ==
  /\ SystemSpec
  /\ WF_systemVars(CreateStep)
  /\ WF_systemVars(UseStep)
-----------------------------------------------------------------------------
(* Properties.  Given is what the user put in; Finished what the extraction *)
(* in hand, or the last one, says it extracted.                             *)

Stored(list) ==
  { [path |-> SanitisePath(f.name), data |-> f.data, mode |-> f.mode] :
      f \in Range(list) }

Given == Stored(files)

Finished == Range(extracted)

FileAt(path) == [path |-> path, data |-> fs[path].data, mode |-> fs[path].mode]

P == INSTANCE ArchivePromise WITH
       Files    <- UNION {Stored(list) : list \in Inputs},
       given    <- Given,
       asked    <- cmd = "x" /\ rpc # "idle",
       occupied <- IF overwrite THEN {} ELSE DOMAIN before.fs \cup before.dirs,
       back     <- {FileAt(path) : path \in Finished},
       answer   <- CASE cmd # "x" \/ res = "none" -> "none"
                     [] cmd = "x" /\ res = "ok" -> "ok"
                     [] OTHER -> "error"

\* Creating and extracting keep the promise of an archive: the abstract store,
\* which knows nothing of chunks, is what a user sees.  Every file comes back as
\* it was put in, and "ok" is said only when all did, except where a file stood
\* already and -f was not given: also after a run that died half way.
PromiseKept == P!Spec

\* The sums of the first numbers of a list, and of all.
Sums(list) ==
  LET sum[i \in 0 .. Len(list)] == IF i = 0 THEN 0 ELSE sum[i - 1] + list[i] IN sum
Total(list) == Sums(list)[Len(list)]

Sizes == Total([i \in DOMAIN files |-> Len(files[i].data)])

\* The record that the scan of `axc x` is at has a length that the cast to i64
\* makes negative (archive.rs:273): the scan goes on behind itself, and may come
\* by for ever.
PointsBack ==
  /\ rpc = "scan" /\ cmd = "x" /\ AtRecord
  /\ AsI64(img[pos + 1].compressed_len) < 0

\* Every command that is started comes to an end, whatever the storage has done
\* to the file, unless it gets to a record that points back.
CommandEnds == (rpc # "idle") ~> (rpc = "idle" \/ PointsBack)

\* No damage that a checksum or a tag covers ever puts a wrong byte into a file
\* that extraction reports: it holds the bytes that were put in, cut short at
\* most by the flush whose error is lost.
GivenBack(path) ==
  \E f \in Given : f.path = path /\ IsPrefix(fs[path].data, f.data)

NoWrongByte == cmd = "x" => \A path \in Finished : GivenBack(path)

\* A chunk record with this id starts there.
IdAt(p, id) == p \in DOMAIN out /\ IsChunk(out[p]) /\ out[p].id = id

\* The records that follow the first of the i-th file carry the ids that follow
\* its: extraction asks for these (archive.rs:337), and nothing but the order in
\* which the pool's workers reached the chunks has decided them.
OrderedFile(i) ==
  \A p \in DOMAIN out : IdAt(p, entries[i].first_chunk) =>
    \A k \in 1 .. entries[i].chunk_count - 1 :
      IdAt(p + 3 * k, entries[i].first_chunk + k)

\* In the archive that one worker wrote the ids from each entry's first_chunk on
\* lead to the file's records, in their order.
AllOrdered == \A i \in DOMAIN entries : OrderedFile(i)

\* The contents of the chunks that were put in.
GivenChunks == UNION {Range(SplitIntoChunks(f.data)) : f \in Given}

\* How extract_archive can fail on the output directory.
OutputErrors == {"Io", "AlreadyExists", "NotADirectory", "IsADirectory", "PermissionDenied"}

\* An archive that is on the disk to its end and was not damaged since is refused
\* for what the user or the output directory is the cause of, or for one of three
\* faults of its creator, each in its own way: a chunk is missing only if ids are
\* out of order (finding 2), a checksum fails only if a chunk was put in that the
\* LZ77 window spoils (finding 5), a command panics only if one was whose
\* frequencies do not fit their table (finding 6).
NoFalseAlarm ==
  pc = "done" /\ flushed = Len(out) /\ damage = "none" =>
    /\ res \in {"none", "ok", "killed", "DecompressionBomb", "InvalidChunk",
               "ChecksumMismatch", "panic"} \cup OutputErrors
    /\ res = "InvalidChunk" => ~AllOrdered
    /\ res = "ChecksumMismatch" => GivenChunks \cap DOMAIN Short # {}
    /\ res = "panic" => GivenChunks \cap PanicChunks # {}
    /\ res = "DecompressionBomb" => ~AllOrdered \/ Sizes > limit

\* With any number of workers: a file comes back right, or its own chunks have
\* their ids out of order.  What the workers did with other files of the archive
\* does it no harm.
Shuffled(path) ==
  \E i \in DOMAIN entries : SanitisePath(entries[i].name) = path /\ ~ OrderedFile(i)

OnlyShuffledIsWrong ==
  cmd = "x" => \A path \in Finished : GivenBack(path) \/ Shuffled(path)

\* The command in hand has stopped by itself, and not well.
StoppedItself == res \notin {"none", "ok", "Io", "killed"}

\* When extraction stops by itself, at an error that it detects or in a panic,
\* every file of the output directory is one that it finished or is as it was:
\* none is half written.
NoTornFile ==
  StoppedItself =>
    \A path \in DOMAIN fs :
      \/ path \in Finished
      \/ path \in DOMAIN before.fs /\ fs[path] = before.fs[path]

\* Without -f no file that was there is touched, by whatever path through the
\* code; with -f none is that the archive has no entry for.
NoClobber ==
  \A path \in DOMAIN before.fs :
    ~overwrite \/ (\A f \in Given : f.path # path)
      => path \in DOMAIN fs /\ fs[path] = before.fs[path]

\* "Total decompressed output is tracked across all chunks" (README.md:190): the
\* files of one extraction never hold more than its limit together.  A file that
\* was extracted more than once, as -f allows, counts for what it holds now.
LastOf(i) == \A j \in i + 1 .. Len(extracted) : extracted[j] # extracted[i]

Held == [i \in DOMAIN extracted |->
           IF LastOf(i) THEN Len(fs[extracted[i]].data) ELSE 0]

LimitRespected == cmd = "x" => Total(Held) <= limit

\* `axc l` prints what was put in.
ListTellsAll ==
  cmd = "l" /\ res = "ok" /\ pc = "done" /\ damage = "none" =>
    Listed = [i \in DOMAIN files |-> [name        |-> files[i].name,
                                     size        |-> Len(files[i].data),
                                     chunk_count |-> ChunkCount(files[i].data)]]

\* The data can be cut into pieces.
MadeOf(data, pieces) ==
  \E cuts \in SUBSET (0 .. Len(data)) :
    /\ {0, Len(data)} \subseteq cuts
    /\ \A a \in cuts \ {Len(data)} : \E b \in cuts :
         a < b /\ SubSeq(data, a + 1, b) \in pieces

\* No checksum covers a chunk's id or an index entry (format.rs:124, 184).  What
\* extraction reports is nevertheless made of chunks that were put in, each of
\* them whole: damage there can misplace chunks, never alter one.
WholeChunksOnly ==
  cmd = "x" => \A path \in Finished : MadeOf(fs[path].data, GivenChunks)

\* "Sanitise a path from the archive so it never escapes the output directory"
\* (archive.rs:27): whatever name an entry has got, every path that extraction
\* makes, a directory on the way to a file included, stays below it.
StaysInside ==
  \A path \in DOMAIN fs \cup dirs : \A i \in DOMAIN path : Normal(path[i])

\* Whatever the storage did to the archive before `axc t` called it OK, `axc x`
\* then meets no chunk that is cut short, fails a checksum or cannot be decoded,
\* and what it can still stumble over is what `axc t` never looks at: a tag at
\* which the walk ended early (finding 4), ids and entries that do not lead to
\* each other, by damage or from the start (finding 2), an entry that is none, a
\* name that leads outside.
TestPredictsExtract ==
  tested /\ cmd = "x" =>
    /\ res \in {"none", "ok", "killed", "DecompressionBomb", "InvalidChunk",
               "InvalidHeader", "PathTraversal"} \cup OutputErrors
    /\ res = "InvalidChunk" => damage \in {"tag", "id", "entry"} \/ ~AllOrdered
    /\ res = "InvalidHeader" => damage = "frame"
    /\ res = "PathTraversal" => damage = "name"

\* Where the i-th file goes, and that extraction was through with all before it.
PathOf(i) == SanitisePath(files[i].name)

ThroughTo(i) ==
  \A j \in 1 .. i - 1 :
    \/ PathOf(j) \in Finished
    \/ ~overwrite /\ PathOf(j) \in DOMAIN before.fs \cup before.dirs

\* A path of the output directory stops an extraction only where it stands in a
\* file's way, and only after the files before that one: a read-only file, as an
\* earlier extraction may have left it, or a directory in its place only with -f,
\* and a file where a directory is to go.
StopsInTheWay ==
  damage = "none" =>
    /\ res = "PermissionDenied" => overwrite /\ \E i \in DOMAIN files :
         /\ PathOf(i) \in DOMAIN before.fs /\ before.fs[PathOf(i)].mode = "ro"
         /\ ThroughTo(i)
    /\ res = "IsADirectory" => overwrite /\ \E i \in DOMAIN files :
         PathOf(i) \in before.dirs /\ ThroughTo(i)
    /\ res \in {"AlreadyExists", "NotADirectory"} => \E i \in DOMAIN files :
         Parents(PathOf(i)) \cap DOMAIN before.fs # {} /\ ThroughTo(i)

\* "Extract all files from an AXC archive" (archive.rs:297): after an extraction
\* into an empty directory that ends well, every file that was put in is there.
ExtractsAllFiles ==
  cmd = "x" /\ res = "ok" /\ before.fs = <<>> /\ before.dirs = {} =>
    \A f \in Given : f.path \in DOMAIN fs /\ fs[f.path].data = f.data

\* "Verify all chunks in the archive" (archive.rs:404): when `axc t` ends well it
\* has verified as many chunks as were put in.
TestsAllChunks ==
  cmd = "t" /\ res = "ok" =>
    verified = Total([i \in DOMAIN entries |-> entries[i].chunk_count])
=============================================================================
