----------------------------- MODULE ReadArchive -----------------------------
(***************************************************************************)
(* `axc x`, `axc l` and `axc t`: extract_archive, list_archive and         *)
(* test_archive (archive.rs), as main.rs calls them one after another on   *)
(* the archive file img and on one output directory.                       *)
(*                                                                         *)
(* A command reads the header, the footer and (x and l) the index, then    *)
(* walks the chunk records: `t` verifies each, `x` notes in a map where    *)
(* each chunk id lies.  `x` then takes the entries one by one, puts a      *)
(* file together in memory and only then creates it.                       *)
(*                                                                         *)
(* The output directory is a function fs from the paths of its files to    *)
(* what they hold, and the set dirs of its directories.                    *)
(***************************************************************************)
EXTENDS AxcFormat, FiniteSets

CONSTANTS
  ReadFaults,  \* the faults of the environment that this instance has
  Limits,      \* the decompression limits a user may ask for
  Places,      \* the output directories a first command may find
  MaxRuns      \* bound: how many commands are run

ASSUME ReadFaultsAssumption == ReadFaults \subseteq {"io", "drop", "chmod", "kill"}
ASSUME LimitsAssumption     == Limits \subseteq Nat
ASSUME MaxRunsAssumption    == MaxRuns \in Nat
\* No path is a file and a directory at once, and every one lies below the
\* output directory.
ASSUME PlacesAssumption ==
  \A place \in Places :
    /\ DOMAIN place.fs \cap place.dirs = {}
    /\ \A path \in DOMAIN place.fs \cup place.dirs :
         path # <<>> /\ \A i \in DOMAIN path : Normal(path[i])

VARIABLES
  img,                    \* the archive file; commands only read it
  fs, dirs,               \* the output directory
  cmd, overwrite, limit,  \* the command and its options
  rpc,                    \* where it is, "idle" when there is none
  pos,                    \* position of the scan over the chunk records
  chunk_map,              \* chunk id -> where its payload is, and its header
  ent, chunk_idx,         \* the entry and the chunk of it that x is at
  file_data,              \* what x has put together of that entry
  total,                  \* total_decompressed
  extracted,              \* extracted_paths
  verified,               \* chunk_count of test_archive
  res,                    \* how the last command ended, "none" before that
  before,                 \* history: the output directory when it started
  runs                    \* how many commands were started

outdir   == <<fs, dirs>>
options  == <<cmd, overwrite, limit>>
locals   == <<pos, chunk_map, ent, chunk_idx, file_data>>
results  == <<total, extracted, verified>>
readVars == <<img, outdir, options, rpc, locals, results, res, before, runs>>

ResetLocals ==
  /\ pos' = 0 /\ chunk_map' = <<>>
  /\ ent' = 1 /\ chunk_idx' = 0 /\ file_data' = <<>>

ReadInit ==
  /\ \E place \in Places : fs = place.fs /\ dirs = place.dirs
  /\ cmd = "none" /\ overwrite = FALSE /\ limit = 0
  /\ rpc = "idle"
  /\ pos = 0 /\ chunk_map = <<>> /\ ent = 1 /\ chunk_idx = 0 /\ file_data = <<>>
  /\ total = 0 /\ extracted = <<>> /\ verified = 0
  /\ res = "none" /\ before = [fs |-> fs, dirs |-> dirs] /\ runs = 0

\* A command is started when no other runs.
Start(c, o, l) ==
  /\ rpc = "idle" /\ runs < MaxRuns
  /\ cmd' = c /\ overwrite' = o /\ limit' = l
  /\ rpc' = "open"
  /\ total' = 0 /\ extracted' = <<>> /\ verified' = 0 /\ res' = "none"
  /\ before' = [fs |-> fs, dirs |-> dirs]
  /\ runs' = runs + 1
  /\ UNCHANGED <<img, outdir, locals>>

\* Return from the command, with "ok", the name of the AxcError or, for
\* AxcError::Io, the kind of io::Error in it; or the process panics.
Finish(result) ==
  /\ rpc' = "idle" /\ res' = result
  /\ ResetLocals
  /\ UNCHANGED <<img, options, before, runs>>

Continue(next) ==
  /\ rpc' = next
  /\ UNCHANGED <<img, options, res, before, runs>>

-----------------------------------------------------------------------------
(* Opening: FileHeader::read, Footer::read and the loop over the index;    *)
(* test_archive does not look at the index.                                *)

OpenError(withIndex) ==
  IF ReadHeader(img) # "ok" THEN ReadHeader(img)
  ELSE IF ReadFooter(img) # "ok" THEN ReadFooter(img)
  ELSE IF withIndex THEN ReadIndex(img)
  ELSE "ok"

OpenRefused ==
  /\ rpc = "open"
  /\ OpenError(cmd # "t") # "ok"
  /\ Finish(OpenError(cmd # "t"))
  /\ UNCHANGED <<outdir, results>>

\* list_archive reads no chunk.
OpenList ==
  /\ rpc = "open" /\ cmd = "l"
  /\ OpenError(TRUE) = "ok"
  /\ Finish("ok")
  /\ UNCHANGED <<outdir, results>>

\* The scan starts at SeekFrom::Start(32): behind the header.
StartScan ==
  /\ Continue("scan")
  /\ pos' = 1
  /\ UNCHANGED <<chunk_map, ent, chunk_idx, file_data, outdir, results>>

OpenExtract == rpc = "open" /\ cmd = "x" /\ OpenError(TRUE) = "ok" /\ StartScan
OpenTest    == rpc = "open" /\ cmd = "t" /\ OpenError(FALSE) = "ok" /\ StartScan

Entries == IndexEntries(img)

\* Mutation: every chunk is taken for a full one.
ListedFull ==
  [i \in DOMAIN Entries |-> [name        |-> Entries[i].name,
                             size        |-> Entries[i].chunk_count * ChunkSize,
                             chunk_count |-> Entries[i].chunk_count]]

\* The table that `axc l` prints.
Listed ==
  [i \in DOMAIN Entries |-> [name        |-> Entries[i].name,
                             size        |-> Entries[i].original_size,
                             chunk_count |-> Entries[i].chunk_count]]

-----------------------------------------------------------------------------
(* The walk over the chunk records. *)

\* Mutation: the loop ends one record before the index.
AtRecordButLast ==
  /\ pos + 3 < LastCell(img).index_offset
  /\ pos < Len(img)
  /\ img[pos + 1].k = "chunk"

\* Both loops stop at the index, at the end of the file and at a foreign tag.
AtRecord ==
  /\ pos < LastCell(img).index_offset
  /\ pos < Len(img)
  /\ img[pos + 1].k = "chunk"

\* Mutation: what was decompressed is not checked.
ChunkErrorComp(at, record) ==
  LET payload == SubSeq(img, at + 1, at + record.compressed_len)
  IN IF AsI64(record.compressed_len) < 0 THEN "panic"
     ELSE IF at + record.compressed_len > Len(img) THEN "UnexpectedEof"
     ELSE IF Crc32(payload) # record.checksum_comp THEN "ChecksumMismatch"
     ELSE IF ~Decodable(payload) THEN "CodecError"
     ELSE IF DecoderPanics(payload, record.original_len) THEN "panic"
     ELSE "none"

\* What the payload that starts at offset `at` meets, in the code's order: a
\* buffer of more than isize::MAX bytes is a capacity overflow, which panics.
ChunkError(at, record) ==
  LET payload == SubSeq(img, at + 1, at + record.compressed_len)
  IN IF AsI64(record.compressed_len) < 0 THEN "panic"
     ELSE IF at + record.compressed_len > Len(img) THEN "UnexpectedEof"
     ELSE IF Crc32(payload) # record.checksum_comp THEN "ChecksumMismatch"
     ELSE IF ~Decodable(payload) THEN "CodecError"
     ELSE IF DecoderPanics(payload, record.original_len) THEN "panic"
     ELSE IF Crc32(Decompress(payload, record.original_len)) # record.checksum_orig
     THEN "ChecksumMismatch"
     ELSE "none"

\* build_chunk_map: insert replaces an older record with the same id.  The seek
\* behind the payload is relative and takes the length as an i64: it may go back,
\* and fails before the start of the file.
ScanRecord ==
  /\ rpc = "scan" /\ cmd = "x" /\ AtRecord
  /\ LET record == img[pos + 1]
         target == pos + 1 + AsI64(record.compressed_len)
     IN \/ target < 0 /\ Finish("InvalidInput")
        \/ /\ target >= 0
           /\ chunk_map' =
                [id \in DOMAIN chunk_map \cup {record.id} |->
                   IF id = record.id THEN [at |-> pos + 1, record |-> record]
                   ELSE chunk_map[id]]
           /\ pos' = target
           /\ Continue("scan")
           /\ UNCHANGED <<ent, chunk_idx, file_data>>
  /\ UNCHANGED <<outdir, results>>

ScanEnd ==
  /\ rpc = "scan" /\ cmd = "x" /\ ~AtRecord
  /\ Continue("entry")
  /\ UNCHANGED <<outdir, locals, results>>

TestRecord ==
  /\ rpc = "scan" /\ cmd = "t" /\ AtRecord
  /\ LET record == img[pos + 1]
         error  == ChunkError(pos + 1, record)
     IN \/ error # "none" /\ Finish(error) /\ verified' = verified
        \/ /\ error = "none"
           /\ verified' = verified + 1
           /\ pos' = pos + 1 + record.compressed_len
           /\ Continue("scan")
           /\ UNCHANGED <<chunk_map, ent, chunk_idx, file_data>>
  /\ UNCHANGED <<outdir, total, extracted>>

\* Mutation: the loop may end before the index.
TestEndEarly ==
  /\ rpc = "scan" /\ cmd = "t"
  /\ Finish("ok")
  /\ UNCHANGED <<outdir, results>>

TestEnd ==
  /\ rpc = "scan" /\ cmd = "t" /\ ~AtRecord
  /\ Finish("ok")
  /\ UNCHANGED <<outdir, results>>

-----------------------------------------------------------------------------
(* Extraction, entry by entry. *)

Entry == Entries[ent]
Dest  == SanitisePath(Entry.name)

\* dest.exists() follows create_dir_all, which fails below a file.
Exists(path) == path \in DOMAIN fs \cup dirs
Blocked(path) == \E parent \in Parents(path) : parent \in DOMAIN fs

\* mkdir finds the file in the place of the directory or on the way to it.
BlockedError(path) ==
  IF SubSeq(path, 1, Len(path) - 1) \in DOMAIN fs THEN "AlreadyExists"
  ELSE "NotADirectory"

RefuseEntry ==
  /\ rpc = "entry" /\ ent <= Len(Entries)
  /\ \/ Dest = <<>> /\ Finish("PathTraversal")
     \/ Dest # <<>> /\ Blocked(Dest) /\ Finish(BlockedError(Dest))
  /\ UNCHANGED <<outdir, results>>

EntryReady ==
  /\ rpc = "entry" /\ ent <= Len(Entries)
  /\ Dest # <<>> /\ ~Blocked(Dest)
  /\ dirs' = dirs \cup Parents(Dest)

\* Mutation: an entry that is skipped is looked at again.
SkipEntryAgain ==
  /\ EntryReady
  /\ Exists(Dest) /\ ~overwrite
  /\ Continue("entry")
  /\ UNCHANGED <<fs, locals, results>>

SkipEntry ==
  /\ EntryReady
  /\ Exists(Dest) /\ ~overwrite
  /\ ent' = ent + 1
  /\ Continue("entry")
  /\ UNCHANGED <<fs, pos, chunk_map, chunk_idx, file_data, results>>

\* Mutations: what was put together for the file before is kept; the file is
\* emptied before its chunks are read; an existing file is not skipped; the
\* limit is one of each file.
StartEntryKeeps ==
  /\ EntryReady
  /\ ~Exists(Dest) \/ overwrite
  /\ chunk_idx' = 0
  /\ Continue("chunks")
  /\ UNCHANGED <<fs, pos, chunk_map, ent, file_data, results>>

StartEntryEmpties ==
  /\ EntryReady
  /\ ~Exists(Dest) \/ overwrite
  /\ fs' = [p \in DOMAIN fs \cup {Dest} |->
              IF p = Dest THEN [data |-> <<>>, mode |-> "rw"] ELSE fs[p]]
  /\ chunk_idx' = 0 /\ file_data' = <<>>
  /\ Continue("chunks")
  /\ UNCHANGED <<pos, chunk_map, ent, results>>

StartEntryAnyway ==
  /\ EntryReady
  /\ chunk_idx' = 0 /\ file_data' = <<>>
  /\ Continue("chunks")
  /\ UNCHANGED <<fs, pos, chunk_map, ent, results>>

StartEntryPerFile ==
  /\ EntryReady
  /\ ~Exists(Dest) \/ overwrite
  /\ chunk_idx' = 0 /\ file_data' = <<>> /\ total' = 0
  /\ Continue("chunks")
  /\ UNCHANGED <<fs, pos, chunk_map, ent, extracted, verified>>

StartEntry ==
  /\ EntryReady
  /\ ~Exists(Dest) \/ overwrite
  /\ chunk_idx' = 0 /\ file_data' = <<>>
  /\ Continue("chunks")
  /\ UNCHANGED <<fs, pos, chunk_map, ent, results>>

ReadChunk ==
  /\ rpc = "chunks" /\ chunk_idx < Entry.chunk_count
  /\ LET id      == Entry.first_chunk + chunk_idx
         error   == IF id \notin DOMAIN chunk_map THEN "InvalidChunk"
                    ELSE ChunkError(chunk_map[id].at, chunk_map[id].record)
         payload == SubSeq(img, chunk_map[id].at + 1,
                      chunk_map[id].at + chunk_map[id].record.compressed_len)
         decompressed == Decompress(payload, chunk_map[id].record.original_len)
     IN \/ error # "none" /\ Finish(error) /\ total' = total
        \/ /\ error = "none"
           /\ total' = total + Len(decompressed)
           /\ \/ total' > limit /\ Finish("DecompressionBomb")
              \/ /\ total' <= limit
                 /\ file_data' = file_data \o decompressed
                 /\ chunk_idx' = chunk_idx + 1
                 /\ Continue("chunks")
                 /\ UNCHANGED <<pos, chunk_map, ent>>
  /\ UNCHANGED <<outdir, extracted, verified>>

SetFile(path, data, mode) ==
  fs' = [p \in DOMAIN fs \cup {path} |->
           IF p = path THEN [data |-> data, mode |-> mode] ELSE fs[p]]

\* Mutation: a directory does not stop File::create.
CreatableDir(path) == path \in DOMAIN fs => fs[path].mode # "ro"

\* File::create fails on a directory and on a read-only file; otherwise it
\* empties the file, or makes one with the default mode.
Creatable(path) == path \notin dirs /\ (path \in DOMAIN fs => fs[path].mode # "ro")

CreateFile ==
  /\ rpc = "chunks" /\ chunk_idx = Entry.chunk_count
  /\ \/ /\ Creatable(Dest)
        /\ SetFile(Dest, <<>>, IF Dest \in DOMAIN fs THEN fs[Dest].mode ELSE "rw")
        /\ Continue("write")
        /\ UNCHANGED locals
     \/ /\ ~Creatable(Dest)
        /\ Finish(IF Dest \in dirs THEN "IsADirectory" ELSE "PermissionDenied")
        /\ UNCHANGED fs
  /\ UNCHANGED <<dirs, results>>

\* What an interrupted write may leave in the file.
TornWrite ==
  \E n \in 0 .. Len(file_data) : SetFile(Dest, SubSeq(file_data, 1, n), fs[Dest].mode)

\* write_all, and the flush that dropping the BufWriter does: write_all reports
\* its error, the drop does not.
WriteFile ==
  /\ rpc = "write"
  /\ \/ /\ \/ SetFile(Dest, file_data, fs[Dest].mode)
           \/ "drop" \in ReadFaults /\ TornWrite
        /\ Continue("mode")
        /\ UNCHANGED locals
     \/ /\ "io" \in ReadFaults
        /\ TornWrite
        /\ Finish("Io")
  /\ UNCHANGED <<dirs, results>>

\* `let _ = set_permissions(..)`, then the path goes to the result.
SetMode ==
  /\ rpc = "mode"
  /\ \/ SetFile(Dest, fs[Dest].data, Entry.mode)
     \/ "chmod" \in ReadFaults /\ UNCHANGED fs
  /\ extracted' = Append(extracted, Dest)
  /\ ent' = ent + 1
  /\ Continue("entry")
  /\ UNCHANGED <<dirs, pos, chunk_map, chunk_idx, file_data, total, verified>>

EndExtract ==
  /\ rpc = "entry" /\ ent > Len(Entries)
  /\ Finish("ok")
  /\ UNCHANGED <<outdir, results>>

-----------------------------------------------------------------------------
(* The environment. *)

\* What an interrupted create_dir_all leaves: it makes the outermost first.
SomeParents ==
  /\ rpc = "entry" /\ ent <= Len(Entries)
  /\ Dest # <<>> /\ ~Blocked(Dest)
  /\ \E n \in 0 .. Len(Dest) - 1 : dirs' = dirs \cup {SubSeq(Dest, 1, i) : i \in 1 .. n}

\* A read, a create_dir_all or a File::create fails.
IoError ==
  /\ "io" \in ReadFaults
  /\ rpc \in {"open", "scan", "entry", "chunks"}
  /\ SomeParents \/ UNCHANGED dirs
  /\ Finish("Io")
  /\ UNCHANGED <<fs, results>>

\* The process dies; a write or a create_dir_all that was under way may be cut
\* short.
Die ==
  /\ "kill" \in ReadFaults
  /\ rpc # "idle"
  /\ \/ rpc = "write" /\ TornWrite
     \/ UNCHANGED fs
  /\ SomeParents \/ UNCHANGED dirs
  /\ Finish("killed")
  /\ UNCHANGED results

-----------------------------------------------------------------------------
ReadStep ==
  \/ OpenRefused \/ OpenList \/ OpenExtract \/ OpenTest
  \/ ScanRecord \/ ScanEnd \/ TestRecord \/ TestEnd
  \/ RefuseEntry \/ SkipEntry \/ StartEntry \/ ReadChunk \/ CreateFile
  \/ WriteFile \/ SetMode \/ EndExtract

\* A user runs `axc x` with or without -f and under some --limit, l or t.
ExtractCommand == \E o \in BOOLEAN, l \in Limits : Start("x", o, l)
ListCommand    == Start("l", FALSE, 0)
TestCommand    == Start("t", FALSE, 0)

Command == ExtractCommand \/ ListCommand \/ TestCommand

ReadNext == Command \/ ReadStep \/ IoError \/ Die
-----------------------------------------------------------------------------
\* The types of the reader: no path is a file and a directory at once, and
\* extract_archive returns only paths where it left a file.
ReadTypeOK ==
  /\ \A path \in DOMAIN fs : path # <<>> /\ path \notin dirs
  /\ cmd \in {"none", "x", "l", "t"}
  /\ overwrite \in BOOLEAN
  /\ limit \in Limits \cup {0}
  /\ rpc \in {"idle", "open", "scan", "entry", "chunks", "write", "mode"}
  /\ rpc \in {"entry", "chunks", "write", "mode"} => cmd = "x"
  /\ pos \in Nat /\ ent \in Nat /\ chunk_idx \in Nat
  /\ \A id \in DOMAIN chunk_map : chunk_map[id].at \in 0 .. Len(img)
  /\ total \in Nat /\ verified \in Nat
  /\ \A i \in DOMAIN extracted : extracted[i] \in DOMAIN fs
  /\ res = "none" \/ rpc = "idle"
  /\ runs \in 0 .. MaxRuns
=============================================================================
