---------------------------- MODULE CreateArchive ----------------------------
(***************************************************************************)
(* `axc c`: create_archive (archive.rs) writing through the BufWriter that *)
(* cmd_create (main.rs) puts around the archive file.                      *)
(*                                                                         *)
(* The main thread walks the input files.  For each file it hands the      *)
(* chunks to rayon's thread pool, waits for every chunk record, writes the *)
(* records in chunk order and remembers an index entry; after the last     *)
(* file it writes the index and the footer.  The pool's workers draw chunk *)
(* ids from one atomic counter as they reach a chunk.                      *)
(*                                                                         *)
(* out is every cell handed to the BufWriter so far and flushed how many   *)
(* of them the file system has: the rest sits in the writer's buffer.      *)
(***************************************************************************)
EXTENDS AxcFormat, FiniteSets, SequencesExt

CONSTANTS
  Workers,   \* the threads of rayon's global pool
  Inputs,    \* the possible lists of input files
  Faults     \* the faults of the environment that this instance has

\* What fs::read and metadata() find at the paths that collect_files lists.
InputFiles == [name : Seq(STRING), data : Seq(Bytes), mode : STRING]

ASSUME InputsAssumption  == \A list \in Inputs : list \in Seq(InputFiles)
ASSUME WorkersAssumption == Workers # {}
ASSUME FaultsAssumption  == Faults \subseteq {"read", "io", "drop", "kill"}

NoId   == -1
NoSize == -1

VARIABLES
  files,         \* the (archive_name, src_path) list, with what the paths hold
  pc,            \* where the main thread is
  cur,           \* the file it is at
  chunks,        \* raw_chunks of that file
  counter,       \* chunk_id_counter
  job,           \* the range of chunks each worker runs, empty when lo > hi
  deque,         \* the ranges each worker has put aside for thieves
  claim,         \* the id a worker drew for the chunk it is compressing
  slots,         \* compressed_chunks: the id in each record ...
  packed,        \* ... and the contents that its payload and checksums are of
  base,          \* history: counter when the file's chunks were handed out
  written,       \* records of the file (or entries of the index) written
  entries,       \* file_entries
  out, flushed,  \* the byte stream and the part of it that is in the file
  index_offset,  \* where the index starts
  reported       \* archive_size as cmd_create prints it

poolVars == <<counter, job, deque, claim, slots, packed>>
fileVars == <<cur, chunks, base>>
outVars  == <<out, flushed>>
vars == <<files, pc, fileVars, poolVars, written, entries, outVars,
          index_offset, reported>>

Ranges  == [lo : Nat, hi : Nat, leaf : BOOLEAN]
Idle(w) == job[w].lo > job[w].hi
NoJob   == [lo |-> 1, hi |-> 0, leaf |-> FALSE]
Ended   == {"done", "failed", "killed"}

\* The archive file as another process would read it.
Disk == SubSeq(out, 1, flushed)

Init ==
  /\ files \in Inputs
  /\ pc = "header"
  /\ cur = 1 /\ chunks = <<>> /\ base = 0
  /\ counter = 0
  /\ job = [w \in Workers |-> NoJob]
  /\ deque = [w \in Workers |-> {}]
  /\ claim = [w \in Workers |-> NoId]
  /\ slots = <<>> /\ packed = <<>>
  /\ written = 0 /\ entries = <<>>
  /\ out = <<>> /\ flushed = 0
  /\ index_offset = 0 /\ reported = NoSize

-----------------------------------------------------------------------------
(* Writing.  A write appends to the stream and may push any part of the    *)
(* buffer out; when the push fails, part of it may have reached the file,  *)
(* the error goes up to die() and the buffer is lost.                      *)

Written(next) ==
  /\ flushed' \in flushed .. Len(out')
  /\ pc' = next

WriteFailed ==
  /\ "io" \in Faults
  /\ flushed' \in flushed .. Len(out')
  /\ pc' = "failed"

Emit(cells, next) ==
  /\ out' = out \o cells
  /\ Written(next) \/ WriteFailed

WriteHeader ==
  /\ pc = "header"
  /\ Emit(<<HeaderCell>>, "file")
  /\ UNCHANGED <<files, fileVars, poolVars, written, entries, index_offset,
                 reported>>

-----------------------------------------------------------------------------
(* One iteration of the loop over the input files. *)

\* Mutation: a file that cannot be read is tried again.
RefuseFileRetry ==
  /\ pc = "file" /\ cur <= Len(files)
  /\ SanitisePath(files[cur].name) = <<>> \/ "read" \in Faults
  /\ UNCHANGED vars

\* sanitise_path(archive_name)? or fs::read(src_path)? fails.
RefuseFile ==
  /\ pc = "file" /\ cur <= Len(files)
  /\ SanitisePath(files[cur].name) = <<>> \/ "read" \in Faults
  /\ pc' = "failed"
  /\ UNCHANGED <<files, fileVars, poolVars, written, entries, outVars,
                 index_offset, reported>>

\* The chunks of a file become one parallel job, injected into the pool; an
\* empty file has no chunk and no job.
StartFile ==
  /\ pc = "file" /\ cur <= Len(files)
  /\ SanitisePath(files[cur].name) # <<>>
  /\ chunks' = SplitIntoChunks(files[cur].data)
  /\ slots' = [i \in DOMAIN chunks' |-> NoId]
  /\ packed' = [i \in DOMAIN chunks' |-> <<>>]
  /\ base' = counter
  /\ written' = 0
  /\ \E w \in Workers :
       job' = [job EXCEPT ![w] = [lo |-> 1, hi |-> Len(chunks'), leaf |-> FALSE]]
  /\ pc' = "compress"
  /\ UNCHANGED <<files, cur, counter, deque, claim, entries, outVars,
                 index_offset, reported>>

-----------------------------------------------------------------------------
(* The pool.  rayon halves a range before it starts to run it, keeps the   *)
(* left half and puts the right one in its deque; a range that has been    *)
(* started (a leaf) is run from left to right.  A worker that runs out of  *)
(* work takes the newest range of its own deque (the leftmost) or else the *)
(* oldest of another's (the rightmost).                                    *)

poolOnly == <<files, pc, fileVars, written, entries, outVars, index_offset,
              reported>>

Split(w) ==
  /\ pc = "compress"
  /\ job[w].lo < job[w].hi /\ ~job[w].leaf
  /\ LET mid == job[w].lo + (job[w].hi - job[w].lo + 1) \div 2
     IN /\ job' = [job EXCEPT ![w].hi = mid - 1]
        /\ deque' = [deque EXCEPT ![w] =
                       @ \cup {[lo |-> mid, hi |-> job[w].hi, leaf |-> FALSE]}]
  /\ UNCHANGED <<counter, claim, slots, packed, poolOnly>>

\* Mutation: a load and a store, between which another worker's may fall.
FetchAddLost(w) ==
  /\ pc = "compress"
  /\ ~Idle(w) /\ claim[w] = NoId
  /\ claim' = [claim EXCEPT ![w] = counter]
  /\ counter' \in {counter, counter + 1}
  /\ job' = [job EXCEPT ![w].leaf = TRUE]
  /\ UNCHANGED <<deque, slots, packed, poolOnly>>

\* chunk_id_counter.fetch_add(1): the worker reaches its next chunk.
FetchAdd(w) ==
  /\ pc = "compress"
  /\ ~Idle(w) /\ claim[w] = NoId
  /\ claim' = [claim EXCEPT ![w] = counter]
  /\ counter' = counter + 1
  /\ job' = [job EXCEPT ![w].leaf = TRUE]
  /\ UNCHANGED <<deque, slots, packed, poolOnly>>

\* Mutation: records are pushed in the order in which they get ready.
CompressPush(w) ==
  /\ pc = "compress"
  /\ claim[w] # NoId
  /\ slots' = Append(slots, claim[w])
  /\ packed' = Append(packed, chunks[job[w].lo])
  /\ claim' = [claim EXCEPT ![w] = NoId]
  /\ job' = [job EXCEPT ![w].lo = @ + 1]
  /\ UNCHANGED <<counter, deque, poolOnly>>

\* Mutation: a record goes to the first slot that is free.
CompressFirstFree(w) ==
  /\ pc = "compress"
  /\ claim[w] # NoId
  /\ \E i \in DOMAIN slots :
       /\ slots[i] = NoId /\ \A j \in 1 .. i - 1 : slots[j] # NoId
       /\ slots' = [slots EXCEPT ![i] = claim[w]]
       /\ packed' = [packed EXCEPT ![i] = chunks[job[w].lo]]
  /\ claim' = [claim EXCEPT ![w] = NoId]
  /\ job' = [job EXCEPT ![w].lo = @ + 1]
  /\ UNCHANGED <<counter, deque, poolOnly>>

\* The rest of the closure: compress, and leave the record in the chunk's slot.
Compress(w) ==
  /\ pc = "compress"
  /\ claim[w] # NoId
  /\ slots' = [slots EXCEPT ![job[w].lo] = claim[w]]
  /\ packed' = [packed EXCEPT ![job[w].lo] = chunks[job[w].lo]]
  /\ claim' = [claim EXCEPT ![w] = NoId]
  /\ job' = [job EXCEPT ![w].lo = @ + 1]
  /\ UNCHANGED <<counter, deque, poolOnly>>

\* Mutation: a worker takes the oldest range of its own deque.
PopOldest(w) ==
  /\ pc = "compress" /\ Idle(w)
  /\ \E r \in deque[w] :
       /\ \A q \in deque[w] : r.lo >= q.lo
       /\ job' = [job EXCEPT ![w] = r]
       /\ deque' = [deque EXCEPT ![w] = @ \ {r}]
  /\ UNCHANGED <<counter, claim, slots, packed, poolOnly>>

Pop(w) ==
  /\ pc = "compress" /\ Idle(w)
  /\ \E r \in deque[w] :
       /\ \A q \in deque[w] : r.lo <= q.lo
       /\ job' = [job EXCEPT ![w] = r]
       /\ deque' = [deque EXCEPT ![w] = @ \ {r}]
  /\ UNCHANGED <<counter, claim, slots, packed, poolOnly>>

Steal(w, v) ==
  /\ pc = "compress" /\ Idle(w) /\ deque[w] = {}
  /\ \E r \in deque[v] :
       /\ \A q \in deque[v] : r.lo >= q.lo
       /\ job' = [job EXCEPT ![w] = r]
       /\ deque' = [deque EXCEPT ![v] = @ \ {r}]
  /\ UNCHANGED <<counter, claim, slots, packed, poolOnly>>

\* Mutation: only the last chunk is waited for.
CollectLast ==
  /\ pc = "compress"
  /\ \A i \in DOMAIN slots : i = Len(slots) => slots[i] # NoId
  /\ pc' = "write"
  /\ UNCHANGED <<files, fileVars, poolVars, written, entries, outVars,
                 index_offset, reported>>

\* collect() returns once every chunk has its record.
Collect ==
  /\ pc = "compress"
  /\ \A i \in DOMAIN slots : slots[i] # NoId
  /\ pc' = "write"
  /\ UNCHANGED <<files, fileVars, poolVars, written, entries, outVars,
                 index_offset, reported>>

-----------------------------------------------------------------------------
(* Back on the main thread: records, index, footer. *)

\* Mutation: records are written in the order of their ids.
WriteRecordById ==
  /\ pc = "write" /\ written < Len(chunks)
  /\ written' = written + 1
  /\ \E i \in DOMAIN slots :
       /\ slots[i] = base + written
       /\ Emit(ChunkRecord(slots[i], packed[i]), "write")
  /\ UNCHANGED <<files, fileVars, poolVars, entries, index_offset, reported>>

WriteRecord ==
  /\ pc = "write" /\ written < Len(chunks)
  /\ written' = written + 1
  /\ Emit(ChunkRecord(slots[written + 1], packed[written + 1]), "write")
  /\ UNCHANGED <<files, fileVars, poolVars, entries, index_offset, reported>>

\* Mutation: the last record's id instead of the first's.
FirstChunkIsLast == IF chunks = <<>> THEN 0 ELSE slots[Len(slots)]

FirstChunk == IF chunks = <<>> THEN 0 ELSE slots[1]

PushEntry ==
  /\ pc = "write" /\ written = Len(chunks)
  /\ entries' = Append(entries,
       [file_id       |-> cur - 1,
        first_chunk   |-> FirstChunk,
        chunk_count   |-> Len(chunks),
        original_size |-> Len(files[cur].data),
        mode          |-> files[cur].mode,
        name          |-> files[cur].name])
  /\ cur' = cur + 1
  /\ pc' = "file"
  /\ UNCHANGED <<files, chunks, base, poolVars, written, outVars, index_offset,
                 reported>>

\* output.seek(Current(0)) flushes the BufWriter before it tells the position.
StartIndex ==
  /\ pc = "file" /\ cur > Len(files)
  /\ \/ flushed' = Len(out) /\ pc' = "index"
     \/ out' = out /\ WriteFailed
  /\ index_offset' = Len(out)
  /\ written' = 0
  /\ UNCHANGED <<files, fileVars, poolVars, entries, out, reported>>

WriteEntry ==
  /\ pc = "index" /\ written < Len(entries)
  /\ written' = written + 1
  /\ Emit(<<EntryCell(entries[written + 1])>>, "index")
  /\ UNCHANGED <<files, fileVars, poolVars, entries, index_offset, reported>>

\* Mutation: the footer may come before the index is whole.
WriteFooterEarly ==
  /\ pc = "index"
  /\ Emit(<<FooterCell(index_offset, Len(entries))>>, "report")
  /\ UNCHANGED <<files, fileVars, poolVars, written, entries, index_offset,
                 reported>>

WriteFooter ==
  /\ pc = "index" /\ written = Len(entries)
  /\ Emit(<<FooterCell(index_offset, Len(entries))>>, "report")
  /\ UNCHANGED <<files, fileVars, poolVars, written, entries, index_offset,
                 reported>>

\* cmd_create takes the size of the file and prints "done" ...
Report ==
  /\ pc = "report"
  /\ reported' = flushed
  /\ pc' = "drop"
  /\ UNCHANGED <<files, fileVars, poolVars, written, entries, outVars,
                 index_offset>>

\* ... and drops the BufWriter on return: a last flush whose error is lost.
DropWriter ==
  /\ pc = "drop"
  /\ \/ flushed' = Len(out)
     \/ "drop" \in Faults /\ flushed' \in flushed .. Len(out)
  /\ pc' = "done"
  /\ UNCHANGED <<files, fileVars, poolVars, written, entries, out,
                 index_offset, reported>>

\* The process dies: what it had not flushed is gone.
Kill ==
  /\ "kill" \in Faults
  /\ pc \notin Ended
  /\ pc' = "killed"
  /\ UNCHANGED <<files, fileVars, poolVars, written, entries, outVars,
                 index_offset, reported>>

-----------------------------------------------------------------------------
WorkerStep(w) ==
  \/ Split(w) \/ FetchAdd(w) \/ Compress(w) \/ Pop(w)
  \/ \E v \in Workers : Steal(w, v)

MainStep ==
  \/ WriteHeader \/ RefuseFile \/ StartFile \/ Collect \/ WriteRecord
  \/ PushEntry \/ StartIndex \/ WriteEntry \/ WriteFooter \/ Report
  \/ DropWriter

Step == MainStep \/ \E w \in Workers : WorkerStep(w)
Next == Step \/ Kill

Spec == Init /\ [][Next]_vars

\* The operating system runs every thread; nothing obliges it to kill one.
FairSpec ==
  /\ Spec
  /\ WF_vars(MainStep)
  /\ \A w \in Workers : WF_vars(WorkerStep(w))
-----------------------------------------------------------------------------
(* Properties. *)

\* The type of every variable: no step leaves a record in a slot that the file
\* has no chunk for, or claims that more is in the file than was written.
TypeOK ==
  /\ files \in Inputs
  /\ pc \in {"header", "file", "compress", "write", "index", "report", "drop"}
            \cup Ended
  /\ cur \in 1 .. Len(files) + 1
  /\ base \in Nat /\ counter \in Nat
  /\ job \in [Workers -> Ranges]
  /\ deque \in [Workers -> SUBSET Ranges]
  /\ claim \in [Workers -> Nat \cup {NoId}]
  /\ slots \in [1 .. Len(chunks) -> Nat \cup {NoId}]
  /\ packed \in [1 .. Len(chunks) -> Seq(Bytes)]
  /\ written \in Nat
  /\ chunks \in Seq(Seq(Bytes))
  /\ entries \in Seq(EntryRecords)
  /\ out \in Seq(Cells) /\ flushed \in 0 .. Len(out)
  /\ index_offset \in Nat
  /\ reported \in Nat \cup {NoSize}

IsChunk(cell) == cell.k = "chunk"

\* Whatever the pool does, no two chunk records of an archive carry the same
\* id: build_chunk_map (archive.rs:270) would silently drop one of them.
UniqueChunkIds ==
  \A p, q \in DOMAIN out :
    IsChunk(out[p]) /\ IsChunk(out[q]) /\ out[p].id = out[q].id => p = q

\* When the pool is done with a file, the ids its workers drew are exactly the
\* next Len(chunks) ids: no file takes an id that lies in another's block.
BlockOfIds ==
  pc = "write" =>
    /\ {slots[i] : i \in DOMAIN slots} = base .. counter - 1
    /\ counter = base + Len(chunks)

\* archive.rs:333 puts a file together from the ids first_chunk, first_chunk + 1,
\* ... "in order": that is right only if its i-th chunk drew the i-th id.
InOrder ==
  \A i \in DOMAIN slots : slots[i] # NoId => slots[i] = base + i - 1

\* With one worker in the pool it is: the ranges come back to it from its deque
\* in the order of the file, and each chunk draws its own number.
SerialInOrder == (\E w \in Workers : Workers = {w}) => InOrder

\* What a reader takes for an archive after its first two checks.
Accepted(img) == ReadHeader(img) = "ok" /\ ReadFooter(img) = "ok"

\* At every moment (so after every crash, failed write or lost flush) the file
\* is either refused by Footer::read or it is the whole archive, with an index
\* that can be read and that has one entry for every input file.
NoFalseArchive ==
  Accepted(Disk) =>
    /\ Disk = out
    /\ ReadIndex(Disk) = "ok"
    /\ IndexEntries(Disk) = entries
    /\ Len(entries) = Len(files)

\* The contents of the payloads of a stream, and of the first files, in order.
Bodies(cells) ==
  FlattenSeq([i \in DOMAIN cells |-> IF cells[i].k = "body" THEN cells[i].of ELSE <<>>])

DataTo(n) == FlattenSeq([i \in 1 .. n |-> files[i].data])

\* "Write chunks sequentially (order matters for sequential readers)"
\* (archive.rs:156): however the workers interleave, the payloads lie in the
\* stream in the order of the files' bytes, and the finished stream holds all.
SequentialOrder ==
  /\ IsPrefix(Bodies(out), DataTo(Len(files)))
  /\ pc = "done" => Bodies(out) = DataTo(Len(files))

\* Under a fair scheduler every creation comes to an end: no chunk is left
\* behind in a deque, and collect() returns.
Termination == <>(pc \in Ended)

\* The size that "axc: done" prints is the size of the archive it made.
ReportedIsSize == pc = "done" => reported = flushed
=============================================================================
