------------------------ MODULE CreateArchiveProofs ------------------------
(***************************************************************************)
(* Theorems about CreateArchive, for every number of workers, every list   *)
(* of input files and every chunk size: its types, and what the pool does  *)
(* with the chunks of a file.  Every chunk is run once, no id is drawn     *)
(* twice, the ids of a file are a block, and with one worker they follow   *)
(* the chunks.                                                             *)
(***************************************************************************)
EXTENDS CreateArchive, AxcFormatProofs, FiniteSetTheorems

-----------------------------------------------------------------------------
(* Type correctness. *)

\* While the main thread is at a file, that file is one of the list.
AtFile == pc \in {"compress", "write"} => cur <= Len(files)

TypeInv == TypeOK /\ AtFile

\* What the list of input files holds.
LEMMA FilesType ==
  ASSUME NEW list \in Inputs
  PROVE  /\ list \in Seq(InputFiles)
         /\ Len(list) \in Nat
         /\ \A i \in 1 .. Len(list) :
              /\ list[i].name \in Seq(STRING)
              /\ list[i].data \in Seq(Bytes)
              /\ list[i].mode \in STRING
<1>1. list \in Seq(InputFiles)
  BY InputsAssumption
<1>2. \A i \in 1 .. Len(list) : list[i] \in InputFiles
  BY <1>1
<1> QED
  BY <1>1, <1>2 DEF InputFiles

\* A write that is handed cells appends them, whatever becomes of the buffer.
LEMMA EmitType ==
  ASSUME out \in Seq(Cells), flushed \in 0 .. Len(out),
         NEW cells \in Seq(Cells), NEW next,
         Emit(cells, next)
  PROVE  /\ out' = out \o cells
         /\ out' \in Seq(Cells)
         /\ Len(out') = Len(out) + Len(cells)
         /\ flushed' \in 0 .. Len(out')
         /\ pc' \in {next, "failed"}
<1>1. out' = out \o cells
  BY DEF Emit
<1>2. out' \in Seq(Cells) /\ Len(out') = Len(out) + Len(cells)
  BY <1>1, ConcatProperties
<1>3. flushed' \in flushed .. Len(out') /\ pc' \in {next, "failed"}
  BY DEF Emit, Written, WriteFailed
<1>4. flushed' \in 0 .. Len(out')
  BY <1>2, <1>3
<1> QED
  BY <1>1, <1>2, <1>3, <1>4

\* The first state has these types ...
LEMMA TypeInit == Init => TypeInv
<1> SUFFICES ASSUME Init PROVE TypeInv
  OBVIOUS
<1>1. Len(files) \in Nat
  BY FilesType DEF Init
<1>2. NoJob \in Ranges
  BY DEF NoJob, Ranges
<1>3. slots \in [1 .. Len(chunks) -> Nat \cup {NoId}]
  BY DEF Init
<1> QED
  BY <1>1, <1>2, <1>3 DEF Init, TypeInv, TypeOK, AtFile

\* Where Split cuts a range leaves something on either side.
LEMMA MidBounds ==
  ASSUME NEW lo \in Nat, NEW hi \in Nat, lo < hi
  PROVE  lo + (hi - lo + 1) \div 2 \in lo + 1 .. hi
  OBVIOUS

\* An id, and the mark for none, are integers.
LEMMA IdIsInt == Nat \cup {NoId} \subseteq Int
  BY DEF NoId

\* ... and every step keeps them.
LEMMA TypeStep == TypeInv /\ [Next]_vars => TypeInv'
<1> SUFFICES ASSUME TypeInv, [Next]_vars PROVE TypeInv'
  OBVIOUS
<1> USE DEF TypeInv, TypeOK, AtFile, Ended
<1>files. Len(files) \in Nat
  BY FilesType
<1>1. CASE WriteHeader
  <2>1. <<HeaderCell>> \in Seq(Cells)
    BY DEF Cells
  <2>2. out' \in Seq(Cells) /\ flushed' \in 0 .. Len(out') /\ pc' \in {"file", "failed"}
    BY <1>1, <2>1, EmitType DEF WriteHeader
  <2> QED
    BY <1>1, <2>2 DEF WriteHeader, fileVars, poolVars
<1>2. CASE RefuseFile
  BY <1>2 DEF RefuseFile, fileVars, poolVars, outVars
<1>3. CASE StartFile
  <2>1. cur \in 1 .. Len(files)
    BY <1>3, <1>files DEF StartFile
  <2>2. chunks' \in Seq(Seq(Bytes))
    BY <1>3, <2>1, FilesType, SplitType DEF StartFile
  <2>3. slots' \in [1 .. Len(chunks') -> Nat \cup {NoId}]
    BY <1>3, <2>2 DEF StartFile
  <2>5. packed' \in [1 .. Len(chunks') -> Seq(Bytes)]
    BY <1>3, <2>2 DEF StartFile
  <2>4. job' \in [Workers -> Ranges]
    <3>1. PICK w \in Workers :
            job' = [job EXCEPT ![w] = [lo |-> 1, hi |-> Len(chunks'), leaf |-> FALSE]]
      BY <1>3 DEF StartFile
    <3>2. [lo |-> 1, hi |-> Len(chunks'), leaf |-> FALSE] \in Ranges
      BY <2>2 DEF Ranges
    <3> QED
      BY <3>1, <3>2
  <2> QED
    BY <1>3, <2>1, <2>2, <2>3, <2>4, <2>5 DEF StartFile, outVars
<1>4. ASSUME NEW w \in Workers, Split(w) PROVE TypeInv'
  <2> DEFINE mid == job[w].lo + (job[w].hi - job[w].lo + 1) \div 2
  <2>1. job[w] \in Ranges /\ job[w].lo \in Nat /\ job[w].hi \in Nat
    BY DEF Ranges
  <2>2. mid \in Nat /\ mid - 1 \in Nat
    <3>1. job[w].lo < job[w].hi
      BY <1>4 DEF Split
    <3>2. mid \in job[w].lo + 1 .. job[w].hi
      BY <2>1, <3>1, MidBounds
    <3> HIDE DEF mid
    <3> QED
      BY <2>1, <3>2
  <2> HIDE DEF mid
  <2>3. job' = [job EXCEPT ![w].hi = mid - 1]
    BY <1>4 DEF Split, mid
  <2>7. job' \in [Workers -> Ranges]
    BY <2>1, <2>2, <2>3 DEF Ranges
  <2>4. [lo |-> mid, hi |-> job[w].hi, leaf |-> FALSE] \in Ranges
    BY <2>1, <2>2 DEF Ranges
  <2>5. deque' \in [Workers -> SUBSET Ranges]
    <3>1. deque' = [deque EXCEPT ![w] =
                      @ \cup {[lo |-> mid, hi |-> job[w].hi, leaf |-> FALSE]}]
      BY <1>4 DEF Split, mid
    <3> QED
      BY <2>4, <3>1
  <2>6. UNCHANGED <<counter, claim, slots, packed, poolOnly>>
    BY <1>4 DEF Split
  <2> QED
    BY <2>5, <2>6, <2>7 DEF poolOnly, fileVars, outVars
<1>5. ASSUME NEW w \in Workers, FetchAdd(w) PROVE TypeInv'
  <2>1. job' \in [Workers -> Ranges]
    <3>1. [job[w] EXCEPT !.leaf = TRUE] \in Ranges
      BY DEF Ranges
    <3>2. job' = [job EXCEPT ![w] = [job[w] EXCEPT !.leaf = TRUE]]
      BY <1>5 DEF FetchAdd
    <3> QED
      BY <3>1, <3>2
  <2>2. claim' \in [Workers -> Nat \cup {NoId}] /\ counter' \in Nat
    BY <1>5 DEF FetchAdd
  <2> QED
    BY <1>5, <2>1, <2>2 DEF FetchAdd, poolOnly, fileVars, outVars
<1>6. ASSUME NEW w \in Workers, Compress(w) PROVE TypeInv'
  <2>1. job' \in [Workers -> Ranges]
    <3>1. job[w] \in Ranges /\ job[w].lo + 1 \in Nat
      BY DEF Ranges
    <3>2. job' = [job EXCEPT ![w].lo = job[w].lo + 1]
      BY <1>6 DEF Compress
    <3> QED
      BY <3>1, <3>2 DEF Ranges
  <2>2. claim' \in [Workers -> Nat \cup {NoId}]
    BY <1>6 DEF Compress
  <2>3. slots' \in [1 .. Len(chunks) -> Nat \cup {NoId}]
    BY <1>6 DEF Compress
  <2>4. packed' \in [1 .. Len(chunks) -> Seq(Bytes)]
    <3>1. packed' = [packed EXCEPT ![job[w].lo] = chunks[job[w].lo]]
      BY <1>6 DEF Compress
    <3>2. job[w].lo \in 1 .. Len(chunks) => chunks[job[w].lo] \in Seq(Bytes)
      OBVIOUS
    <3> QED
      BY <3>1, <3>2
  <2> QED
    BY <1>6, <2>1, <2>2, <2>3, <2>4 DEF Compress, poolOnly, fileVars, outVars
<1>7. ASSUME NEW w \in Workers, Pop(w) PROVE TypeInv'
  <2>1. job' \in [Workers -> Ranges] /\ deque' \in [Workers -> SUBSET Ranges]
    BY <1>7 DEF Pop
  <2> QED
    BY <1>7, <2>1 DEF Pop, poolOnly, fileVars, outVars
<1>8. ASSUME NEW w \in Workers, NEW v \in Workers, Steal(w, v) PROVE TypeInv'
  <2>1. job' \in [Workers -> Ranges] /\ deque' \in [Workers -> SUBSET Ranges]
    BY <1>8 DEF Steal
  <2> QED
    BY <1>8, <2>1 DEF Steal, poolOnly, fileVars, outVars
<1>9. CASE Collect
  BY <1>9 DEF Collect, fileVars, poolVars, outVars
<1>10. CASE WriteRecord
  <2>1. written + 1 \in 1 .. Len(chunks)
    BY <1>10 DEF WriteRecord
  <2>2. slots[written + 1] \in Int /\ packed[written + 1] \in Seq(Bytes)
    <3>1. slots[written + 1] \in Nat \cup {NoId}
      BY <2>1
    <3>2. packed[written + 1] \in Seq(Bytes)
      BY <2>1
    <3> QED
      BY <3>1, <3>2, IdIsInt
  <2>3. ChunkRecord(slots[written + 1], packed[written + 1]) \in Seq(Cells)
    BY <2>2, ChunkRecordType
  <2>4. Emit(ChunkRecord(slots[written + 1], packed[written + 1]), "write")
    BY <1>10 DEF WriteRecord
  <2>5. out' \in Seq(Cells) /\ flushed' \in 0 .. Len(out') /\ pc' \in {"write", "failed"}
    BY <2>3, <2>4, EmitType
  <2>6. /\ pc = "write" /\ written' = written + 1
        /\ UNCHANGED <<files, fileVars, poolVars, entries, index_offset, reported>>
    BY <1>10 DEF WriteRecord
  <2>7. /\ files' \in Inputs /\ cur' \in 1 .. Len(files') + 1 /\ base' \in Nat
        /\ chunks' \in Seq(Seq(Bytes)) /\ slots' \in [1 .. Len(chunks') -> Nat \cup {NoId}]
        /\ packed' \in [1 .. Len(chunks') -> Seq(Bytes)]
        /\ counter' \in Nat /\ job' \in [Workers -> Ranges]
        /\ deque' \in [Workers -> SUBSET Ranges] /\ claim' \in [Workers -> Nat \cup {NoId}]
    BY <2>6 DEF fileVars, poolVars
  <2>8. /\ entries' \in Seq(EntryRecords) /\ index_offset' \in Nat
        /\ reported' \in Nat \cup {NoSize} /\ written' \in Nat
    BY <2>6
  <2>9. AtFile'
    BY <2>5, <2>6 DEF fileVars
  <2> QED
    BY <2>5, <2>7, <2>8, <2>9
<1>11. CASE PushEntry
  <2>1. cur \in 1 .. Len(files)
    BY <1>11, <1>files DEF PushEntry
  <2>2. files[cur].name \in Seq(STRING) /\ Len(files[cur].data) \in Nat
        /\ files[cur].mode \in STRING
    BY <2>1, FilesType
  <2>3. FirstChunk \in Int
    <3>1. CASE chunks = <<>>
      BY <3>1 DEF FirstChunk
    <3>2. CASE chunks # <<>>
      <4>1. 1 \in 1 .. Len(chunks)
        BY <3>2
      <4> QED
        BY <3>2, <4>1, IdIsInt DEF FirstChunk
    <3> QED
      BY <3>1, <3>2
  <2>4. [file_id       |-> cur - 1,
         first_chunk   |-> FirstChunk,
         chunk_count   |-> Len(chunks),
         original_size |-> Len(files[cur].data),
         mode          |-> files[cur].mode,
         name          |-> files[cur].name] \in EntryRecords
    BY <2>1, <2>2, <2>3 DEF EntryRecords
  <2>5. entries' \in Seq(EntryRecords)
    BY <1>11, <2>4 DEF PushEntry
  <2>6. cur' \in 1 .. Len(files') + 1
    BY <1>11, <2>1 DEF PushEntry
  <2> QED
    BY <1>11, <2>5, <2>6 DEF PushEntry, poolVars, outVars
<1>12. CASE StartIndex
  <2>1. flushed' \in 0 .. Len(out') /\ pc' \in {"index", "failed"} /\ out' = out
    BY <1>12 DEF StartIndex, WriteFailed
  <2> QED
    BY <1>12, <2>1 DEF StartIndex, fileVars, poolVars
<1>13. CASE WriteEntry
  <2>1. entries[written + 1] \in EntryRecords
    BY <1>13 DEF WriteEntry
  <2>2. <<EntryCell(entries[written + 1])>> \in Seq(Cells)
    BY <2>1 DEF EntryCell, Cells
  <2>3. out' \in Seq(Cells) /\ flushed' \in 0 .. Len(out') /\ pc' \in {"index", "failed"}
    BY <1>13, <2>2, EmitType DEF WriteEntry
  <2> QED
    BY <1>13, <2>3 DEF WriteEntry, fileVars, poolVars
<1>14. CASE WriteFooter
  <2>1. <<FooterCell(index_offset, Len(entries))>> \in Seq(Cells)
    BY FooterType
  <2>2. out' \in Seq(Cells) /\ flushed' \in 0 .. Len(out') /\ pc' \in {"report", "failed"}
    BY <1>14, <2>1, EmitType DEF WriteFooter
  <2> QED
    BY <1>14, <2>2 DEF WriteFooter, fileVars, poolVars
<1>15. CASE Report
  BY <1>15 DEF Report, fileVars, poolVars, outVars
<1>16. CASE DropWriter
  BY <1>16 DEF DropWriter, fileVars, poolVars
<1>17. CASE Kill
  BY <1>17 DEF Kill, fileVars, poolVars, outVars
<1>18. CASE UNCHANGED vars
  BY <1>18 DEF vars, fileVars, poolVars, outVars
<1> QED
  BY <1>1, <1>2, <1>3, <1>4, <1>5, <1>6, <1>7, <1>8, <1>9, <1>10, <1>11, <1>12,
     <1>13, <1>14, <1>15, <1>16, <1>17, <1>18
  DEF Next, Step, MainStep, WorkerStep

\* Every variable keeps its type: no step leaves a record in a slot that the
\* file has no chunk for, and no flush claims more than was written.
THEOREM TypeCorrect == Spec => []TypeOK
<1>1. TypeInv => TypeOK
  BY DEF TypeInv
<1> QED
  BY TypeInit, TypeStep, <1>1, PTL DEF Spec

-----------------------------------------------------------------------------
(* Chunk ids are unique.  An id is in one place at a time: with the worker *)
(* that drew it, then in the slot of its chunk, then in the stream.  Every *)
(* place holds ids below the counter, so the next one is new to all.       *)

ClaimIds ==
  \A w \in Workers : claim[w] # NoId =>
    /\ claim[w] < counter
    /\ \A v \in Workers : claim[v] = claim[w] => v = w
    /\ \A i \in DOMAIN slots : slots[i] # claim[w]
    /\ \A p \in DOMAIN out : IsChunk(out[p]) => out[p].id # claim[w]

SlotIds ==
  \A i \in DOMAIN slots : slots[i] # NoId =>
    /\ slots[i] < counter
    /\ \A j \in DOMAIN slots : slots[j] = slots[i] => i = j

\* The records that are still to be written have ids that the stream has not.
UnwrittenIds ==
  pc \in {"compress", "write"} =>
    \A i \in DOMAIN slots : i > written /\ slots[i] # NoId =>
      \A p \in DOMAIN out : IsChunk(out[p]) => out[p].id # slots[i]

StreamIds == \A p \in DOMAIN out : IsChunk(out[p]) => out[p].id < counter

WriteReady ==
  /\ pc = "compress" => written = 0
  /\ pc = "write" => \A i \in DOMAIN slots : slots[i] # NoId

DrawnInv ==
  ClaimIds /\ SlotIds /\ UnwrittenIds /\ StreamIds /\ WriteReady /\ UniqueChunkIds

\* No id is drawn at first ...
LEMMA DrawnInit == Init => DrawnInv
  BY DEF Init, DrawnInv, ClaimIds, SlotIds, UnwrittenIds, StreamIds, WriteReady,
         UniqueChunkIds

\* Cells that are no chunk headers leave the chunk records of the stream as they
\* are.
LEMMA NoNewChunk ==
  ASSUME out \in Seq(Cells), NEW cell \in Cells, cell.k # "chunk",
         out' = out \o <<cell>>
  PROVE  \A p \in DOMAIN out' : IsChunk(out'[p]) => p \in DOMAIN out /\ out'[p] = out[p]
<1>1. /\ Len(out') = Len(out) + 1
      /\ \A p \in 1 .. Len(out) + 1 : out'[p] = IF p <= Len(out) THEN out[p] ELSE cell
  OBVIOUS
<1>2. DOMAIN out' = 1 .. Len(out) + 1 /\ DOMAIN out = 1 .. Len(out) /\ Len(out) \in Nat
  BY <1>1
<1> QED
  BY <1>1, <1>2 DEF IsChunk

\* Ids, slots and claims stay, the stream gets no new chunk record, and the main
\* thread is not (or no longer) about to write records.
LEMMA IdsKept ==
  ASSUME DrawnInv, UNCHANGED poolVars, pc' \notin {"compress", "write"},
         \A p \in DOMAIN out' : IsChunk(out'[p]) => p \in DOMAIN out /\ out'[p] = out[p]
  PROVE  DrawnInv'
  BY DEF DrawnInv, ClaimIds, SlotIds, UnwrittenIds, StreamIds, WriteReady,
         UniqueChunkIds, poolVars, IsChunk

\* The id of a chunk record is an integer.
LEMMA ChunkIdType ==
  ASSUME NEW cell \in Cells, IsChunk(cell)
  PROVE  cell.id \in Int
<1>1. CASE cell \in PayloadCells
  BY <1>1 DEF PayloadCells, IsChunk
<1>2. CASE cell = HeaderCell
  BY <1>2 DEF HeaderCell, IsChunk
<1> QED
  BY <1>1, <1>2 DEF Cells, IsChunk

\* ... and every step leaves an id in one place only.
LEMMA DrawnStep == TypeInv /\ DrawnInv /\ [Next]_vars => DrawnInv'
<1> SUFFICES ASSUME TypeInv, DrawnInv, [Next]_vars PROVE DrawnInv'
  OBVIOUS
<1>t. /\ out \in Seq(Cells) /\ flushed \in 0 .. Len(out)
      /\ claim \in [Workers -> Nat \cup {NoId}]
      /\ slots \in [1 .. Len(chunks) -> Nat \cup {NoId}]
      /\ packed \in [1 .. Len(chunks) -> Seq(Bytes)]
      /\ counter \in Nat /\ written \in Nat
      /\ chunks \in Seq(Seq(Bytes))
      /\ entries \in Seq(EntryRecords) /\ index_offset \in Nat
  BY DEF TypeInv, TypeOK
<1>i. /\ \A i \in DOMAIN slots : slots[i] \in Int
      /\ \A w \in Workers : claim[w] \in Int
  <2>1. \A i \in DOMAIN slots : slots[i] \in Nat \cup {NoId}
    BY <1>t
  <2>2. \A w \in Workers : claim[w] \in Nat \cup {NoId}
    BY <1>t
  <2> QED
    BY <2>1, <2>2, IdIsInt
<1> USE DEF DrawnInv
<1>1. CASE WriteHeader
  <2>1. HeaderCell \in Cells /\ HeaderCell.k # "chunk"
    BY DEF Cells, HeaderCell
  <2>2. <<HeaderCell>> \in Seq(Cells) /\ Emit(<<HeaderCell>>, "file")
    BY <1>1, <2>1 DEF WriteHeader
  <2>3. out' = out \o <<HeaderCell>> /\ pc' \in {"file", "failed"}
    BY <1>t, <2>2, EmitType
  <2> QED
    BY <1>1, <1>t, <2>1, <2>3, NoNewChunk, IdsKept DEF WriteHeader
<1>2. CASE RefuseFile
  BY <1>2, IdsKept DEF RefuseFile, outVars
<1>3. CASE StartFile
  <2>1. UNCHANGED <<counter, claim, out>> /\ pc' = "compress" /\ written' = 0
    BY <1>3 DEF StartFile, outVars
  <2>2. \A i \in DOMAIN slots' : slots'[i] = NoId
    BY <1>3 DEF StartFile
  <2> QED
    BY <2>1, <2>2 DEF ClaimIds, SlotIds, UnwrittenIds, StreamIds, WriteReady,
                      UniqueChunkIds, IsChunk
<1>4. ASSUME NEW w \in Workers, Split(w) \/ Pop(w) \/ \E v \in Workers : Steal(w, v)
      PROVE  DrawnInv'
  <2>1. UNCHANGED <<counter, claim, slots, packed, poolOnly>>
    BY <1>4 DEF Split, Pop, Steal
  <2> QED
    BY <2>1 DEF poolOnly, outVars, ClaimIds, SlotIds, UnwrittenIds, StreamIds,
                WriteReady, UniqueChunkIds, IsChunk
<1>5. ASSUME NEW w \in Workers, FetchAdd(w) PROVE DrawnInv'
  <2>1. /\ claim' = [claim EXCEPT ![w] = counter] /\ counter' = counter + 1
        /\ UNCHANGED <<slots, pc, out, written>>
    BY <1>5 DEF FetchAdd, poolOnly, outVars
  <2>2. SlotIds' /\ UnwrittenIds' /\ StreamIds' /\ WriteReady' /\ UniqueChunkIds'
    <3>1. SlotIds'
      BY <1>t, <1>i, <2>1 DEF SlotIds
    <3>2. StreamIds'
      <4>1. \A p \in DOMAIN out : IsChunk(out[p]) => out[p].id \in Int
        BY <1>t, ChunkIdType
      <4> QED
        BY <1>t, <2>1, <4>1 DEF StreamIds, IsChunk
    <3> QED
      BY <2>1, <3>1, <3>2 DEF UnwrittenIds, WriteReady, UniqueChunkIds, IsChunk
  <2>3. ClaimIds'
    <3>1. SUFFICES ASSUME NEW u \in Workers, claim'[u] # NoId
                   PROVE  /\ claim'[u] < counter'
                          /\ \A v \in Workers : claim'[v] = claim'[u] => v = u
                          /\ \A i \in DOMAIN slots : slots[i] # claim'[u]
                          /\ \A p \in DOMAIN out : IsChunk(out[p]) => out[p].id # claim'[u]
      BY <2>1 DEF ClaimIds, IsChunk
    <3>2. \A v \in Workers : claim[v] # counter
      <4> SUFFICES ASSUME NEW v \in Workers PROVE claim[v] # counter
        OBVIOUS
      <4>1. CASE claim[v] = NoId
        BY <1>t, <4>1 DEF NoId
      <4>2. CASE claim[v] # NoId
        <5>1. claim[v] < counter
          BY <4>2 DEF ClaimIds
        <5> QED
          BY <1>t, <1>i, <5>1
      <4> QED
        BY <4>1, <4>2
    <3>3. \A i \in DOMAIN slots : slots[i] # counter
      <4> SUFFICES ASSUME NEW i \in DOMAIN slots PROVE slots[i] # counter
        OBVIOUS
      <4>1. CASE slots[i] = NoId
        BY <1>t, <4>1 DEF NoId
      <4>2. CASE slots[i] # NoId
        <5>1. slots[i] < counter
          BY <4>2 DEF SlotIds
        <5> QED
          BY <1>t, <1>i, <5>1
      <4> QED
        BY <4>1, <4>2
    <3>4. \A p \in DOMAIN out : IsChunk(out[p]) => out[p].id # counter
      BY <1>t DEF StreamIds
    <3>5. CASE u = w
      BY <1>t, <2>1, <3>2, <3>3, <3>4, <3>5
    <3>6. CASE u # w
      BY <1>t, <2>1, <3>1, <3>2, <3>6 DEF ClaimIds, NoId
    <3> QED
      BY <3>5, <3>6
  <2> QED
    BY <2>2, <2>3
<1>6. ASSUME NEW w \in Workers, Compress(w) PROVE DrawnInv'
  <2>1. /\ claim[w] # NoId /\ pc = "compress"
        /\ slots' = [slots EXCEPT ![job[w].lo] = claim[w]]
        /\ claim' = [claim EXCEPT ![w] = NoId]
        /\ UNCHANGED <<counter, pc, out, written>>
    BY <1>6 DEF Compress, poolOnly, outVars
  <2>2. DOMAIN slots' = DOMAIN slots
        /\ \A i \in DOMAIN slots :
             slots'[i] = slots[i] \/ (i = job[w].lo /\ slots'[i] = claim[w])
    BY <1>t, <2>1
  <2>3. ClaimIds'
    BY <1>t, <2>1, <2>2 DEF ClaimIds, IsChunk
  <2>4. SlotIds'
    BY <1>t, <2>1, <2>2 DEF ClaimIds, SlotIds
  <2>5. UnwrittenIds'
    BY <1>t, <2>1, <2>2 DEF ClaimIds, UnwrittenIds, IsChunk
  <2> QED
    BY <2>1, <2>3, <2>4, <2>5 DEF StreamIds, WriteReady, UniqueChunkIds, IsChunk
<1>7. CASE Collect
  <2>1. /\ pc = "compress" /\ pc' = "write" /\ UNCHANGED <<counter, claim, slots, out, written>>
        /\ \A i \in DOMAIN slots : slots[i] # NoId
    BY <1>7 DEF Collect, poolVars, outVars
  <2> QED
    BY <2>1 DEF ClaimIds, SlotIds, UnwrittenIds, StreamIds, WriteReady,
                UniqueChunkIds, IsChunk
<1>8. CASE WriteRecord
  <2> DEFINE n == written + 1
             id == slots[n]
             record == ChunkRecord(id, packed[n])
  <2>1. /\ pc = "write" /\ n \in 1 .. Len(chunks) /\ written' = n
        /\ Emit(record, "write") /\ UNCHANGED <<counter, claim, slots>>
    BY <1>8, <1>t DEF WriteRecord, poolVars
  <2>2. id \in Int /\ id # NoId /\ n \in DOMAIN slots /\ packed[n] \in Seq(Bytes)
    <3>1. slots[n] \in Nat \cup {NoId} /\ n \in DOMAIN slots
      BY <1>t, <2>1
    <3>2. packed[n] \in Seq(Bytes)
      BY <1>t, <2>1
    <3> QED
      BY <2>1, <3>1, <3>2, IdIsInt DEF WriteReady
  <2>3. /\ record \in Seq(Cells) /\ Len(record) = 3
        /\ record[1].k = "chunk" /\ record[1].id = id
        /\ \A i \in 2 .. 3 : record[i].k # "chunk"
    BY <2>2, ChunkRecordType
  <2> HIDE DEF record, n, id
  <2>4. out' = out \o record /\ pc' \in {"write", "failed"}
    BY <1>t, <2>1, <2>3, EmitType
  <2>5. \A p \in DOMAIN out' : IsChunk(out'[p]) =>
          \/ p \in DOMAIN out /\ out'[p] = out[p]
          \/ p = Len(out) + 1 /\ out'[p].id = id
    <3>1. /\ Len(out') = Len(out) + 3 /\ out' \in Seq(Cells)
          /\ \A p \in 1 .. Len(out) + 3 :
               out'[p] = IF p <= Len(out) THEN out[p] ELSE record[p - Len(out)]
      <4>1. /\ Len(out') = Len(out) + Len(record) /\ out' \in Seq(Cells)
            /\ \A p \in 1 .. Len(out) + Len(record) :
                 out'[p] = IF p <= Len(out) THEN out[p] ELSE record[p - Len(out)]
        <5>1. record \in Seq(Cells)
          BY <2>3
        <5> QED
          BY <1>t, <2>4, <5>1, ConcatProperties
      <4>2. Len(record) = 3
        BY <2>3
      <4> QED
        BY <4>1, <4>2
    <3>2. DOMAIN out' = 1 .. Len(out) + 3 /\ DOMAIN out = 1 .. Len(out) /\ Len(out) \in Nat
      BY <1>t, <3>1
    <3> SUFFICES ASSUME NEW p \in 1 .. Len(out) + 3, IsChunk(out'[p]), p > Len(out)
                 PROVE  p = Len(out) + 1 /\ out'[p].id = id
      BY <3>1, <3>2
    <3>3. out'[p] = record[p - Len(out)] /\ p - Len(out) \in 1 .. 3
      BY <3>1, <3>2
    <3>4. p - Len(out) = 1
      BY <2>3, <3>3 DEF IsChunk
    <3> QED
      BY <2>3, <3>2, <3>3, <3>4
  <2>6. \A p \in DOMAIN out : IsChunk(out[p]) => out[p].id # id
    <3>1. n > written /\ slots[n] # NoId /\ n \in DOMAIN slots
      BY <1>t, <2>2 DEF n, id
    <3>2. \A p \in DOMAIN out : IsChunk(out[p]) => out[p].id # slots[n]
      BY <2>1, <3>1 DEF UnwrittenIds
    <3> QED
      BY <3>2 DEF id
  <2>7. /\ id < counter
        /\ \A j \in DOMAIN slots : slots[j] = id => j = n
        /\ \A w \in Workers : claim[w] # NoId => claim[w] # id
    BY <2>2 DEF SlotIds, ClaimIds, n, id
  <2>8. ClaimIds' /\ SlotIds' /\ StreamIds'
    BY <2>1, <2>5, <2>7 DEF ClaimIds, SlotIds, StreamIds, IsChunk
  <2>9. UnwrittenIds'
    <3> SUFFICES ASSUME NEW i \in DOMAIN slots, i > n, slots[i] # NoId,
                        NEW p \in DOMAIN out', IsChunk(out'[p])
                 PROVE  out'[p].id # slots[i]
      BY <2>1 DEF UnwrittenIds, IsChunk
    <3>1. i > written
      BY <1>t DEF n
    <3>2. i # n
      BY <1>t, <2>1 DEF n
    <3> QED
      BY <2>1, <2>5, <2>7, <3>1, <3>2 DEF UnwrittenIds
  <2>10. UniqueChunkIds'
    BY <2>5, <2>6 DEF UniqueChunkIds
  <2>11. WriteReady'
    BY <2>1, <2>4 DEF WriteReady
  <2> QED
    BY <2>8, <2>9, <2>10, <2>11
<1>9. CASE PushEntry \/ Report \/ Kill
  <2>1. UNCHANGED poolVars /\ out' = out /\ pc' \notin {"compress", "write"}
    BY <1>9 DEF PushEntry, Report, Kill, outVars
  <2> QED
    BY <2>1, IdsKept
<1>10. CASE StartIndex \/ DropWriter
  <2>1. UNCHANGED poolVars /\ out' = out /\ pc' \notin {"compress", "write"}
    BY <1>10 DEF StartIndex, WriteFailed, DropWriter
  <2> QED
    BY <2>1, IdsKept
<1>11. CASE WriteEntry
  <2> DEFINE cell == EntryCell(entries[written + 1])
  <2>1. cell \in Cells /\ cell.k # "chunk"
    <3>1. entries[written + 1] \in EntryRecords
      BY <1>11, <1>t DEF WriteEntry
    <3> QED
      BY <3>1 DEF EntryCell, Cells
  <2>2. Emit(<<cell>>, "index") /\ UNCHANGED poolVars
    BY <1>11 DEF WriteEntry
  <2> HIDE DEF cell
  <2>3. out' = out \o <<cell>> /\ pc' \in {"index", "failed"}
    <3>1. <<cell>> \in Seq(Cells)
      BY <2>1
    <3> QED
      BY <1>t, <2>2, <3>1, EmitType
  <2> QED
    BY <1>t, <2>1, <2>2, <2>3, NoNewChunk, IdsKept
<1>12. CASE WriteFooter
  <2> DEFINE cell == FooterCell(index_offset, Len(entries))
  <2>1. cell \in Cells /\ cell.k # "chunk"
    <3>1. Len(entries) \in Nat
      BY <1>t
    <3> QED
      BY <1>t, <3>1, FooterType DEF FooterCell
  <2>2. Emit(<<cell>>, "report") /\ UNCHANGED poolVars
    BY <1>12 DEF WriteFooter
  <2> HIDE DEF cell
  <2>3. out' = out \o <<cell>> /\ pc' \in {"report", "failed"}
    <3>1. <<cell>> \in Seq(Cells)
      BY <2>1
    <3> QED
      BY <1>t, <2>2, <3>1, EmitType
  <2> QED
    BY <1>t, <2>1, <2>2, <2>3, NoNewChunk, IdsKept
<1>13. CASE UNCHANGED vars
  BY <1>13 DEF vars, poolVars, outVars, ClaimIds, SlotIds, UnwrittenIds,
               StreamIds, WriteReady, UniqueChunkIds, IsChunk
<1> QED
  BY <1>1, <1>2, <1>3, <1>4, <1>5, <1>6, <1>7, <1>8, <1>9, <1>10, <1>11, <1>12, <1>13
  DEF Next, Step, MainStep, WorkerStep

\* A slot that is filled holds the record of its own chunk.
Packed == \A i \in DOMAIN slots : slots[i] # NoId => packed[i] = chunks[i]

LEMMA PackedStep == TypeInv /\ Packed /\ [Next]_vars => Packed'
<1> SUFFICES ASSUME TypeInv, Packed, [Next]_vars PROVE Packed'
  OBVIOUS
<1>t. /\ slots \in [1 .. Len(chunks) -> Nat \cup {NoId}]
      /\ packed \in [1 .. Len(chunks) -> Seq(Bytes)]
  BY DEF TypeInv, TypeOK
<1>1. CASE StartFile
  <2>1. \A i \in DOMAIN slots' : slots'[i] = NoId
    BY <1>1 DEF StartFile
  <2> QED
    BY <2>1 DEF Packed
<1>2. ASSUME NEW w \in Workers, Compress(w) PROVE Packed'
  <2>1. /\ slots' = [slots EXCEPT ![job[w].lo] = claim[w]]
        /\ packed' = [packed EXCEPT ![job[w].lo] = chunks[job[w].lo]]
        /\ chunks' = chunks
    BY <1>2 DEF Compress, poolOnly, fileVars
  <2> QED
    BY <1>t, <2>1 DEF Packed
<1>3. CASE UNCHANGED <<slots, packed, chunks>>
  BY <1>3 DEF Packed
<1>4. ASSUME NEW w \in Workers, Split(w) \/ FetchAdd(w) \/ Pop(w) \/ \E v \in Workers : Steal(w, v)
      PROVE  UNCHANGED <<slots, packed, chunks>>
  BY <1>4 DEF Split, FetchAdd, Pop, Steal, poolOnly, fileVars
<1>5. CASE \/ WriteHeader \/ RefuseFile \/ Collect \/ WriteRecord \/ PushEntry \/ StartIndex
           \/ WriteEntry \/ WriteFooter \/ Report \/ DropWriter \/ Kill \/ UNCHANGED vars
  <2>1. UNCHANGED <<slots, packed, chunks>>
    BY <1>5 DEF WriteHeader, RefuseFile, Collect, WriteRecord, PushEntry, StartIndex,
                WriteEntry, WriteFooter, Report, DropWriter, Kill, vars, poolVars, fileVars
  <2> QED
    BY <1>3, <2>1
<1> QED
  BY <1>1, <1>2, <1>3, <1>4, <1>5 DEF Next, Step, MainStep, WorkerStep

\* The ids and the contents of the records that the pool has made.
IdInv == DrawnInv /\ Packed

LEMMA IdInit == Init => IdInv
  BY DrawnInit DEF Init, IdInv, Packed

LEMMA IdStep == TypeInv /\ IdInv /\ [Next]_vars => IdInv'
  BY DrawnStep, PackedStep DEF IdInv

\* Whatever the workers do, no two chunk records of an archive carry one id: the
\* map of build_chunk_map (archive.rs:226-277) loses none of them.
THEOREM ChunkIdsUnique == Spec => []UniqueChunkIds
<1>1. IdInv => UniqueChunkIds
  BY DEF IdInv, DrawnInv
<1> QED
  BY TypeInit, TypeStep, IdInit, IdStep, <1>1, PTL DEF Spec

-----------------------------------------------------------------------------
(* The ranges that the workers hold.  They are apart from each other and   *)
(* their chunks have no record yet; when every chunk has its record,       *)
(* nobody holds a range.                                                   *)

Apart(q, r) == q.lo > q.hi \/ r.lo > r.hi \/ q.hi < r.lo \/ r.hi < q.lo

Pending(r) == \A i \in r.lo .. r.hi : i \in DOMAIN slots /\ slots[i] = NoId

PoolRanges ==
  \A w \in Workers :
    /\ Pending(job[w])
    /\ \A r \in deque[w] : r.lo <= r.hi /\ Pending(r)

PoolApart ==
  \A v, w \in Workers :
    /\ v # w => Apart(job[v], job[w])
    /\ \A r \in deque[w] : Apart(job[v], r)
    /\ \A q \in deque[v], r \in deque[w] : v # w \/ q # r => Apart(q, r)

Claiming == \A w \in Workers : claim[w] # NoId => ~Idle(w)

PoolQuiet ==
  pc \in {"header", "file", "write"} =>
    \A w \in Workers : Idle(w) /\ deque[w] = {} /\ claim[w] = NoId

PoolInv == PoolRanges /\ PoolApart /\ Claiming /\ PoolQuiet

\* The bounds of every range are natural numbers.
LEMMA RangeType ==
  ASSUME TypeInv
  PROVE  /\ \A w \in Workers : job[w].lo \in Nat /\ job[w].hi \in Nat
         /\ \A w \in Workers : \A r \in deque[w] :
              r \in Ranges /\ r.lo \in Nat /\ r.hi \in Nat
         /\ job \in [Workers -> Ranges]
         /\ deque \in [Workers -> SUBSET Ranges]
         /\ claim \in [Workers -> Nat \cup {NoId}]
         /\ slots \in [1 .. Len(chunks) -> Nat \cup {NoId}]
         /\ counter \in Nat /\ base \in Nat
  BY DEF TypeInv, TypeOK, Ranges

\* No worker has a range at first ...
LEMMA PoolInit == Init => PoolInv
  BY DEF Init, PoolInv, PoolRanges, PoolApart, Claiming, PoolQuiet, Pending,
         Apart, Idle, NoJob

\* A step of the main thread leaves the pool alone, except that it starts a job
\* and waits for its end.
LEMMA MainKeeps ==
  ASSUME MainStep \/ Kill \/ UNCHANGED vars
  PROVE  \/ StartFile
         \/ Collect
         \/ /\ UNCHANGED <<poolVars, chunks, base>>
            /\ pc' = "compress" => pc = "compress"
            /\ pc' \in {"header", "file", "write"} => pc \in {"header", "file", "write"}
<1>1. ASSUME WriteHeader \/ RefuseFile \/ PushEntry \/ StartIndex \/ Report \/ DropWriter
             \/ Kill \/ UNCHANGED vars
      PROVE  /\ UNCHANGED <<poolVars, chunks, base>>
             /\ pc' = "compress" => pc = "compress"
             /\ pc' \in {"header", "file", "write"} => pc \in {"header", "file", "write"}
  BY <1>1 DEF WriteHeader, RefuseFile, PushEntry, StartIndex, Report, DropWriter,
              Kill, vars, fileVars, Emit, Written, WriteFailed
<1>2. ASSUME WriteRecord \/ WriteEntry \/ WriteFooter
      PROVE  /\ UNCHANGED <<poolVars, chunks, base>>
             /\ pc' = "compress" => pc = "compress"
             /\ pc' \in {"header", "file", "write"} => pc \in {"header", "file", "write"}
  BY <1>2 DEF WriteRecord, WriteEntry, WriteFooter, fileVars, Emit, Written, WriteFailed
<1> QED
  BY <1>1, <1>2 DEF MainStep

\* ... and every step keeps the ranges apart and their chunks pending.
LEMMA PoolStep == TypeInv /\ PoolInv /\ [Next]_vars => PoolInv'
<1> SUFFICES ASSUME TypeInv, PoolInv, [Next]_vars PROVE PoolInv'
  OBVIOUS
<1>t. /\ \A w \in Workers : job[w].lo \in Nat /\ job[w].hi \in Nat
      /\ \A w \in Workers : \A r \in deque[w] :
           r \in Ranges /\ r.lo \in Nat /\ r.hi \in Nat
      /\ job \in [Workers -> Ranges]
      /\ deque \in [Workers -> SUBSET Ranges]
      /\ claim \in [Workers -> Nat \cup {NoId}]
      /\ slots \in [1 .. Len(chunks) -> Nat \cup {NoId}]
      /\ counter \in Nat
  BY RangeType
<1> USE DEF PoolInv
<1>1. CASE StartFile
  <2>1. /\ pc = "file" /\ pc' = "compress" /\ UNCHANGED <<deque, claim>>
        /\ slots' = [i \in DOMAIN chunks' |-> NoId]
    BY <1>1 DEF StartFile
  <2>2. PICK u \in Workers :
          job' = [job EXCEPT ![u] = [lo |-> 1, hi |-> Len(chunks'), leaf |-> FALSE]]
    BY <1>1 DEF StartFile
  <2>3. \A w \in Workers : job[w].lo > job[w].hi /\ deque[w] = {} /\ claim[w] = NoId
    BY <2>1 DEF PoolQuiet, Idle
  <2>4. \A w \in Workers : w # u => job'[w].lo > job'[w].hi
    BY <1>t, <2>2, <2>3
  <2>5. chunks' \in Seq(Seq(Bytes))
    BY TypeStep DEF TypeInv, TypeOK
  <2>6. Pending(job[u])'
    BY <1>t, <2>1, <2>2, <2>5 DEF Pending
  <2>7. PoolRanges'
    <3> SUFFICES ASSUME NEW w \in Workers
                 PROVE  Pending(job[w])'
      BY <2>1, <2>3 DEF PoolRanges
    <3>1. CASE w = u
      BY <2>6, <3>1
    <3>2. CASE w # u
      BY <1>t, <2>2, <2>3, <3>2 DEF Pending
    <3> QED
      BY <3>1, <3>2
  <2>8. PoolApart'
    BY <2>1, <2>3, <2>4 DEF PoolApart, Apart
  <2> QED
    BY <2>1, <2>3, <2>7, <2>8 DEF Claiming, PoolQuiet
<1>2. CASE Collect
  <2>1. /\ UNCHANGED <<job, deque, claim, slots>>
        /\ \A i \in DOMAIN slots : slots[i] # NoId
    BY <1>2 DEF Collect, poolVars
  <2>2. \A w \in Workers : Idle(w)
    BY <1>t, <2>1 DEF PoolRanges, Pending, Idle
  <2>3. \A w \in Workers : deque[w] = {}
    <3> SUFFICES ASSUME NEW w \in Workers, NEW r \in deque[w] PROVE FALSE
      OBVIOUS
    <3>1. r.lo \in r.lo .. r.hi
      BY <1>t DEF PoolRanges
    <3> QED
      BY <2>1, <3>1 DEF PoolRanges, Pending
  <2> QED
    BY <2>1, <2>2, <2>3 DEF PoolRanges, PoolApart, Claiming, PoolQuiet, Pending,
                            Apart, Idle
<1>3. CASE /\ UNCHANGED <<poolVars, chunks, base>>
           /\ pc' = "compress" => pc = "compress"
           /\ pc' \in {"header", "file", "write"} => pc \in {"header", "file", "write"}
  BY <1>3 DEF poolVars, PoolRanges, PoolApart, Claiming, PoolQuiet, Pending,
              Apart, Idle
<1>4. ASSUME NEW u \in Workers, Split(u) PROVE PoolInv'
  <2> DEFINE mid == job[u].lo + (job[u].hi - job[u].lo + 1) \div 2
             new == [lo |-> mid, hi |-> job[u].hi, leaf |-> FALSE]
  <2>1. mid \in job[u].lo + 1 .. job[u].hi
    <3>1. job[u].lo < job[u].hi
      BY <1>4 DEF Split
    <3> QED
      BY <1>t, <3>1, MidBounds
  <2>2. /\ job' = [job EXCEPT ![u].hi = mid - 1]
        /\ deque' = [deque EXCEPT ![u] = @ \cup {new}]
        /\ UNCHANGED <<pc, claim, slots>>
        /\ pc = "compress"
    BY <1>4 DEF Split, poolOnly
  <2>3. new.lo = mid /\ new.hi = job[u].hi
    OBVIOUS
  <2> HIDE DEF mid, new
  <2>4. /\ job'[u].lo = job[u].lo /\ job'[u].hi = mid - 1
        /\ \A w \in Workers : w # u => job'[w] = job[w]
    BY <1>t, <2>2 DEF Ranges
  <2>5. \A w \in Workers : \A r \in deque'[w] : r \in deque[w] \/ (w = u /\ r = new)
    BY <1>t, <2>2
  <2>6. PoolRanges'
    <3>1. Pending(new) /\ new.lo <= new.hi
      BY <1>t, <2>1, <2>3 DEF PoolRanges, Pending
    <3>2. \A w \in Workers : \A i \in job'[w].lo .. job'[w].hi : i \in job[w].lo .. job[w].hi
      <4> SUFFICES ASSUME NEW w \in Workers, NEW i \in job'[w].lo .. job'[w].hi
                   PROVE  i \in job[w].lo .. job[w].hi
        OBVIOUS
      <4>1. CASE w = u
        <5>1. job[u].lo \in Nat /\ job[u].hi \in Nat
          BY <1>t
        <5> QED
          BY <2>1, <2>4, <4>1, <5>1
      <4>2. CASE w # u
        BY <2>4, <4>2
      <4> QED
        BY <4>1, <4>2
    <3> QED
      BY <2>2, <2>5, <3>1, <3>2 DEF PoolRanges, Pending
  <2>7. PoolApart'
    <3> SUFFICES ASSUME NEW v \in Workers, NEW w \in Workers
                 PROVE  /\ v # w => Apart(job'[v], job'[w])
                        /\ \A r \in deque'[w] : Apart(job'[v], r)
                        /\ \A q \in deque'[v], r \in deque'[w] :
                             v # w \/ q # r => Apart(q, r)
      BY DEF PoolApart, Apart
    <3>0. ASSUME NEW x \in Workers
          PROVE  job'[x].lo = job[x].lo /\ job'[x].hi <= job[x].hi /\ job'[x].hi \in Int
      <4>1. CASE x = u
        <5>1. mid - 1 \in Int /\ mid - 1 <= job[u].hi
          BY <1>t, <2>1
        <5> QED
          BY <2>4, <4>1, <5>1
      <4>2. CASE x # u
        <5>1. job'[x] = job[x] /\ job[x].hi \in Nat
          BY <1>t, <2>4, <4>2
        <5> QED
          BY <5>1
      <4> QED
        BY <4>1, <4>2
    <3>1. ASSUME v # w PROVE Apart(job'[v], job'[w])
      <4>1. Apart(job[v], job[w])
        BY <3>1 DEF PoolApart
      <4>2. /\ job[v].lo \in Nat /\ job[v].hi \in Nat
            /\ job[w].lo \in Nat /\ job[w].hi \in Nat
        BY <1>t
      <4>3. job'[v].lo = job[v].lo /\ job'[v].hi <= job[v].hi /\ job'[v].hi \in Int
        BY <3>0
      <4>4. job'[w].lo = job[w].lo /\ job'[w].hi <= job[w].hi /\ job'[w].hi \in Int
        BY <3>0
      <4> QED
        BY <4>1, <4>2, <4>3, <4>4 DEF Apart
    <3>2. ASSUME NEW r \in deque'[w] PROVE Apart(job'[v], r)
      <4>1. CASE r \in deque[w]
        BY <1>t, <3>0, <4>1 DEF PoolApart, Apart
      <4>2. CASE w = u /\ r = new /\ v = u
        BY <1>t, <2>1, <2>3, <2>4, <4>2 DEF Apart
      <4>3. CASE w = u /\ r = new /\ v # u
        BY <1>t, <2>1, <2>3, <2>4, <4>3, SMTT(60) DEF PoolApart, Apart
      <4> QED
        BY <2>5, <4>1, <4>2, <4>3
    <3>3. ASSUME NEW q \in deque'[v], NEW r \in deque'[w], v # w \/ q # r
          PROVE  Apart(q, r)
      <4>1. CASE q \in deque[v] /\ r \in deque[w]
        BY <3>3, <4>1 DEF PoolApart
      <4>2. CASE q \in deque[v] /\ w = u /\ r = new
        BY <1>t, <2>1, <2>3, <4>2 DEF PoolApart, Apart
      <4>3. CASE v = u /\ q = new /\ r \in deque[w]
        BY <1>t, <2>1, <2>3, <4>3 DEF PoolApart, Apart
      <4> QED
        BY <2>5, <3>3, <4>1, <4>2, <4>3
    <3> QED
      BY <3>1, <3>2, <3>3
  <2>8. Claiming'
    BY <1>t, <2>1, <2>2, <2>4 DEF Claiming, Idle
  <2> QED
    BY <2>2, <2>6, <2>7, <2>8 DEF PoolQuiet
<1>5. ASSUME NEW u \in Workers, FetchAdd(u) PROVE PoolInv'
  <2>1. /\ job' = [job EXCEPT ![u].leaf = TRUE]
        /\ claim' = [claim EXCEPT ![u] = counter]
        /\ ~Idle(u) /\ pc = "compress"
        /\ UNCHANGED <<pc, deque, slots>>
    BY <1>5 DEF FetchAdd, poolOnly
  <2>2. \A w \in Workers : job'[w].lo = job[w].lo /\ job'[w].hi = job[w].hi
    BY <1>t, <2>1 DEF Ranges
  <2>3. PoolRanges' /\ PoolApart'
    BY <2>1, <2>2 DEF PoolRanges, PoolApart, Pending, Apart
  <2> QED
    BY <1>t, <2>1, <2>2, <2>3 DEF Claiming, PoolQuiet, Idle
<1>6. ASSUME NEW u \in Workers, Compress(u) PROVE PoolInv'
  <2> DEFINE n == job[u].lo
  <2>1. /\ job' = [job EXCEPT ![u].lo = n + 1]
        /\ slots' = [slots EXCEPT ![n] = claim[u]]
        /\ claim' = [claim EXCEPT ![u] = NoId]
        /\ claim[u] # NoId /\ pc = "compress"
        /\ UNCHANGED <<pc, deque>>
    BY <1>6 DEF Compress, poolOnly
  <2>2. n \in Nat /\ n <= job[u].hi
    BY <1>t, <2>1 DEF Claiming, Idle
  <2>3. /\ job'[u].lo = n + 1 /\ job'[u].hi = job[u].hi
        /\ \A w \in Workers : w # u => job'[w] = job[w]
    BY <1>t, <2>1 DEF Ranges
  <2>4. /\ DOMAIN slots' = DOMAIN slots
        /\ \A i \in DOMAIN slots : i # n => slots'[i] = slots[i]
    BY <1>t, <2>1
  <2>5. \A w \in Workers : \A i \in job'[w].lo .. job'[w].hi :
          i \in job[w].lo .. job[w].hi /\ i # n
    <3> SUFFICES ASSUME NEW w \in Workers, NEW i \in job'[w].lo .. job'[w].hi
                 PROVE  i \in job[w].lo .. job[w].hi /\ i # n
      OBVIOUS
    <3>1. CASE w = u
      BY <1>t, <2>2, <2>3, <3>1
    <3>2. CASE w # u
      BY <1>t, <2>2, <2>3, <3>2, SMTT(60) DEF PoolApart, Apart
    <3> QED
      BY <3>1, <3>2
  <2>6. \A w \in Workers : \A r \in deque[w] : \A i \in r.lo .. r.hi : i # n
    BY <1>t, <2>2 DEF PoolApart, Apart
  <2>7. PoolRanges'
    <3>1. \A w \in Workers : Pending(job[w])'
      <4> SUFFICES ASSUME NEW w \in Workers, NEW i \in job'[w].lo .. job'[w].hi
                   PROVE  i \in DOMAIN slots' /\ slots'[i] = NoId
        BY DEF Pending
      <4>1. i \in job[w].lo .. job[w].hi /\ i # n
        BY <2>5
      <4>2. i \in DOMAIN slots /\ slots[i] = NoId
        BY <4>1 DEF PoolRanges, Pending
      <4> QED
        BY <2>4, <4>1, <4>2
    <3>2. \A w \in Workers : \A r \in deque[w] : r.lo <= r.hi /\ Pending(r)'
      BY <2>4, <2>6 DEF PoolRanges, Pending
    <3> QED
      BY <2>1, <3>1, <3>2 DEF PoolRanges
  <2>8. PoolApart'
    <3>1. ASSUME NEW w \in Workers
          PROVE  job'[w].lo >= job[w].lo /\ job'[w].lo \in Nat /\ job'[w].hi = job[w].hi
      <4>1. CASE w = u
        BY <2>2, <2>3, <4>1
      <4>2. CASE w # u
        <5>1. job'[w] = job[w] /\ job[w].lo \in Nat
          BY <1>t, <2>3, <4>2
        <5> QED
          BY <5>1
      <4> QED
        BY <4>1, <4>2
    <3>2. ASSUME NEW v \in Workers, NEW w \in Workers
          PROVE  /\ job[v].lo \in Nat /\ job[v].hi \in Nat
                 /\ job[w].lo \in Nat /\ job[w].hi \in Nat
      BY <1>t
    <3>3. ASSUME NEW v \in Workers, NEW w \in Workers, v # w
          PROVE  Apart(job'[v], job'[w])
      <4>1. Apart(job[v], job[w])
        BY <3>3 DEF PoolApart
      <4> QED
        BY <3>1, <3>2, <4>1 DEF Apart
    <3>4. ASSUME NEW v \in Workers, NEW w \in Workers, NEW r \in deque[w]
          PROVE  Apart(job'[v], r)
      <4>1. Apart(job[v], r) /\ r.lo \in Nat /\ r.hi \in Nat
        BY <1>t DEF PoolApart
      <4> QED
        BY <3>1, <3>2, <4>1 DEF Apart
    <3> QED
      BY <2>1, <3>3, <3>4 DEF PoolApart, Apart
  <2>9. Claiming'
    BY <1>t, <2>1, <2>3 DEF Claiming, Idle
  <2> QED
    BY <2>1, <2>7, <2>8, <2>9 DEF PoolQuiet
<1>7. ASSUME NEW u \in Workers, NEW v \in Workers, Idle(u),
             NEW r \in deque[v], pc = "compress",
             job' = [job EXCEPT ![u] = r],
             deque' = [deque EXCEPT ![v] = @ \ {r}],
             UNCHANGED <<counter, claim, slots, packed, poolOnly>>
      PROVE  PoolInv'
  <2>1. /\ job'[u] = r /\ \A w \in Workers : w # u => job'[w] = job[w]
        /\ \A w \in Workers : \A q \in deque'[w] : q \in deque[w] /\ (w = v => q # r)
        /\ UNCHANGED <<pc, claim, slots>>
    BY <1>t, <1>7 DEF poolOnly
  <2>2. r.lo <= r.hi /\ Pending(r)
    BY <1>7 DEF PoolRanges
  <2>3. PoolRanges'
    BY <2>1, <2>2 DEF PoolRanges, Pending
  <2>4. PoolApart'
    <3> SUFFICES ASSUME NEW x \in Workers, NEW w \in Workers
                 PROVE  /\ x # w => Apart(job'[x], job'[w])
                        /\ \A p \in deque'[w] : Apart(job'[x], p)
                        /\ \A q \in deque'[x], p \in deque'[w] :
                             x # w \/ q # p => Apart(q, p)
      BY DEF PoolApart, Apart
    <3>1. ASSUME x # w PROVE Apart(job'[x], job'[w])
      <4>1. CASE x # u /\ w # u
        BY <2>1, <3>1, <4>1 DEF PoolApart
      <4>2. CASE x = u
        BY <1>7, <2>1, <3>1, <4>2 DEF PoolApart, Apart
      <4>3. CASE w = u
        BY <1>7, <2>1, <3>1, <4>3 DEF PoolApart
      <4> QED
        BY <4>1, <4>2, <4>3
    <3>2. ASSUME NEW p \in deque'[w] PROVE Apart(job'[x], p)
      <4>1. p \in deque[w] /\ (w = v => p # r)
        BY <2>1
      <4>2. CASE x = u
        BY <1>7, <2>1, <4>1, <4>2 DEF PoolApart
      <4>3. CASE x # u
        BY <2>1, <4>1, <4>3 DEF PoolApart
      <4> QED
        BY <4>2, <4>3
    <3>3. ASSUME NEW q \in deque'[x], NEW p \in deque'[w], x # w \/ q # p
          PROVE  Apart(q, p)
      BY <2>1, <3>3 DEF PoolApart
    <3> QED
      BY <3>1, <3>2, <3>3
  <2>5. Claiming'
    BY <1>7, <2>1 DEF Claiming, Idle
  <2> QED
    BY <1>7, <2>1, <2>3, <2>4, <2>5 DEF PoolQuiet
<1>8. ASSUME NEW u \in Workers, Pop(u) PROVE PoolInv'
  BY <1>7, <1>8 DEF Pop
<1>9. ASSUME NEW u \in Workers, NEW v \in Workers, Steal(u, v) PROVE PoolInv'
  BY <1>7, <1>9 DEF Steal
<1> QED
  BY <1>1, <1>2, <1>3, <1>4, <1>5, <1>6, <1>8, <1>9, MainKeeps
  DEF Next, Step, WorkerStep

-----------------------------------------------------------------------------
(* The ids of a file are a block.  While its chunks are compressed, every  *)
(* id that was drawn since they were handed out is with a worker or in a   *)
(* slot; when the slots are full, they hold all of these ids.              *)

BlockInv ==
  pc \in {"compress", "write"} =>
    /\ base <= counter
    /\ \A w \in Workers : claim[w] # NoId => claim[w] \in base .. counter - 1
    /\ \A i \in DOMAIN slots : slots[i] # NoId => slots[i] \in base .. counter - 1
    /\ \A n \in base .. counter - 1 :
         (\E w \in Workers : claim[w] = n) \/ (\E i \in DOMAIN slots : slots[i] = n)

\* No id is drawn at first ...
LEMMA BlockInit == Init => BlockInv
  BY DEF Init, BlockInv

\* ... and an id moves from the worker that drew it to the slot of its chunk.
LEMMA BlockStep == TypeInv /\ PoolInv /\ BlockInv /\ [Next]_vars => BlockInv'
<1> SUFFICES ASSUME TypeInv, PoolInv, BlockInv, [Next]_vars PROVE BlockInv'
  OBVIOUS
<1>t. /\ \A w \in Workers : job[w].lo \in Nat /\ job[w].hi \in Nat
      /\ claim \in [Workers -> Nat \cup {NoId}]
      /\ slots \in [1 .. Len(chunks) -> Nat \cup {NoId}]
      /\ counter \in Nat /\ base \in Nat
  BY RangeType
<1>1. CASE StartFile
  <2>1. /\ pc = "file" /\ base' = counter /\ UNCHANGED <<counter, claim>>
        /\ \A i \in DOMAIN slots' : slots'[i] = NoId
    BY <1>1 DEF StartFile
  <2>2. \A w \in Workers : claim[w] = NoId
    BY <2>1 DEF PoolInv, PoolQuiet
  <2> QED
    BY <1>t, <2>1, <2>2 DEF BlockInv
<1>2. CASE Collect
  BY <1>2 DEF Collect, poolVars, fileVars, BlockInv
<1>3. CASE /\ UNCHANGED <<poolVars, chunks, base>>
           /\ pc' = "compress" => pc = "compress"
           /\ pc' \in {"header", "file", "write"} => pc \in {"header", "file", "write"}
           /\ pc' = "write" => pc = "write"
  BY <1>3 DEF poolVars, BlockInv
<1>4. ASSUME NEW u \in Workers, Split(u) \/ Pop(u) \/ \E v \in Workers : Steal(u, v)
      PROVE  BlockInv'
  BY <1>4 DEF Split, Pop, Steal, poolOnly, fileVars, BlockInv
<1>5. ASSUME NEW u \in Workers, FetchAdd(u) PROVE BlockInv'
  <2>1. /\ claim' = [claim EXCEPT ![u] = counter] /\ counter' = counter + 1
        /\ claim[u] = NoId /\ pc = "compress"
        /\ UNCHANGED <<slots, base, pc>>
    BY <1>5 DEF FetchAdd, poolOnly, fileVars
  <2>2. /\ base <= counter
        /\ \A w \in Workers : claim'[w] # NoId => claim'[w] \in base .. counter
    BY <1>t, <2>1 DEF BlockInv
  <2>3. \A i \in DOMAIN slots : slots[i] # NoId => slots[i] \in base .. counter
    BY <1>t, <2>1 DEF BlockInv
  <2>4. ASSUME NEW n \in base .. counter
        PROVE  (\E w \in Workers : claim'[w] = n) \/ (\E i \in DOMAIN slots : slots[i] = n)
    <3>1. CASE n = counter
      BY <1>t, <2>1, <3>1
    <3>2. CASE n # counter
      <4>1. n \in base .. counter - 1 /\ n # NoId
        BY <1>t, <3>2 DEF NoId
      <4>2. CASE \E i \in DOMAIN slots : slots[i] = n
        BY <4>2
      <4>3. ASSUME NEW w \in Workers, claim[w] = n
            PROVE  claim'[w] = n
        BY <1>t, <2>1, <4>1, <4>3
      <4> QED
        BY <2>1, <4>1, <4>2, <4>3 DEF BlockInv
    <3> QED
      BY <3>1, <3>2
  <2>5. counter' - 1 = counter /\ base' = base /\ base <= counter'
    BY <1>t, <2>1, <2>2
  <2> QED
    BY <2>1, <2>2, <2>3, <2>4, <2>5 DEF BlockInv
<1>6. ASSUME NEW u \in Workers, Compress(u) PROVE BlockInv'
  <2> DEFINE k == job[u].lo
  <2>1. /\ slots' = [slots EXCEPT ![k] = claim[u]]
        /\ claim' = [claim EXCEPT ![u] = NoId]
        /\ claim[u] # NoId /\ pc = "compress"
        /\ UNCHANGED <<counter, base, pc>>
    BY <1>6 DEF Compress, poolOnly, fileVars
  <2>2. k \in DOMAIN slots /\ slots[k] = NoId
    <3>1. k \in job[u].lo .. job[u].hi
      BY <1>t, <2>1 DEF PoolInv, Claiming, Idle
    <3> QED
      BY <3>1 DEF PoolInv, PoolRanges, Pending
  <2>3. /\ DOMAIN slots' = DOMAIN slots /\ slots'[k] = claim[u]
        /\ \A i \in DOMAIN slots : i # k => slots'[i] = slots[i]
        /\ \A w \in Workers : w # u => claim'[w] = claim[w]
        /\ claim'[u] = NoId
    BY <1>t, <2>1, <2>2
  <2>4. ASSUME NEW n \in base .. counter - 1
        PROVE  (\E w \in Workers : claim'[w] = n) \/ (\E i \in DOMAIN slots : slots'[i] = n)
    <3>1. n # NoId
      BY <1>t DEF NoId
    <3>2. CASE \E i \in DOMAIN slots : slots[i] = n
      BY <2>2, <2>3, <3>1, <3>2
    <3>3. ASSUME NEW w \in Workers, claim[w] = n
          PROVE  (\E v \in Workers : claim'[v] = n) \/ (\E i \in DOMAIN slots : slots'[i] = n)
      BY <2>2, <2>3, <3>3
    <3> QED
      BY <2>1, <3>2, <3>3 DEF BlockInv
  <2> QED
    BY <2>1, <2>3, <2>4 DEF BlockInv
<1>7. ASSUME MainStep \/ Kill \/ UNCHANGED vars, pc' = "write" PROVE Collect \/ pc = "write"
  BY <1>7 DEF MainStep, WriteHeader, RefuseFile, StartFile, WriteRecord, PushEntry,
              StartIndex, WriteEntry, WriteFooter, Report, DropWriter, Kill, vars,
              Emit, Written, WriteFailed
<1> QED
  BY <1>1, <1>2, <1>3, <1>4, <1>5, <1>6, <1>7, MainKeeps
  DEF Next, Step, WorkerStep

\* The number of integers from a to b.
LEMMA IntervalSize ==
  ASSUME NEW a \in Int, NEW b \in Int, b + 1 >= a
  PROVE  IsFiniteSet(a .. b) /\ Cardinality(a .. b) = b - a + 1
<1>1. /\ IsFiniteSet(a .. b)
      /\ Cardinality(a .. b) = IF a > b THEN 0 ELSE b - a + 1
  BY FS_Interval, Zenon
<1> DEFINE size == Cardinality(a .. b)
<1>2. size = IF a > b THEN 0 ELSE b - a + 1
  BY <1>1
<1> HIDE DEF size
<1>3. size = b - a + 1
  BY <1>2
<1> QED
  BY <1>1, <1>3 DEF size

\* Full slots are a one-to-one map of the chunks onto the ids drawn since base,
\* so there are as many of the one as of the other.
LEMMA FullBlock == TypeInv /\ IdInv /\ PoolInv /\ BlockInv => BlockOfIds
<1> SUFFICES ASSUME TypeInv, IdInv, PoolInv, BlockInv, pc = "write"
             PROVE  /\ {slots[i] : i \in DOMAIN slots} = base .. counter - 1
                    /\ counter = base + Len(chunks)
  BY DEF BlockOfIds
<1>t. /\ slots \in [1 .. Len(chunks) -> Nat \cup {NoId}]
      /\ counter \in Nat /\ base \in Nat
      /\ Len(chunks) \in Nat
  BY DEF TypeInv, TypeOK
<1>1. \A w \in Workers : claim[w] = NoId
  BY DEF PoolInv, PoolQuiet
<1>2. \A i \in DOMAIN slots : slots[i] # NoId /\ slots[i] \in base .. counter - 1
  BY DEF IdInv, DrawnInv, WriteReady, BlockInv
<1>3. ASSUME NEW n \in base .. counter - 1
      PROVE  \E i \in DOMAIN slots : slots[i] = n
  <2>1. n # NoId
    BY <1>t DEF NoId
  <2> QED
    BY <1>1, <2>1 DEF BlockInv
<1>4. {slots[i] : i \in DOMAIN slots} = base .. counter - 1
  BY <1>2, <1>3
<1>5. \A i, j \in DOMAIN slots : slots[i] = slots[j] => i = j
  BY <1>2 DEF IdInv, DrawnInv, SlotIds
<1> DEFINE S == 1 .. Len(chunks)
           T == base .. counter - 1
<1>6. DOMAIN slots = S
  BY <1>t
<1>7. slots \in Bijection(S, T)
  <2>1. slots \in [S -> T]
    BY <1>t, <1>2
  <2>2. \A i, j \in S : slots[i] = slots[j] => i = j
    BY <1>5, <1>6
  <2>3. \A n \in T : \E i \in S : slots[i] = n
    BY <1>3, <1>6
  <2> HIDE DEF S, T
  <2> QED
    BY <2>1, <2>2, <2>3, <1>6 DEF Bijection, Injection, Surjection, IsInjective
<1>8. IsFiniteSet(S) /\ Cardinality(S) = Len(chunks)
  <2>1. Len(chunks) + 1 >= 1 /\ Len(chunks) = Len(chunks) - 1 + 1
    BY <1>t
  <2> QED
    BY <1>t, <2>1, IntervalSize
<1>9. Cardinality(T) = counter - base
  <2>1. base <= counter
    BY DEF BlockInv
  <2>2. base \in Int /\ counter - 1 \in Int /\ counter - 1 + 1 >= base
        /\ counter - 1 - base + 1 = counter - base
    BY <1>t, <2>1
  <2> QED
    BY <2>2, IntervalSize
<1>10. Cardinality(T) = Cardinality(S)
  <2> HIDE DEF S, T
  <2> QED
    BY <1>7, <1>8, FS_Bijection DEF ExistsBijection
<1> QED
  BY <1>t, <1>4, <1>8, <1>9, <1>10

\* For every number of workers and every interleaving, the ids of a file's
\* chunks (archive.rs:133) are the next ids of the counter, each once.
THEOREM IdsAreBlocks == Spec => []BlockOfIds
  BY TypeInit, TypeStep, IdInit, IdStep, PoolInit, PoolStep, BlockInit, BlockStep,
     FullBlock, PTL DEF Spec

-----------------------------------------------------------------------------
(* With one worker the ids of a file follow its chunks: what the worker    *)
(* runs and what waits in its deque are one stretch of the file, from the  *)
(* chunk whose number is the next id to the end.                           *)

Follows(w, h) == h = Len(chunks) \/ \E q \in deque[w] : q.lo = h + 1

OrderedDeque(w) ==
  /\ job[w].lo <= job[w].hi + 1
  /\ Follows(w, job[w].hi)
  /\ \A r \in deque[w] : job[w].hi < r.lo /\ Follows(w, r.hi)

Serial(w) ==
  pc = "compress" =>
    /\ OrderedDeque(w)
    /\ claim[w] = NoId => counter = base + job[w].lo - 1
    /\ claim[w] # NoId => /\ claim[w] = base + job[w].lo - 1
                          /\ counter = base + job[w].lo

SerialInv == \A w \in Workers : Workers = {w} => Serial(w) /\ InOrder

\* There is no chunk at first ...
LEMMA SerialInit == Init => SerialInv
  BY DEF Init, SerialInv, Serial, InOrder

\* ... and the one worker takes the ranges back in the order of the file.
LEMMA SerialStep == TypeInv /\ PoolInv /\ SerialInv /\ [Next]_vars => SerialInv'
<1> SUFFICES ASSUME TypeInv, PoolInv, [Next]_vars,
                    NEW w \in Workers, Workers = {w}, Serial(w), InOrder
             PROVE  Serial(w)' /\ InOrder'
  BY DEF SerialInv
<1>t. /\ \A v \in Workers : job[v].lo \in Nat /\ job[v].hi \in Nat
      /\ \A v \in Workers : \A r \in deque[v] :
           r \in Ranges /\ r.lo \in Nat /\ r.hi \in Nat
      /\ job \in [Workers -> Ranges]
      /\ deque \in [Workers -> SUBSET Ranges]
      /\ claim \in [Workers -> Nat \cup {NoId}]
      /\ slots \in [1 .. Len(chunks) -> Nat \cup {NoId}]
      /\ counter \in Nat /\ base \in Nat
  BY RangeType
<1>l. Len(chunks) \in Nat /\ DOMAIN slots = 1 .. Len(chunks)
  BY <1>t DEF TypeInv, TypeOK
<1>1. CASE StartFile
  <2>1. /\ pc = "file" /\ base' = counter /\ UNCHANGED <<counter, claim, deque>>
        /\ \A i \in DOMAIN slots' : slots'[i] = NoId
        /\ job' = [job EXCEPT ![w] = [lo |-> 1, hi |-> Len(chunks'), leaf |-> FALSE]]
    BY <1>1 DEF StartFile
  <2>2. deque[w] = {} /\ claim[w] = NoId
    BY <2>1 DEF PoolInv, PoolQuiet
  <2>3. Len(chunks') \in Nat
    BY TypeStep DEF TypeInv, TypeOK
  <2>4. job'[w].lo = 1 /\ job'[w].hi = Len(chunks')
    BY <1>t, <2>1
  <2>5. OrderedDeque(w)'
    BY <2>1, <2>2, <2>3, <2>4 DEF OrderedDeque, Follows
  <2> QED
    BY <1>t, <2>1, <2>2, <2>4, <2>5 DEF Serial, InOrder
<1>2. CASE Collect
  BY <1>2 DEF Collect, poolVars, fileVars, Serial, InOrder
<1>3. CASE /\ UNCHANGED <<poolVars, chunks, base>>
           /\ pc' = "compress" => pc = "compress"
  BY <1>3 DEF poolVars, Serial, InOrder, OrderedDeque, Follows
<1>4. ASSUME Split(w) PROVE Serial(w)' /\ InOrder'
  <2> DEFINE mid == job[w].lo + (job[w].hi - job[w].lo + 1) \div 2
             new == [lo |-> mid, hi |-> job[w].hi, leaf |-> FALSE]
  <2>1. mid \in job[w].lo + 1 .. job[w].hi
    <3>1. job[w].lo < job[w].hi
      BY <1>4 DEF Split
    <3> QED
      BY <1>t, <3>1, MidBounds
  <2>2. /\ job' = [job EXCEPT ![w].hi = mid - 1]
        /\ deque' = [deque EXCEPT ![w] = @ \cup {new}]
        /\ UNCHANGED <<pc, claim, slots, counter, chunks, base>>
        /\ pc = "compress"
    BY <1>4 DEF Split, poolOnly, fileVars
  <2>3. new.lo = mid /\ new.hi = job[w].hi
    OBVIOUS
  <2> HIDE DEF mid, new
  <2>4. job'[w].lo = job[w].lo /\ job'[w].hi = mid - 1
    BY <1>t, <2>2 DEF Ranges
  <2>5. deque'[w] = deque[w] \cup {new}
    BY <1>t, <2>2
  <2>6. OrderedDeque(w)'
    <3>1. OrderedDeque(w)
      BY <2>2 DEF Serial
    <3>2. job'[w].lo <= job'[w].hi + 1 /\ Follows(w, job[w].hi)'
      BY <1>t, <2>1, <2>2, <2>3, <2>4, <2>5, <3>1 DEF OrderedDeque, Follows
    <3>3. \E q \in deque'[w] : q.lo = job'[w].hi + 1
      BY <1>t, <2>1, <2>3, <2>4, <2>5
    <3>4. ASSUME NEW r \in deque[w]
          PROVE  /\ job'[w].hi < r.lo
                 /\ r.hi = Len(chunks) \/ \E q \in deque'[w] : q.lo = r.hi + 1
      BY <1>t, <2>1, <2>4, <2>5, <3>1 DEF OrderedDeque, Follows
    <3>5. /\ job'[w].hi < new.lo
          /\ new.hi = Len(chunks) \/ \E q \in deque'[w] : q.lo = new.hi + 1
      BY <1>t, <2>1, <2>3, <2>4, <2>5, <3>1 DEF OrderedDeque, Follows
    <3> QED
      BY <2>2, <2>5, <3>2, <3>3, <3>4, <3>5 DEF OrderedDeque, Follows
  <2> QED
    BY <2>2, <2>4, <2>6 DEF Serial, InOrder
<1>5. ASSUME FetchAdd(w) PROVE Serial(w)' /\ InOrder'
  <2>1. /\ job' = [job EXCEPT ![w].leaf = TRUE]
        /\ claim' = [claim EXCEPT ![w] = counter] /\ counter' = counter + 1
        /\ claim[w] = NoId /\ pc = "compress"
        /\ UNCHANGED <<pc, deque, slots, chunks, base>>
    BY <1>5 DEF FetchAdd, poolOnly, fileVars
  <2>2. job'[w].lo = job[w].lo /\ job'[w].hi = job[w].hi
    BY <1>t, <2>1 DEF Ranges
  <2>3. OrderedDeque(w)'
    BY <2>1, <2>2 DEF Serial, OrderedDeque, Follows
  <2>4. claim'[w] = counter /\ counter = base + job[w].lo - 1
    BY <1>t, <2>1 DEF Serial
  <2>5. counter' = base + job[w].lo /\ counter # NoId
    BY <1>t, <2>1, <2>4 DEF NoId
  <2> QED
    BY <2>1, <2>2, <2>3, <2>4, <2>5 DEF Serial, InOrder
<1>6. ASSUME Compress(w) PROVE Serial(w)' /\ InOrder'
  <2> DEFINE k == job[w].lo
  <2>1. /\ job' = [job EXCEPT ![w].lo = k + 1]
        /\ slots' = [slots EXCEPT ![k] = claim[w]]
        /\ claim' = [claim EXCEPT ![w] = NoId]
        /\ claim[w] # NoId /\ pc = "compress"
        /\ UNCHANGED <<counter, base, chunks, deque, pc>>
    BY <1>6 DEF Compress, poolOnly, fileVars
  <2>2. job'[w].lo = k + 1 /\ job'[w].hi = job[w].hi /\ claim'[w] = NoId
    BY <1>t, <2>1 DEF Ranges
  <2>3. k <= job[w].hi
    BY <1>t, <2>1 DEF PoolInv, Claiming, Idle
  <2>4. claim[w] = base + k - 1 /\ counter = base + k
    BY <2>1 DEF Serial
  <2>5. OrderedDeque(w)'
    BY <1>t, <2>1, <2>2, <2>3 DEF Serial, OrderedDeque, Follows
  <2>6. InOrder'
    <3>1. \A i \in DOMAIN slots : slots'[i] = IF i = k THEN claim[w] ELSE slots[i]
      BY <1>t, <2>1
    <3> QED
      BY <1>t, <2>1, <2>4, <3>1 DEF InOrder
  <2>7. counter' = base' + job'[w].lo - 1
    BY <1>t, <2>1, <2>2, <2>4
  <2> QED
    BY <2>2, <2>5, <2>6, <2>7 DEF Serial
<1>7. ASSUME Pop(w) PROVE Serial(w)' /\ InOrder'
  <2>1. PICK r \in deque[w] :
          /\ \A q \in deque[w] : r.lo <= q.lo
          /\ job' = [job EXCEPT ![w] = r]
          /\ deque' = [deque EXCEPT ![w] = @ \ {r}]
    BY <1>7 DEF Pop
  <2>2. /\ pc = "compress" /\ job[w].lo > job[w].hi
        /\ UNCHANGED <<counter, claim, slots, pc, chunks, base>>
    BY <1>7 DEF Pop, poolOnly, fileVars, Idle
  <2>3. job'[w] = r /\ deque'[w] = deque[w] \ {r}
    BY <1>t, <2>1
  <2>4. OrderedDeque(w) /\ claim[w] = NoId
    BY <2>2 DEF Serial, PoolInv, Claiming, Idle
  <2>5. \A q \in deque[w] : q.lo <= q.hi /\ q.hi <= Len(chunks)
    <3> SUFFICES ASSUME NEW q \in deque[w] PROVE q.lo <= q.hi /\ q.hi <= Len(chunks)
      OBVIOUS
    <3>1. q.lo <= q.hi /\ q.hi \in q.lo .. q.hi
      BY <1>t DEF PoolInv, PoolRanges
    <3> QED
      BY <1>l, <3>1 DEF PoolInv, PoolRanges, Pending
  <2>6. r.lo = job[w].lo
    <3>1. job[w].hi < r.lo /\ r.lo <= r.hi /\ r.hi <= Len(chunks)
      BY <2>4, <2>5 DEF OrderedDeque
    <3>2. job[w].hi # Len(chunks)
      BY <1>t, <1>l, <3>1
    <3>3. PICK q \in deque[w] : q.lo = job[w].hi + 1
      BY <2>4, <3>2 DEF OrderedDeque, Follows
    <3>4. r.lo <= job[w].hi + 1
      BY <2>1, <3>3
    <3>5. job[w].lo <= job[w].hi + 1
      BY <2>4 DEF OrderedDeque
    <3> QED
      BY <1>t, <2>2, <3>1, <3>4, <3>5
  <2>7. ASSUME NEW q \in deque[w]
        PROVE  q.hi = Len(chunks) \/ \E p \in deque'[w] : p.lo = q.hi + 1
    <3>1. CASE q.hi = Len(chunks)
      BY <3>1
    <3>2. CASE q.hi # Len(chunks)
      <4>1. PICK p \in deque[w] : p.lo = q.hi + 1
        BY <2>4, <3>2 DEF OrderedDeque, Follows
      <4>2. r.lo <= q.lo /\ q.lo <= q.hi
        BY <2>1, <2>5
      <4>3. p # r
        BY <1>t, <4>1, <4>2
      <4> QED
        BY <2>3, <4>1, <4>3
    <3> QED
      BY <3>1, <3>2
  <2>8. ASSUME NEW q \in deque[w], q # r PROVE r.hi < q.lo
    <3>1. Apart(r, q)
      BY <2>8 DEF PoolInv, PoolApart
    <3>2. r.lo <= q.lo /\ q.lo <= q.hi /\ r.lo <= r.hi
      BY <2>1, <2>5
    <3> QED
      BY <1>t, <3>1, <3>2 DEF Apart
  <2>9. OrderedDeque(w)'
    <3>1. job'[w].lo <= job'[w].hi + 1
      BY <1>t, <2>3, <2>5
    <3> QED
      BY <2>2, <2>3, <2>7, <2>8, <3>1 DEF OrderedDeque, Follows
  <2> QED
    BY <2>2, <2>3, <2>4, <2>6, <2>9 DEF Serial, InOrder
<1>8. ASSUME NEW v \in Workers, Steal(w, v) PROVE FALSE
  BY <1>8 DEF Steal
<1> QED
  BY <1>1, <1>2, <1>3, <1>4, <1>5, <1>6, <1>7, <1>8, MainKeeps
  DEF Next, Step, WorkerStep

\* With one worker in the pool, the i-th chunk of a file has the i-th id of the
\* file's block, which is where extract_archive (archive.rs:337) looks for it.
THEOREM SerialIdsFollow == Spec => []SerialInOrder
<1>1. SerialInv => SerialInOrder
  BY DEF SerialInv, SerialInOrder
<1> QED
  BY TypeInit, TypeStep, PoolInit, PoolStep, SerialInit, SerialStep, <1>1, PTL
  DEF Spec
=============================================================================
