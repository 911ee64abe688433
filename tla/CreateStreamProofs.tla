------------------------- MODULE CreateStreamProofs -------------------------
(***************************************************************************)
(* Theorems about the stream that CreateArchive writes.  Whenever its      *)
(* process stops and wherever its buffer was cut, the file is refused or   *)
(* it is the whole archive.  What is in the stream is the header, one      *)
(* whole record for every chunk of every file that was left behind, and    *)
(* the entries of these files; with one worker the record of a chunk is    *)
(* where its entry says.  The payloads lie in the order of the files.      *)
(***************************************************************************)
EXTENDS CreateArchiveProofs

-----------------------------------------------------------------------------
(* The footer is the last cell that is ever written, it is written when    *)
(* the index is complete, and no other cell looks like one.                *)

Early == {"header", "file", "compress", "write", "index"}

\* The stream ends with the index of all files and the footer that points to it.
Whole ==
  /\ Len(out) = index_offset + Len(entries) + 1
  /\ out[Len(out)] = FooterCell(index_offset, Len(entries))
  /\ \A i \in 1 .. Len(entries) : out[index_offset + i] = EntryCell(entries[i])
  /\ Len(entries) = Len(files)

NoFooter  == pc \in Early => \A p \in DOMAIN out : out[p].k # "footer"
FooterEnd == \A p \in DOMAIN out : out[p].k = "footer" => p = Len(out) /\ Whole

\* There is one entry for each file that was left behind.
EntryCount ==
  pc \in {"header", "file", "compress", "write"} => cur = Len(entries) + 1

IndexSoFar ==
  pc = "index" =>
    /\ Len(out) = index_offset + written
    /\ written <= Len(entries)
    /\ \A i \in 1 .. written : out[index_offset + i] = EntryCell(entries[i])
    /\ Len(entries) = Len(files)

FooterInv == NoFooter /\ FooterEnd /\ EntryCount /\ IndexSoFar

\* The stream is empty at first ...
LEMMA FooterInit == Init => FooterInv
  BY DEF Init, FooterInv, NoFooter, FooterEnd, EntryCount, IndexSoFar, Early

\* The stream after a write: what was there, then the cells.
LEMMA Appended ==
  ASSUME out \in Seq(Cells), NEW cells \in Seq(Cells), out' = out \o cells
  PROVE  /\ Len(out) \in Nat /\ Len(cells) \in Nat
         /\ Len(out') = Len(out) + Len(cells)
         /\ DOMAIN out' = 1 .. Len(out) + Len(cells)
         /\ DOMAIN out = 1 .. Len(out)
         /\ \A p \in DOMAIN out : p \in DOMAIN out' /\ out'[p] = out[p]
         /\ \A p \in DOMAIN out' :
              p \in DOMAIN out \/ (p - Len(out) \in 1 .. Len(cells) /\ out'[p] = cells[p - Len(out)])
<1>1. /\ out' \in Seq(Cells)
      /\ Len(out') = Len(out) + Len(cells)
      /\ \A p \in 1 .. Len(out) + Len(cells) :
           out'[p] = IF p <= Len(out) THEN out[p] ELSE cells[p - Len(out)]
  BY ConcatProperties
<1>2. /\ Len(out) \in Nat /\ Len(cells) \in Nat
      /\ DOMAIN out' = 1 .. Len(out) + Len(cells) /\ DOMAIN out = 1 .. Len(out)
  BY <1>1
<1> QED
  BY <1>1, <1>2

\* Cells that are no footers, written before the index is complete, keep the
\* stream free of footers.
LEMMA StillNoFooter ==
  ASSUME TypeInv, FooterInv, pc \in Early,
         NEW cells \in Seq(Cells), \A i \in 1 .. Len(cells) : cells[i].k # "footer",
         out' = out \o cells
  PROVE  NoFooter' /\ FooterEnd'
<1>1. out \in Seq(Cells)
  BY DEF TypeInv, TypeOK
<1>2. \A p \in DOMAIN out' : out'[p].k # "footer"
  BY <1>1, Appended DEF FooterInv, NoFooter
<1> QED
  BY <1>2 DEF NoFooter, FooterEnd

\* The same for a single cell.
LEMMA AppendedOne ==
  ASSUME out \in Seq(Cells), NEW cell \in Cells, out' = out \o <<cell>>
  PROVE  /\ Len(out') = Len(out) + 1
         /\ \A p \in 1 .. Len(out) : out'[p] = out[p]
         /\ out'[Len(out) + 1] = cell
         /\ DOMAIN out' = 1 .. Len(out) + 1
         /\ DOMAIN out = 1 .. Len(out)
<1>1. /\ Len(out') = Len(out) + 1 /\ out' \in Seq(Cells)
      /\ \A p \in 1 .. Len(out) + 1 : out'[p] = IF p <= Len(out) THEN out[p] ELSE cell
  OBVIOUS
<1>2. Len(out) \in Nat /\ DOMAIN out' = 1 .. Len(out) + 1 /\ DOMAIN out = 1 .. Len(out)
  BY <1>1
<1> QED
  BY <1>1, <1>2

LEMMA StillNoFooterOne ==
  ASSUME TypeInv, FooterInv, pc \in Early,
         NEW cell \in Cells, cell.k # "footer", out' = out \o <<cell>>
  PROVE  NoFooter' /\ FooterEnd'
<1>1. out \in Seq(Cells)
  BY DEF TypeInv, TypeOK
<1>2. \A p \in DOMAIN out : out[p].k # "footer"
  BY DEF FooterInv, NoFooter
<1>3. /\ \A p \in 1 .. Len(out) : out'[p] = out[p]
      /\ out'[Len(out) + 1] = cell
      /\ DOMAIN out' = 1 .. Len(out) + 1 /\ DOMAIN out = 1 .. Len(out)
  BY <1>1, AppendedOne
<1>4. \A p \in DOMAIN out' : out'[p].k # "footer"
  BY <1>1, <1>2, <1>3
<1> QED
  BY <1>4 DEF NoFooter, FooterEnd

\* No cell of a chunk record is a footer.
LEMMA RecordHasNoFooter ==
  ASSUME NEW id \in Int, NEW chunk \in Seq(Bytes)
  PROVE  \A i \in 1 .. Len(ChunkRecord(id, chunk)) : ChunkRecord(id, chunk)[i].k # "footer"
<1> DEFINE record == ChunkRecord(id, chunk)
<1>1. /\ record \in Seq(Cells) /\ Len(record) = 3
      /\ record[1].k = "chunk"
      /\ record[2] = CompressFull(chunk)[1] /\ record[3] = CompressFull(chunk)[2]
  BY ChunkRecordType
<1>2. CompressFull(chunk)[1].k = "flag" /\ CompressFull(chunk)[2].k = "body"
  BY DEF CompressFull
<1> HIDE DEF record
<1> QED
  BY <1>1, <1>2 DEF record

\* ... and only WriteFooter, behind a whole index, ever appends a footer.
LEMMA FooterStep == TypeInv /\ FooterInv /\ [Next]_vars => FooterInv'
<1> SUFFICES ASSUME TypeInv, FooterInv, [Next]_vars PROVE FooterInv'
  OBVIOUS
<1>t. /\ out \in Seq(Cells) /\ flushed \in 0 .. Len(out)
      /\ slots \in [1 .. Len(chunks) -> Nat \cup {NoId}]
      /\ packed \in [1 .. Len(chunks) -> Seq(Bytes)]
      /\ written \in Nat /\ cur \in 1 .. Len(files) + 1
      /\ chunks \in Seq(Seq(Bytes))
      /\ entries \in Seq(EntryRecords) /\ index_offset \in Nat
      /\ Len(entries) \in Nat /\ Len(files) \in Nat /\ Len(out) \in Nat
  BY FilesType DEF TypeInv, TypeOK
<1> USE DEF FooterInv
<1>1. ASSUME UNCHANGED <<out, entries, index_offset, files, written, cur>>,
             pc' \in Early => pc' = pc \/ {pc, pc'} \subseteq {"header", "file", "compress", "write"}
      PROVE  FooterInv'
  BY <1>1 DEF NoFooter, FooterEnd, Whole, EntryCount, IndexSoFar, Early
<1>2. CASE WriteHeader
  <2>1. HeaderCell \in Cells /\ HeaderCell.k # "footer"
    BY DEF Cells, HeaderCell
  <2>2. <<HeaderCell>> \in Seq(Cells)
    BY <2>1
  <2>3. out' = out \o <<HeaderCell>> /\ pc' \in {"file", "failed"}
    BY <1>2, <1>t, <2>2, EmitType DEF WriteHeader
  <2>4. NoFooter' /\ FooterEnd'
    BY <1>2, <2>1, <2>3, StillNoFooterOne DEF WriteHeader, Early
  <2> QED
    BY <1>2, <2>3, <2>4 DEF WriteHeader, fileVars, EntryCount, IndexSoFar
<1>3. CASE RefuseFile
  BY <1>1, <1>3 DEF RefuseFile, fileVars, outVars, Early
<1>4. CASE StartFile
  <2>1. /\ pc = "file" /\ pc' = "compress"
        /\ UNCHANGED <<out, entries, index_offset, files, cur>>
    BY <1>4 DEF StartFile, outVars
  <2> QED
    BY <2>1 DEF NoFooter, FooterEnd, Whole, EntryCount, IndexSoFar, Early
<1>5. ASSUME NEW w \in Workers, WorkerStep(w) PROVE FooterInv'
  <2>1. UNCHANGED poolOnly
    BY <1>5 DEF WorkerStep, Split, FetchAdd, Compress, Pop, Steal
  <2> QED
    BY <1>1, <2>1 DEF poolOnly, fileVars, outVars
<1>6. CASE Collect
  BY <1>1, <1>6 DEF Collect, fileVars, outVars, Early
<1>7. CASE WriteRecord
  <2> DEFINE record == ChunkRecord(slots[written + 1], packed[written + 1])
  <2>1. written + 1 \in 1 .. Len(chunks)
    BY <1>7, <1>t DEF WriteRecord
  <2>2. slots[written + 1] \in Int /\ packed[written + 1] \in Seq(Bytes)
    <3>1. slots[written + 1] \in Nat \cup {NoId}
      BY <1>t, <2>1
    <3>2. packed[written + 1] \in Seq(Bytes)
      BY <1>t, <2>1
    <3> QED
      BY <3>1, <3>2, IdIsInt
  <2>3. record \in Seq(Cells) /\ \A i \in 1 .. Len(record) : record[i].k # "footer"
    BY <2>2, ChunkRecordType, RecordHasNoFooter
  <2>4. Emit(record, "write") /\ pc = "write" /\ UNCHANGED <<files, cur, entries, index_offset>>
    BY <1>7 DEF WriteRecord, fileVars
  <2> HIDE DEF record
  <2>5. out' = out \o record /\ pc' \in {"write", "failed"}
    BY <1>t, <2>3, <2>4, EmitType
  <2>6. NoFooter' /\ FooterEnd'
    BY <2>3, <2>4, <2>5, StillNoFooter DEF Early
  <2> QED
    BY <2>4, <2>5, <2>6 DEF EntryCount, IndexSoFar
<1>8. CASE PushEntry
  <2>1. /\ pc = "write" /\ pc' = "file" /\ cur' = cur + 1
        /\ Len(entries') = Len(entries) + 1
        /\ UNCHANGED <<out, index_offset, files>>
    BY <1>8, <1>t DEF PushEntry, outVars
  <2> QED
    BY <1>t, <2>1 DEF NoFooter, FooterEnd, EntryCount, IndexSoFar, Early
<1>9. CASE StartIndex
  <2>1. /\ pc = "file" /\ pc' \in {"index", "failed"} /\ cur > Len(files)
        /\ index_offset' = Len(out) /\ written' = 0
        /\ UNCHANGED <<out, entries, files, cur>>
    BY <1>9 DEF StartIndex, WriteFailed, fileVars
  <2>2. Len(entries) = Len(files)
    BY <1>t, <2>1 DEF EntryCount
  <2> QED
    BY <1>t, <2>1, <2>2 DEF NoFooter, FooterEnd, EntryCount, IndexSoFar, Early
<1>10. CASE WriteEntry
  <2> DEFINE cell == EntryCell(entries[written + 1])
  <2>1. cell \in Cells /\ cell.k # "footer"
    <3>1. entries[written + 1] \in EntryRecords
      BY <1>10, <1>t DEF WriteEntry
    <3> QED
      BY <3>1 DEF EntryCell, Cells
  <2>2. cell = EntryCell(entries[written + 1])
    OBVIOUS
  <2>3. /\ Emit(<<cell>>, "index") /\ pc = "index" /\ written' = written + 1
        /\ written < Len(entries)
        /\ UNCHANGED <<files, cur, entries, index_offset>>
    BY <1>10 DEF WriteEntry, fileVars
  <2> HIDE DEF cell
  <2>4. <<cell>> \in Seq(Cells)
    BY <2>1
  <2>5. out' = out \o <<cell>> /\ pc' \in {"index", "failed"}
    BY <1>t, <2>3, <2>4, EmitType
  <2>6. NoFooter' /\ FooterEnd'
    BY <2>1, <2>3, <2>5, StillNoFooterOne DEF Early
  <2>7. IndexSoFar'
    <3>1. /\ Len(out') = Len(out) + 1
          /\ \A p \in 1 .. Len(out) : out'[p] = out[p]
          /\ out'[Len(out) + 1] = cell
      BY <1>t, <2>1, <2>5, AppendedOne
    <3>2. Len(out) = index_offset + written
      BY <2>3 DEF IndexSoFar
    <3>3. ASSUME NEW i \in 1 .. written + 1
          PROVE  out'[index_offset + i] = EntryCell(entries[i])
      <4>1. CASE i = written + 1
        <5>1. index_offset + i = Len(out) + 1
          BY <1>t, <3>2, <4>1
        <5> QED
          BY <2>2, <3>1, <4>1, <5>1
      <4>2. CASE i # written + 1
        <5>1. i \in 1 .. written /\ index_offset + i \in 1 .. Len(out)
          BY <1>t, <3>2, <4>2
        <5> QED
          BY <2>3, <3>1, <5>1 DEF IndexSoFar
      <4> QED
        BY <4>1, <4>2
    <3> QED
      BY <1>t, <2>3, <3>1, <3>2, <3>3 DEF IndexSoFar
  <2> QED
    BY <2>5, <2>6, <2>7 DEF EntryCount
<1>11. CASE WriteFooter
  <2> DEFINE cell == FooterCell(index_offset, Len(entries))
  <2>1. cell \in Cells
    BY <1>t, FooterType
  <2>2. cell = FooterCell(index_offset, Len(entries))
    OBVIOUS
  <2>3. /\ Emit(<<cell>>, "report") /\ pc = "index" /\ written = Len(entries)
        /\ UNCHANGED <<files, cur, entries, index_offset>>
    BY <1>11 DEF WriteFooter, fileVars
  <2> HIDE DEF cell
  <2>4. <<cell>> \in Seq(Cells)
    BY <2>1
  <2>5. out' = out \o <<cell>> /\ pc' \in {"report", "failed"}
    BY <1>t, <2>3, <2>4, EmitType
  <2>6. /\ Len(out') = Len(out) + 1
        /\ \A p \in 1 .. Len(out) : out'[p] = out[p]
        /\ out'[Len(out) + 1] = cell
        /\ DOMAIN out' = 1 .. Len(out) + 1 /\ DOMAIN out = 1 .. Len(out)
    BY <1>t, <2>1, <2>5, AppendedOne
  <2>7. Whole'
    <3>1. /\ Len(out) = index_offset + Len(entries)
          /\ \A i \in 1 .. Len(entries) : out[index_offset + i] = EntryCell(entries[i])
          /\ Len(entries) = Len(files)
      BY <2>3 DEF IndexSoFar
    <3>2. \A i \in 1 .. Len(entries) : index_offset + i \in 1 .. Len(out)
      BY <1>t, <3>1
    <3> QED
      BY <1>t, <2>2, <2>3, <2>6, <3>1, <3>2 DEF Whole
  <2>8. FooterEnd'
    <3>1. \A p \in DOMAIN out : out[p].k # "footer"
      BY <2>3 DEF NoFooter, Early
    <3> SUFFICES ASSUME NEW p \in DOMAIN out', out'[p].k = "footer"
                 PROVE  p = Len(out') /\ Whole'
      BY DEF FooterEnd
    <3>2. p \notin DOMAIN out
      BY <2>6, <3>1
    <3>3. p = Len(out) + 1 /\ Len(out') = Len(out) + 1
      BY <1>t, <2>6, <3>2
    <3> QED
      BY <2>7, <3>3
  <2> QED
    BY <2>5, <2>8 DEF NoFooter, EntryCount, IndexSoFar, Early
<1>12. CASE Report \/ DropWriter \/ Kill
  BY <1>1, <1>12 DEF Report, DropWriter, Kill, fileVars, outVars, Early
<1>13. CASE UNCHANGED vars
  BY <1>1, <1>13 DEF vars, fileVars, outVars
<1> QED
  BY <1>2, <1>3, <1>4, <1>5, <1>6, <1>7, <1>8, <1>9, <1>10, <1>11, <1>12, <1>13
  DEF Next, Step, MainStep

\* A file that ends with a footer is the whole stream, and its index is the one
\* that was written.
LEMMA FooterMeansWhole == TypeInv /\ FooterInv => NoFalseArchive
<1> SUFFICES ASSUME TypeInv, FooterInv, Accepted(Disk)
             PROVE  /\ Disk = out
                    /\ ReadIndex(Disk) = "ok"
                    /\ IndexEntries(Disk) = entries
                    /\ Len(entries) = Len(files)
  BY DEF NoFalseArchive
<1>t. /\ out \in Seq(Cells) /\ flushed \in 0 .. Len(out) /\ index_offset \in Nat
      /\ entries \in Seq(EntryRecords) /\ Len(out) \in Nat /\ Len(entries) \in Nat
  BY DEF TypeInv, TypeOK
<1>1. /\ Disk \in Seq(Cells) /\ Len(Disk) = flushed
      /\ \A i \in 1 .. flushed : Disk[i] = out[i]
  BY <1>t, SubSeqProperties DEF Disk
<1>2. Disk # <<>> /\ Disk[Len(Disk)].k = "footer"
  BY DEF Accepted, ReadFooter, LastCell
<1>3. flushed \in 1 .. Len(out)
  BY <1>t, <1>1, <1>2
<1>4. out[flushed].k = "footer"
  BY <1>1, <1>2, <1>3
<1>5. flushed = Len(out) /\ Whole
  BY <1>t, <1>3, <1>4 DEF FooterInv, FooterEnd
<1>6. Disk = out
  BY <1>t, <1>1, <1>5
<1> HIDE DEF Disk
<1>7. LastCell(Disk) = FooterCell(index_offset, Len(entries))
  BY <1>5, <1>6 DEF Whole, LastCell
<1>8. /\ LastCell(Disk).index_offset = index_offset
      /\ LastCell(Disk).index_count = Len(entries)
  BY <1>7 DEF FooterCell
<1>9. /\ IndexCells(Disk) \in Seq(Cells)
      /\ DOMAIN IndexCells(Disk) = 1 .. Len(entries)
      /\ \A i \in 1 .. Len(entries) : IndexCells(Disk)[i] = out[index_offset + i]
  <2> DEFINE from == index_offset + 1
             to == index_offset + Len(entries)
  <2>1. IndexCells(Disk) = SubSeq(out, from, to)
    BY <1>6, <1>8 DEF IndexCells
  <2>2. from \in 1 .. Len(out) + 1 /\ to \in from - 1 .. Len(out)
    BY <1>t, <1>5 DEF Whole
  <2>3. /\ SubSeq(out, from, to) \in Seq(Cells)
        /\ Len(SubSeq(out, from, to)) = to - from + 1
        /\ \A i \in 1 .. to - from + 1 : SubSeq(out, from, to)[i] = out[from + i - 1]
    <3>1. from \in Int /\ to \in Int /\ \A i \in from .. to : out[i] \in Cells
      BY <1>t, <2>2
    <3>2. IF from <= to THEN TRUE ELSE to - from + 1 = 0
      BY <1>t, <2>2
    <3> HIDE DEF from, to
    <3>3. /\ SubSeq(out, from, to) \in Seq(Cells)
          /\ Len(SubSeq(out, from, to)) = IF from <= to THEN to - from + 1 ELSE 0
          /\ \A i \in 1 .. to - from + 1 : SubSeq(out, from, to)[i] = out[from + i - 1]
      BY <3>1, SubSeqProperties
    <3> QED
      BY <3>2, <3>3
  <2>4. to - from + 1 = Len(entries) /\ \A i \in 1 .. Len(entries) : from + i - 1 = index_offset + i
    BY <1>t
  <2> HIDE DEF from, to
  <2> QED
    BY <2>1, <2>3, <2>4
<1>10. \A i \in 1 .. Len(entries) : IndexCells(Disk)[i] = EntryCell(entries[i])
  BY <1>5, <1>9 DEF Whole
<1>11. ReadIndex(Disk) = "ok"
  <2>1. LastCell(Disk).index_offset + LastCell(Disk).index_count <= Len(Disk)
    BY <1>t, <1>5, <1>6, <1>8 DEF Whole
  <2>2. ~(LastCell(Disk).index_offset + LastCell(Disk).index_count > Len(Disk))
    BY <1>t, <1>6, <1>8, <2>1
  <2>3. \A i \in DOMAIN IndexCells(Disk) : IndexCells(Disk)[i].k = "entry"
    BY <1>9, <1>10 DEF EntryCell
  <2> QED
    BY <2>2, <2>3 DEF ReadIndex
<1>12. IndexEntries(Disk) = entries
  <2>1. IndexEntries(Disk) = [i \in 1 .. Len(entries) |-> IndexCells(Disk)[i].e]
    BY <1>9 DEF IndexEntries
  <2>2. \A i \in 1 .. Len(entries) : IndexCells(Disk)[i].e = entries[i]
    <3>1. \A e : EntryCell(e).e = e
      BY DEF EntryCell
    <3> QED
      BY <1>10, <3>1
  <2>3. entries = [i \in 1 .. Len(entries) |-> entries[i]]
    BY <1>t
  <2> QED
    BY <2>1, <2>2, <2>3
<1> QED
  BY <1>5, <1>6, <1>11, <1>12 DEF Whole

\* Whatever fails and whenever the process dies, what it leaves is refused by
\* Footer::read (format.rs:251) or is the whole archive with a sound index.
THEOREM WholeOrRefused == Spec => []NoFalseArchive
  BY TypeInit, TypeStep, FooterInit, FooterStep, FooterMeansWhole, PTL DEF Spec

-----------------------------------------------------------------------------
(* The records. *)

\* Where the record of the chunk with the number j, from 0, starts.
RecordAt(j) == 2 + 3 * j

\* What is at p and behind it is the record of a chunk.
IsRecord(p, chunk) ==
  /\ p + 2 <= Len(out)
  /\ \A d \in 1 .. 3 : out[p + d - 1] = ChunkRecord(out[p].id, chunk)[d]

\* The chunks of the input files.
InputChunks ==
  UNION { {SplitIntoChunks(files[i].data)[k] : k \in 1 .. ChunkCount(files[i].data)} :
            i \in 1 .. Len(files) }

HeaderFirst ==
  /\ out # <<>> => out[1] = HeaderCell
  /\ pc = "header" => out = <<>> /\ counter = 0

RecordsWhole ==
  \A p \in DOMAIN out : IsChunk(out[p]) =>
    \E chunk \in InputChunks : IsRecord(p, chunk)

FileInHand ==
  pc \in {"compress", "write"} =>
    /\ chunks = SplitIntoChunks(files[cur].data)
    /\ SanitisePath(files[cur].name) # <<>>
    /\ written <= Len(chunks)

\* The number of records in the stream, which are all there is behind the header.
Recorded == CASE pc = "compress" -> base
              [] pc = "write"    -> base + written
              [] OTHER           -> counter

AllRecords(count) == \A j \in 0 .. count - 1 :
                       RecordAt(j) \in DOMAIN out /\ IsChunk(out[RecordAt(j)])

RecordCount ==
  pc \in {"file", "compress", "write"} =>
    Len(out) = 1 + 3 * Recorded /\ AllRecords(Recorded)

HasFooter == \E p \in DOMAIN out : out[p].k = "footer"

IndexAfterRecords ==
  pc \in {"index", "report", "drop", "done"} \/ HasFooter =>
    index_offset = 1 + 3 * counter /\ AllRecords(counter)

\* An entry says of its file what is so.
EntryOf(i, first_chunk) ==
  [file_id       |-> i - 1,
   first_chunk   |-> first_chunk,
   chunk_count   |-> ChunkCount(files[i].data),
   original_size |-> Len(files[i].data),
   mode          |-> files[i].mode,
   name          |-> files[i].name]

EntriesMatch ==
  \A i \in 1 .. Len(entries) :
    /\ i <= Len(files)
    /\ entries[i] = EntryOf(i, entries[i].first_chunk)
    /\ SanitisePath(files[i].name) # <<>>

StreamInv ==
  /\ HeaderFirst /\ RecordsWhole /\ FileInHand
  /\ RecordCount /\ IndexAfterRecords /\ EntriesMatch

\* The j-th record holds the k-th chunk of a file whose first chunk has the id
\* first.
Placed(j, k, chunk, first) ==
  /\ j \in Nat /\ IsRecord(RecordAt(j), chunk)
  /\ k = 1 => out[RecordAt(j)].id = first

\* The records of the i-th file follow each other, from the j-th on, and its
\* entry has the id that the first of them carries.
LaidFrom(i, j) ==
  /\ j \in Nat
  /\ \A k \in 1 .. ChunkCount(files[i].data) :
       Placed(j + k - 1, k, SplitIntoChunks(files[i].data)[k], entries[i].first_chunk)

FilesLaid ==
  /\ \A i \in 1 .. Len(entries) : \E j \in Nat : LaidFrom(i, j)
  /\ pc = "write" => \A k \in 1 .. written : Placed(base + k - 1, k, chunks[k], slots[1])

\* With one worker the number of a record is its chunk's id.
SerialStream == \A p \in DOMAIN out : IsChunk(out[p]) => p = RecordAt(out[p].id)

SerialStreamInv == \A w \in Workers : Workers = {w} => SerialStream

-----------------------------------------------------------------------------
(* What is written once stays. *)

\* The stream is what it was, and perhaps more.
Grows ==
  /\ Len(out') \in Nat /\ Len(out') >= Len(out)
  /\ DOMAIN out' = 1 .. Len(out')
  /\ \A p \in 1 .. Len(out) : out'[p] = out[p]

LEMMA OutType ==
  ASSUME TypeInv
  PROVE  out \in Seq(Cells) /\ Len(out) \in Nat /\ DOMAIN out = 1 .. Len(out)
  BY DEF TypeInv, TypeOK

LEMMA RecordKept ==
  ASSUME TypeInv, Grows, NEW p \in Nat \ {0}, NEW chunk, IsRecord(p, chunk)
  PROVE  IsRecord(p, chunk)'
<1>1. Len(out) \in Nat /\ p + 2 <= Len(out)
  BY DEF TypeInv, TypeOK, IsRecord
<1>2. p \in 1 .. Len(out) /\ \A d \in 1 .. 3 : p + d - 1 \in 1 .. Len(out)
  BY <1>1
<1> QED
  BY <1>1, <1>2 DEF IsRecord, Grows

LEMMA AllRecordsKept ==
  ASSUME TypeInv, Grows, NEW count \in Int, AllRecords(count)
  PROVE  AllRecords(count)'
  BY SMTT(60) DEF AllRecords, Grows, TypeInv, TypeOK, RecordAt, IsChunk

LEMMA RecordsWholeKept ==
  ASSUME TypeInv, Grows, RecordsWhole, UNCHANGED files,
         NEW p \in 1 .. Len(out), IsChunk(out'[p])
  PROVE  \E chunk \in InputChunks' : IsRecord(p, chunk)'
<1>1. p \in DOMAIN out /\ out'[p] = out[p] /\ p \in Nat \ {0}
  BY OutType DEF Grows
<1>2. PICK chunk \in InputChunks : IsRecord(p, chunk)
  BY <1>1 DEF RecordsWhole, IsChunk
<1>3. IsRecord(p, chunk)'
  BY <1>1, <1>2, RecordKept
<1>4. InputChunks' = InputChunks
  BY DEF InputChunks
<1> QED
  BY <1>3, <1>4

LEMMA PlacedKept ==
  ASSUME TypeInv, Grows, NEW j, NEW k, NEW chunk, NEW first, Placed(j, k, chunk, first)
  PROVE  Placed(j, k, chunk, first)'
<1>1. /\ j \in Nat /\ IsRecord(RecordAt(j), chunk)
      /\ k = 1 => out[RecordAt(j)].id = first
  BY DEF Placed
<1>2. RecordAt(j) \in Nat \ {0}
  BY <1>1 DEF RecordAt
<1>3. IsRecord(RecordAt(j), chunk)'
  BY <1>1, <1>2, RecordKept
<1>4. RecordAt(j) \in 1 .. Len(out)
  <2>1. RecordAt(j) + 2 <= Len(out)
    BY <1>1 DEF IsRecord
  <2>2. Len(out) \in Nat
    BY OutType
  <2> QED
    BY <1>2, <2>1, <2>2
<1> QED
  BY <1>1, <1>3, <1>4 DEF Placed, Grows

-----------------------------------------------------------------------------
(* The steps. *)

\* The stream is empty at first ...
LEMMA StreamInit == Init => StreamInv /\ FilesLaid /\ SerialStreamInv
  BY DEF Init, StreamInv, FilesLaid, SerialStreamInv, SerialStream, HeaderFirst, RecordsWhole,
         FileInHand, RecordCount, IndexAfterRecords, HasFooter, EntriesMatch

\* Steps that write nothing and that only the main thread's place tells apart.
LEMMA StreamWaits ==
  ASSUME TypeInv, StreamInv,
         UNCHANGED <<out, files, cur, chunks, base, counter, written, entries, index_offset>>,
         \/ pc' \in {pc, "failed", "killed"}
         \/ pc = "report" /\ pc' = "drop"
         \/ pc = "drop" /\ pc' = "done"
         \/ pc = "compress" /\ pc' = "write" /\ written = 0
  PROVE  StreamInv'
<1>1. HeaderFirst' /\ RecordsWhole'
  <2>1. HeaderFirst'
    BY DEF StreamInv, HeaderFirst
  <2>2. \A p, chunk : IsRecord(p, chunk)' <=> IsRecord(p, chunk)
    BY DEF IsRecord
  <2>3. RecordsWhole'
    BY <2>2 DEF StreamInv, RecordsWhole, IsChunk, InputChunks
  <2> QED
    BY <2>1, <2>3
<1>2. FileInHand'
  BY DEF StreamInv, FileInHand, TypeInv, TypeOK
<1>3. RecordCount'
  <2> SUFFICES ASSUME pc' \in {"file", "compress", "write"} PROVE RecordCount'
    BY DEF RecordCount
  <2>1. CASE pc' = pc
    BY <2>1 DEF StreamInv, RecordCount, Recorded, AllRecords, IsChunk
  <2>2. CASE pc = "compress" /\ pc' = "write" /\ written = 0
    <3>1. Recorded = base /\ Recorded' = base + 0 /\ base \in Nat
      BY <2>2 DEF Recorded, TypeInv, TypeOK
    <3>2. Recorded' = Recorded
      BY <3>1
    <3> QED
      BY <2>2, <3>2 DEF StreamInv, RecordCount, AllRecords, IsChunk
  <2> QED
    BY <2>1, <2>2
<1>4. IndexAfterRecords'
  BY DEF StreamInv, IndexAfterRecords, HasFooter, AllRecords, IsChunk
<1>5. EntriesMatch'
  BY DEF StreamInv, EntriesMatch, EntryOf
<1> QED
  BY <1>1, <1>2, <1>3, <1>4, <1>5 DEF StreamInv

LEMMA AppendGrows ==
  ASSUME TypeInv, NEW cells \in Seq(Cells), out' = out \o cells
  PROVE  Grows /\ Len(out') = Len(out) + Len(cells)
<1>1. /\ Len(out) \in Nat /\ Len(cells) \in Nat
      /\ Len(out') = Len(out) + Len(cells)
      /\ DOMAIN out' = 1 .. Len(out) + Len(cells)
      /\ DOMAIN out = 1 .. Len(out)
      /\ \A p \in DOMAIN out : out'[p] = out[p]
  BY OutType, Appended
<1> QED
  BY <1>1 DEF Grows

\* A cell that is no chunk header, written when the records are all there.
LEMMA OtherCell ==
  ASSUME TypeInv, FooterInv, StreamInv, pc \in {"header", "index"},
         NEW cell \in Cells, cell.k # "chunk", out = <<>> => cell = HeaderCell,
         out' = out \o <<cell>>,
         UNCHANGED <<files, counter, entries, index_offset>>,
         \/ pc = "header" /\ pc' \in {"file", "failed"} /\ cell.k # "footer"
         \/ pc = "index" /\ pc' \in {"index", "report", "failed"}
  PROVE  StreamInv'
<1>1. /\ Grows /\ Len(out') = Len(out) + 1
      /\ out'[Len(out) + 1] = cell
      /\ DOMAIN out' = 1 .. Len(out) + 1
  <2>1. <<cell>> \in Seq(Cells) /\ Len(<<cell>>) = 1
    OBVIOUS
  <2> QED
    BY <2>1, OutType, AppendGrows, AppendedOne
<1>2. HeaderFirst'
  <2>1. CASE out = <<>>
    <3>1. Len(out) + 1 = 1
      BY <2>1
    <3> QED
      BY <1>1, <2>1, <3>1
      DEF HeaderFirst
  <2>2. CASE out # <<>>
    <3>1. 1 \in 1 .. Len(out)
      BY <2>2, OutType
    <3> QED
      BY <1>1, <2>2, <3>1 DEF StreamInv, HeaderFirst, Grows
  <2> QED
    BY <2>1, <2>2
<1>3. RecordsWhole'
  <2> SUFFICES ASSUME NEW p \in DOMAIN out', IsChunk(out'[p])
               PROVE  \E chunk \in InputChunks' : IsRecord(p, chunk)'
    BY DEF RecordsWhole
  <2>1. p \in 1 .. Len(out)
    BY <1>1, OutType DEF IsChunk
  <2> QED
    BY <1>1, <2>1, RecordsWholeKept DEF StreamInv
<1>4. FileInHand'
  BY DEF FileInHand
<1>5. RecordCount'
  <2>1. CASE pc = "header"
    <3>1. Len(out) = 0 /\ counter = 0
      BY <2>1 DEF StreamInv, HeaderFirst
    <3> QED
      BY <1>1, <2>1, <3>1 DEF RecordCount, Recorded, AllRecords
  <2>2. CASE pc = "index"
    BY <2>2 DEF RecordCount
  <2> QED
    BY <2>1, <2>2
<1>6. IndexAfterRecords'
  <2>1. CASE pc = "header"
    <3>1. ~ HasFooter'
      <4>1. Len(out) = 0
        BY <2>1 DEF StreamInv, HeaderFirst
      <4> QED
        BY <1>1, <2>1, <4>1 DEF HasFooter
    <3> QED
      BY <2>1, <3>1 DEF IndexAfterRecords
  <2>2. CASE pc = "index"
    <3>1. index_offset = 1 + 3 * counter /\ AllRecords(counter)
      BY <2>2 DEF StreamInv, IndexAfterRecords
    <3>2. AllRecords(counter)'
      <4>1. counter \in Int /\ counter' = counter
        BY DEF TypeInv, TypeOK
      <4> QED
        BY <1>1, <3>1, <4>1, OutType DEF AllRecords, RecordAt, IsChunk, Grows
    <3> QED
      BY <3>1, <3>2 DEF IndexAfterRecords
  <2> QED
    BY <2>1, <2>2
<1>7. EntriesMatch'
  BY DEF StreamInv, EntriesMatch, EntryOf
<1> QED
  BY <1>2, <1>3, <1>4, <1>5, <1>6, <1>7 DEF StreamInv

\* The record of the next chunk.
LEMMA RecordStep ==
  ASSUME TypeInv, IdInv, FooterInv, StreamInv, WriteRecord,
         NEW at, at = Len(out) + 1, NEW chunk, chunk = chunks[written + 1]
  PROVE  /\ StreamInv'
         /\ Grows /\ Len(out') = Len(out) + 3
         /\ IsRecord(at, chunk)'
         /\ out'[at].id = slots[written + 1]
         /\ \A p \in at .. at + 2 : IsChunk(out'[p]) => p = at
<1> DEFINE id == slots[written + 1]
           record == ChunkRecord(id, chunk)
<1>t. /\ written \in Nat /\ base \in Nat /\ Len(chunks) \in Nat
      /\ chunks \in Seq(Seq(Bytes))
      /\ slots \in [1 .. Len(chunks) -> Nat \cup {NoId}]
      /\ cur \in 1 .. Len(files) /\ Len(files) \in Nat
  <2>1. pc = "write"
    BY DEF WriteRecord
  <2> QED
    BY <2>1, FilesType DEF TypeInv, TypeOK, AtFile
<1>1. /\ pc = "write" /\ written' = written + 1 /\ written + 1 \in 1 .. Len(chunks)
      /\ UNCHANGED <<files, cur, chunks, base, counter, entries, index_offset>>
  BY <1>t DEF WriteRecord, fileVars, poolVars
<1>2. id \in Int /\ chunk \in Seq(Bytes)
  <2>1. slots[written + 1] \in Nat \cup {NoId}
    BY <1>t, <1>1
  <2>2. chunks[written + 1] \in Seq(Bytes)
    BY <1>t, <1>1
  <2> QED
    BY <2>1, <2>2, IdIsInt
<1>3. /\ record \in Seq(Cells) /\ Len(record) = 3
      /\ record[1].k = "chunk" /\ record[1].id = id
      /\ \A i \in 2 .. 3 : record[i].k # "chunk"
  BY <1>2, ChunkRecordType
<1>4. Emit(record, "write")
  <2>1. packed[written + 1] = chunk
    BY <1>t, <1>1 DEF IdInv, DrawnInv, WriteReady, Packed
  <2> QED
    BY <2>1 DEF WriteRecord
<1>r. record = ChunkRecord(id, chunk)
  OBVIOUS
<1> HIDE DEF record
<1>5. out' = out \o record /\ pc' \in {"write", "failed"}
  BY <1>3, <1>4, EmitType DEF TypeInv, TypeOK
<1>6. Grows /\ Len(out') = Len(out) + 3 /\ DOMAIN out' = 1 .. Len(out) + 3
  BY <1>3, <1>5, AppendGrows DEF Grows
<1>7. \A d \in 1 .. 3 : out'[Len(out) + d] = record[d]
  <2>1. \A q \in DOMAIN out' :
          q \in DOMAIN out \/ (q - Len(out) \in 1 .. 3 /\ out'[q] = record[q - Len(out)])
    BY <1>3, <1>5, OutType, Appended
  <2> SUFFICES ASSUME NEW d \in 1 .. 3 PROVE out'[Len(out) + d] = record[d]
    OBVIOUS
  <2>2. Len(out) + d \in DOMAIN out' /\ Len(out) + d \notin DOMAIN out
        /\ Len(out) + d - Len(out) = d
    BY <1>6, OutType
  <2> QED
    BY <2>1, <2>2
<1>a. at \in Nat \ {0} /\ at = Len(out) + 1 /\ \A d \in 1 .. 3 : at + d - 1 = Len(out) + d
  BY OutType
<1>8. /\ IsChunk(out'[at]) /\ out'[at].id = id
      /\ \A p \in at .. at + 2 : IsChunk(out'[p]) => p = at
  <2>1. out'[at] = record[1] /\ out'[at + 1] = record[2] /\ out'[at + 2] = record[3]
    BY <1>7, <1>a
  <2>2. \A p \in at .. at + 2 : p \in {at, at + 1, at + 2}
    BY <1>a
  <2> QED
    BY <1>3, <2>1, <2>2 DEF IsChunk
<1>9. IsRecord(at, chunk)'
  <2>1. at + 2 <= Len(out')
    BY <1>6, <1>a, OutType
  <2>2. \A d \in 1 .. 3 : out'[at + d - 1] = ChunkRecord(out'[at].id, chunk)[d]
    BY <1>7, <1>8, <1>r, <1>a
  <2> QED
    BY <2>1, <2>2 DEF IsRecord
<1>10. HeaderFirst'
  <2>1. 1 \in 1 .. Len(out)
    BY <1>t, <1>1, OutType DEF StreamInv, RecordCount, Recorded
  <2> QED
    BY <1>1, <1>5, <1>6, <2>1 DEF StreamInv, HeaderFirst, Grows
<1>11. RecordsWhole'
  <2> SUFFICES ASSUME NEW p \in DOMAIN out', IsChunk(out'[p])
               PROVE  \E c \in InputChunks' : IsRecord(p, c)'
    BY DEF RecordsWhole
  <2>1. CASE p \in 1 .. Len(out)
    BY <1>1, <1>6, <2>1, RecordsWholeKept DEF StreamInv
  <2>2. CASE p \notin 1 .. Len(out)
    <3>1. p = at
      BY <1>6, <1>8, <1>a, <2>2, OutType
    <3>2. chunk \in InputChunks
      <4>1. chunk = SplitIntoChunks(files[cur].data)[written + 1]
        BY <1>1 DEF StreamInv, FileInHand
      <4>2. written + 1 \in 1 .. ChunkCount(files[cur].data)
        <5>1. files[cur].data \in Seq(Bytes)
          BY <1>t, FilesType DEF TypeInv, TypeOK
        <5>2. Len(chunks) = ChunkCount(files[cur].data)
          BY <1>1, <5>1, SplitType DEF StreamInv, FileInHand
        <5> QED
          BY <1>1, <5>2
      <4> DEFINE of == {SplitIntoChunks(files[cur].data)[k] : k \in 1 .. ChunkCount(files[cur].data)}
      <4>3. chunk \in of
        BY <4>1, <4>2
      <4>4. of \in { {SplitIntoChunks(files[i].data)[k] : k \in 1 .. ChunkCount(files[i].data)} :
                       i \in 1 .. Len(files) }
        BY <1>t
      <4> QED
        BY <4>3, <4>4 DEF InputChunks
    <3>3. InputChunks' = InputChunks
      BY <1>1 DEF InputChunks
    <3> QED
      BY <1>9, <3>1, <3>2, <3>3
  <2> QED
    BY <2>1, <2>2
<1>12. FileInHand'
  BY <1>t, <1>1 DEF StreamInv, FileInHand
<1>13. RecordCount'
  <2> SUFFICES ASSUME pc' = "write" PROVE RecordCount'
    BY <1>5 DEF RecordCount
  <2>1. Len(out) = 1 + 3 * (base + written) /\ AllRecords(base + written)
    BY <1>1 DEF StreamInv, RecordCount, Recorded
  <2>2. ASSUME NEW n, n = base + written + 1 PROVE AllRecords(n)'
    <3> SUFFICES ASSUME NEW j \in 0 .. n - 1
                 PROVE  RecordAt(j) \in DOMAIN out' /\ IsChunk(out'[RecordAt(j)])
      BY DEF AllRecords, RecordAt
    <3>n. j \in 0 .. base + written
      BY <1>t, <2>2
    <3>1. CASE j = base + written
      BY <1>6, <1>8, <1>a, <2>1, <3>1, <1>t, OutType DEF RecordAt
    <3>2. CASE j # base + written
      <4>1. j \in 0 .. (base + written) - 1
        BY <1>t, <3>n, <3>2
      <4>2. RecordAt(j) \in DOMAIN out /\ IsChunk(out[RecordAt(j)])
        BY <1>t, <2>1, <4>1 DEF AllRecords
      <4> QED
        BY <1>6, <4>2, OutType DEF Grows, IsChunk
    <3> QED
      BY <3>1, <3>2
  <2>3. Recorded' = base + written + 1
    BY <1>1, <1>t DEF Recorded
  <2>4. Len(out') = 1 + 3 * (base + written + 1)
    BY <1>6, <1>t, <2>1, OutType
  <2>5. AllRecords(Recorded)'
    BY <2>2, <2>3 DEF AllRecords
  <2> QED
    BY <2>3, <2>4, <2>5 DEF RecordCount
<1>14. IndexAfterRecords'
  <2>1. ~ HasFooter'
    <3>1. NoFooter'
      <4>1. \A i \in 1 .. Len(record) : record[i].k # "footer"
        BY <1>2, <1>r, RecordHasNoFooter
      <4> QED
        BY <1>1, <1>3, <1>5, <4>1, StillNoFooter DEF Early
    <3>2. \A p \in 1 .. Len(out) : out[p].k # "footer"
      BY <1>1, OutType DEF FooterInv, NoFooter, Early
    <3>3. \A i \in 1 .. 3 : record[i].k # "footer"
      BY <1>2, <1>3, <1>r, RecordHasNoFooter
    <3>4. \A p \in DOMAIN out' : p \in 1 .. Len(out) \/ \E d \in 1 .. 3 : p = Len(out) + d
      <4> SUFFICES ASSUME NEW p \in 1 .. Len(out) + 3, p \notin 1 .. Len(out)
                   PROVE  \E d \in 1 .. 3 : p = Len(out) + d
        BY <1>6
      <4>1. p - Len(out) \in 1 .. 3 /\ p = Len(out) + (p - Len(out))
        BY OutType
      <4> QED
        BY <4>1
    <3> QED
      BY <1>6, <1>7, <3>2, <3>3, <3>4 DEF HasFooter, Grows
  <2> QED
    BY <1>5, <2>1 DEF IndexAfterRecords
<1>15. EntriesMatch'
  BY <1>1 DEF StreamInv, EntriesMatch, EntryOf
<1> QED
  BY <1>6, <1>8, <1>9, <1>10, <1>11, <1>12, <1>13, <1>14, <1>15 DEF StreamInv

\* ... and every step keeps what its readers rely on.
LEMMA StreamStep ==
  TypeInv /\ IdInv /\ PoolInv /\ BlockInv /\ FooterInv /\ StreamInv /\ [Next]_vars => StreamInv'
<1> SUFFICES ASSUME TypeInv, IdInv, PoolInv, BlockInv, FooterInv, StreamInv, [Next]_vars
             PROVE  StreamInv'
  OBVIOUS
<1>t. /\ written \in Nat /\ base \in Nat /\ counter \in Nat /\ Len(chunks) \in Nat
      /\ chunks \in Seq(Seq(Bytes)) /\ entries \in Seq(EntryRecords) /\ Len(entries) \in Nat
      /\ cur \in 1 .. Len(files) + 1 /\ Len(files) \in Nat /\ index_offset \in Nat
  BY FilesType DEF TypeInv, TypeOK
<1>1. CASE WriteHeader
  <2>1. HeaderCell \in Cells /\ HeaderCell.k # "chunk" /\ HeaderCell.k # "footer"
    BY DEF Cells, HeaderCell
  <2>2. Emit(<<HeaderCell>>, "file") /\ <<HeaderCell>> \in Seq(Cells)
    BY <1>1, <2>1 DEF WriteHeader
  <2>3. out' = out \o <<HeaderCell>> /\ pc' \in {"file", "failed"}
    BY <2>2, EmitType DEF TypeInv, TypeOK
  <2>4. pc = "header" /\ UNCHANGED <<files, counter, entries, index_offset>>
    BY <1>1 DEF WriteHeader, poolVars
  <2> QED
    BY <2>1, <2>3, <2>4, OtherCell
<1>2. CASE RefuseFile \/ Collect \/ Report \/ DropWriter \/ Kill \/ UNCHANGED vars
  <2>1. Collect => written = 0
    BY DEF Collect, IdInv, DrawnInv, WriteReady
  <2> QED
    BY <1>2, <2>1, StreamWaits
    DEF RefuseFile, Collect, Report, DropWriter, Kill, vars, fileVars, poolVars, outVars
<1>3. CASE StartFile
  <2>1. /\ pc = "file" /\ pc' = "compress" /\ base' = counter /\ written' = 0
        /\ chunks' = SplitIntoChunks(files[cur].data) /\ SanitisePath(files[cur].name) # <<>>
        /\ UNCHANGED <<out, files, cur, counter, entries, index_offset>>
    BY <1>3 DEF StartFile, outVars
  <2>2. HeaderFirst'
    BY <2>1 DEF StreamInv, HeaderFirst
  <2>7. RecordsWhole'
    BY <2>1 DEF StreamInv, RecordsWhole, IsChunk, InputChunks, IsRecord
  <2>3. FileInHand'
    <3>1. files[cur].data \in Seq(Bytes)
      <4>1. cur <= Len(files)
        BY <1>3 DEF StartFile
      <4> QED
        BY <1>t, <4>1, FilesType DEF TypeInv, TypeOK
    <3>2. Len(chunks') \in Nat
      BY <2>1, <3>1, SplitType, ChunkCountNat
    <3> QED
      BY <2>1, <3>2 DEF FileInHand
  <2>4. RecordCount'
    BY <2>1 DEF StreamInv, RecordCount, Recorded, AllRecords, IsChunk
  <2>5. IndexAfterRecords'
    BY <2>1 DEF StreamInv, IndexAfterRecords, HasFooter, AllRecords, IsChunk
  <2>6. EntriesMatch'
    BY <2>1 DEF StreamInv, EntriesMatch, EntryOf
  <2> QED
    BY <2>2, <2>3, <2>4, <2>5, <2>6, <2>7 DEF StreamInv
<1>4. ASSUME NEW w \in Workers, WorkerStep(w) PROVE StreamInv'
  <2>1. pc = "compress" /\ UNCHANGED poolOnly
    BY <1>4 DEF WorkerStep, Split, FetchAdd, Compress, Pop, Steal
  <2>2. /\ UNCHANGED <<files, pc, cur, chunks, base, written, entries, out, index_offset>>
    BY <2>1 DEF poolOnly, fileVars, outVars
  <2>3. HeaderFirst'
    BY <2>1, <2>2 DEF StreamInv, HeaderFirst
  <2>7. RecordsWhole'
    BY <2>2 DEF StreamInv, RecordsWhole, IsChunk, InputChunks, IsRecord
  <2>4. FileInHand' /\ EntriesMatch'
    BY <2>2 DEF StreamInv, FileInHand, EntriesMatch, EntryOf
  <2>5. RecordCount'
    BY <2>1, <2>2 DEF StreamInv, RecordCount, Recorded, AllRecords, IsChunk
  <2>6. IndexAfterRecords'
    BY <2>1, <2>2 DEF FooterInv, NoFooter, Early, IndexAfterRecords, HasFooter
  <2> QED
    BY <2>3, <2>4, <2>5, <2>6, <2>7 DEF StreamInv
<1>5. CASE WriteRecord
  <2>1. PICK at : at = Len(out) + 1
    OBVIOUS
  <2>2. PICK chunk : chunk = chunks[written + 1]
    OBVIOUS
  <2> QED
    BY <1>5, <2>1, <2>2, RecordStep
<1>6. CASE PushEntry
  <2>1. /\ pc = "write" /\ pc' = "file" /\ written = Len(chunks) /\ cur' = cur + 1
        /\ UNCHANGED <<out, files, chunks, base, counter, written, index_offset>>
    BY <1>6 DEF PushEntry, outVars, poolVars
  <2>2. cur \in 1 .. Len(files) /\ Len(entries) = cur - 1
    BY <1>t, <2>1 DEF TypeInv, AtFile, FooterInv, EntryCount
  <2>3. HeaderFirst'
    BY <2>1 DEF StreamInv, HeaderFirst
  <2>8. RecordsWhole'
    BY <2>1 DEF StreamInv, RecordsWhole, IsChunk, InputChunks, IsRecord
  <2>4. FileInHand'
    BY <2>1 DEF FileInHand
  <2>5. RecordCount'
    <3>1. counter = base + written
      BY <2>1, FullBlock DEF BlockOfIds
    <3> QED
      BY <2>1, <3>1 DEF StreamInv, RecordCount, Recorded, AllRecords, IsChunk
  <2>6. IndexAfterRecords'
    BY <2>1 DEF StreamInv, IndexAfterRecords, HasFooter, AllRecords, IsChunk
  <2>7. EntriesMatch'
    <3> DEFINE entry == EntryOf(cur, FirstChunk)
    <3>1. entries' = Append(entries, entry)
      <4>1. Len(chunks) = ChunkCount(files[cur].data)
        <5>1. files[cur].data \in Seq(Bytes)
          BY <2>2, FilesType DEF TypeInv, TypeOK
        <5> QED
          BY <2>1, <5>1, SplitType DEF StreamInv, FileInHand
      <4> QED
        BY <1>6, <4>1 DEF PushEntry, EntryOf
    <3>2. entry = EntryOf(cur, entry.first_chunk)
      BY DEF EntryOf
    <3> HIDE DEF entry
    <3>3. /\ Len(entries') = cur
          /\ entries'[cur] = entry
          /\ \A i \in 1 .. Len(entries) : entries'[i] = entries[i]
      BY <1>t, <2>2, <3>1
    <3>4. SanitisePath(files[cur].name) # <<>>
      BY <2>1 DEF StreamInv, FileInHand
    <3>5. ASSUME NEW i \in 1 .. cur
          PROVE  /\ i <= Len(files)
                 /\ SanitisePath(files[i].name) # <<>>
                 /\ (entries[i] = EntryOf(i, entries[i].first_chunk))'
      <4>1. CASE i = cur
        BY <1>t, <2>1, <2>2, <3>2, <3>3, <3>4, <4>1 DEF EntryOf
      <4>2. CASE i # cur
        <5>1. i \in 1 .. Len(entries)
          BY <1>t, <2>2, <4>2
        <5> QED
          BY <2>1, <3>3, <5>1 DEF StreamInv, EntriesMatch, EntryOf
      <4> QED
        BY <4>1, <4>2
    <3> QED
      BY <2>1, <3>3, <3>5 DEF EntriesMatch
  <2> QED
    BY <2>3, <2>4, <2>5, <2>6, <2>7, <2>8 DEF StreamInv
<1>7. CASE StartIndex
  <2>1. /\ pc = "file" /\ pc' \in {"index", "failed"} /\ index_offset' = Len(out)
        /\ UNCHANGED <<out, files, counter, entries>>
    BY <1>7 DEF StartIndex, WriteFailed, fileVars, poolVars
  <2>2. HeaderFirst' /\ RecordsWhole'
    BY <2>1 DEF StreamInv, HeaderFirst, RecordsWhole, IsChunk, InputChunks, IsRecord
  <2>3. FileInHand' /\ RecordCount' /\ EntriesMatch'
    BY <2>1 DEF StreamInv, FileInHand, RecordCount, EntriesMatch, EntryOf
  <2>4. IndexAfterRecords'
    BY <2>1 DEF StreamInv, RecordCount, Recorded, IndexAfterRecords, AllRecords, IsChunk
  <2> QED
    BY <2>2, <2>3, <2>4 DEF StreamInv
<1>n. pc = "index" => out # <<>>
  <2> SUFFICES ASSUME pc = "index" PROVE out # <<>>
    OBVIOUS
  <2>1. Len(out) = index_offset + written /\ index_offset = 1 + 3 * counter
    BY DEF FooterInv, IndexSoFar, StreamInv, IndexAfterRecords
  <2>2. Len(out) >= 1
    BY <1>t, <2>1
  <2> QED
    BY <2>2
<1>8. CASE WriteEntry
  <2> DEFINE cell == EntryCell(entries[written + 1])
  <2>1. cell \in Cells /\ cell.k # "chunk"
    <3>1. entries[written + 1] \in EntryRecords
      BY <1>8, <1>t DEF WriteEntry
    <3> QED
      BY <3>1 DEF EntryCell, Cells
  <2>2. /\ Emit(<<cell>>, "index") /\ pc = "index"
        /\ UNCHANGED <<files, counter, entries, index_offset>>
    BY <1>8 DEF WriteEntry, poolVars
  <2> HIDE DEF cell
  <2>4. <<cell>> \in Seq(Cells)
    BY <2>1
  <2>3. out' = out \o <<cell>> /\ pc' \in {"index", "failed"}
    BY <2>2, <2>4, EmitType DEF TypeInv, TypeOK
  <2> QED
    BY <1>n, <2>1, <2>2, <2>3, OtherCell
<1>9. CASE WriteFooter
  <2> DEFINE cell == FooterCell(index_offset, Len(entries))
  <2>1. cell \in Cells /\ cell.k # "chunk"
    BY <1>t, FooterType DEF FooterCell
  <2>2. /\ Emit(<<cell>>, "report") /\ pc = "index"
        /\ UNCHANGED <<files, counter, entries, index_offset>>
    BY <1>9 DEF WriteFooter, poolVars
  <2> HIDE DEF cell
  <2>4. <<cell>> \in Seq(Cells)
    BY <2>1
  <2>3. out' = out \o <<cell>> /\ pc' \in {"report", "failed"}
    BY <2>2, <2>4, EmitType DEF TypeInv, TypeOK
  <2> QED
    BY <1>n, <2>1, <2>2, <2>3, OtherCell
<1> QED
  BY <1>1, <1>2, <1>3, <1>4, <1>5, <1>6, <1>7, <1>8, <1>9 DEF Next, Step, MainStep

-----------------------------------------------------------------------------
(* Where the records lie. *)

\* The records that the entries lead to are still there ...
LEMMA EntriesKept ==
  ASSUME TypeInv, Grows, NEW i, NEW j \in Nat, LaidFrom(i, j),
         files' = files, entries'[i] = entries[i]
  PROVE  LaidFrom(i, j)'
<1> SUFFICES ASSUME NEW k \in 1 .. ChunkCount(files[i].data)
             PROVE  Placed(j + k - 1, k, SplitIntoChunks(files[i].data)[k],
                           entries[i].first_chunk)'
  BY DEF LaidFrom
<1>1. PICK n, chunk, first : /\ n = j + k - 1 /\ first = entries[i].first_chunk
                             /\ chunk = SplitIntoChunks(files[i].data)[k]
  OBVIOUS
<1>2. Placed(n, k, chunk, first)'
  BY <1>1, PlacedKept DEF LaidFrom
<1>3. n = (j + k - 1)' /\ chunk = (SplitIntoChunks(files[i].data)[k])'
      /\ first = (entries[i].first_chunk)'
  BY <1>1
<1> QED
  BY <1>2, <1>3 DEF Placed, IsRecord

\* ... and so are those of the file in hand.
LEMMA HandKept ==
  ASSUME TypeInv, Grows, FilesLaid, pc = "write", UNCHANGED <<base, chunks, slots>>,
         NEW k \in 1 .. written
  PROVE  Placed(base + k - 1, k, chunks[k], slots[1])'
<1>1. PICK n, chunk, first : n = base + k - 1 /\ chunk = chunks[k] /\ first = slots[1]
  OBVIOUS
<1>2. Placed(n, k, chunk, first)'
  BY <1>1, PlacedKept DEF FilesLaid
<1>3. n = (base + k - 1)' /\ chunk = (chunks[k])' /\ first = (slots[1])'
  BY <1>1
<1> QED
  BY <1>2, <1>3 DEF Placed, IsRecord

\* The same cells are the same stream.
LEMMA SameGrows ==
  ASSUME TypeInv, UNCHANGED out
  PROVE  Grows /\ \A p \in DOMAIN out' : IsChunk(out'[p]) => p \in 1 .. Len(out)
  BY OutType DEF Grows

LEMMA OneGrows ==
  ASSUME TypeInv, NEW cell \in Cells, cell.k # "chunk", out' = out \o <<cell>>
  PROVE  Grows /\ \A p \in DOMAIN out' : IsChunk(out'[p]) => p \in 1 .. Len(out)
<1>1. <<cell>> \in Seq(Cells)
  OBVIOUS
<1> QED
  BY <1>1, OutType, AppendGrows, NoNewChunk

\* Nothing happens to the records, and the next ones are not yet written.
NoRecord ==
  /\ Grows /\ UNCHANGED <<files, entries>>
  /\ \A p \in DOMAIN out' : IsChunk(out'[p]) => p \in 1 .. Len(out)
  /\ pc' = "write" => written' = 0 \/ UNCHANGED <<pc, base, chunks, written, slots>>

LEMMA StreamSteps ==
  ASSUME TypeInv, IdInv, [Next]_vars
  PROVE  NoRecord \/ WriteRecord \/ PushEntry
<1>t. /\ written \in Nat /\ entries \in Seq(EntryRecords) /\ Len(entries) \in Nat
      /\ index_offset \in Nat
  BY DEF TypeInv, TypeOK
<1>1. ASSUME UNCHANGED <<out, files, entries>>,
             pc' = "write" => written' = 0 \/ UNCHANGED <<pc, base, chunks, written, slots>>
      PROVE  NoRecord
  BY <1>1, SameGrows DEF NoRecord
<1>2. ASSUME NEW cell \in Cells, cell.k # "chunk", out' = out \o <<cell>>, pc' # "write",
             UNCHANGED <<files, entries>>
      PROVE  NoRecord
  BY <1>2, OneGrows DEF NoRecord
<1>3. CASE WriteHeader
  <2>1. HeaderCell \in Cells /\ HeaderCell.k # "chunk"
    BY DEF Cells, HeaderCell
  <2>2. Emit(<<HeaderCell>>, "file") /\ <<HeaderCell>> \in Seq(Cells)
    BY <1>3, <2>1 DEF WriteHeader
  <2>3. out' = out \o <<HeaderCell>> /\ pc' \in {"file", "failed"}
    BY <2>2, EmitType DEF TypeInv, TypeOK
  <2>4. UNCHANGED <<files, entries>>
    BY <1>3 DEF WriteHeader
  <2> QED
    BY <1>2, <2>1, <2>3, <2>4
<1>4. CASE RefuseFile \/ Report \/ DropWriter \/ Kill \/ UNCHANGED vars
  BY <1>1, <1>4 DEF RefuseFile, Report, DropWriter, Kill, vars, fileVars, poolVars, outVars
<1>5. CASE StartFile \/ StartIndex
  BY <1>1, <1>5 DEF StartFile, StartIndex, WriteFailed, outVars, fileVars
<1>6. CASE Collect
  BY <1>1, <1>6 DEF Collect, IdInv, DrawnInv, WriteReady, fileVars, outVars
<1>7. ASSUME NEW v \in Workers, WorkerStep(v) PROVE NoRecord
  <2>1. pc = "compress" /\ UNCHANGED poolOnly
    BY <1>7 DEF WorkerStep, Split, FetchAdd, Compress, Pop, Steal
  <2> QED
    BY <1>1, <2>1 DEF poolOnly, fileVars, outVars
<1>8. CASE WriteEntry
  <2> DEFINE cell == EntryCell(entries[written + 1])
  <2>1. cell \in Cells /\ cell.k # "chunk"
    <3>1. entries[written + 1] \in EntryRecords
      BY <1>8, <1>t DEF WriteEntry
    <3> QED
      BY <3>1 DEF EntryCell, Cells
  <2>2. Emit(<<cell>>, "index") /\ UNCHANGED <<files, entries>>
    BY <1>8 DEF WriteEntry
  <2> HIDE DEF cell
  <2>3. <<cell>> \in Seq(Cells)
    BY <2>1
  <2>4. out' = out \o <<cell>> /\ pc' \in {"index", "failed"}
    BY <2>2, <2>3, EmitType DEF TypeInv, TypeOK
  <2>5. PICK c : c = cell
    OBVIOUS
  <2> QED
    BY <1>2, <2>1, <2>2, <2>4, <2>5
<1>9. CASE WriteFooter
  <2> DEFINE cell == FooterCell(index_offset, Len(entries))
  <2>1. cell \in Cells /\ cell.k # "chunk"
    BY <1>t, FooterType DEF FooterCell
  <2>2. Emit(<<cell>>, "report") /\ UNCHANGED <<files, entries>>
    BY <1>9 DEF WriteFooter
  <2> HIDE DEF cell
  <2>3. <<cell>> \in Seq(Cells)
    BY <2>1
  <2>4. out' = out \o <<cell>> /\ pc' \in {"report", "failed"}
    BY <2>2, <2>3, EmitType DEF TypeInv, TypeOK
  <2>5. PICK c : c = cell
    OBVIOUS
  <2> QED
    BY <1>2, <2>1, <2>2, <2>4, <2>5
<1> QED
  BY <1>3, <1>4, <1>5, <1>6, <1>7, <1>8, <1>9 DEF Next, Step, MainStep

\* A record is the next one of the file in hand.
LEMMA NextRecord ==
  ASSUME TypeInv, IdInv, FooterInv, StreamInv, WriteRecord,
         NEW at, at = Len(out) + 1, NEW chunk, chunk = chunks[written + 1]
  PROVE  /\ pc = "write" /\ written' = written + 1 /\ written + 1 \in 1 .. Len(chunks)
         /\ UNCHANGED <<files, chunks, base, entries, slots>>
         /\ Grows /\ IsRecord(at, chunk)'
         /\ out'[at].id = slots[written + 1]
         /\ \A p \in DOMAIN out' : IsChunk(out'[p]) => p \in 1 .. Len(out) \/ p = at
         /\ at = RecordAt(base + written) /\ base + written \in Nat
<1>1. written \in Nat /\ base \in Nat /\ Len(chunks) \in Nat
  BY DEF TypeInv, TypeOK
<1>2. /\ pc = "write" /\ written' = written + 1 /\ written + 1 \in 1 .. Len(chunks)
      /\ UNCHANGED <<files, chunks, base, entries, slots>>
  BY <1>1 DEF WriteRecord, fileVars, poolVars
<1>4. /\ Grows /\ Len(out') = Len(out) + 3
      /\ IsRecord(at, chunk)'
      /\ out'[at].id = slots[written + 1]
      /\ \A p \in at .. at + 2 : IsChunk(out'[p]) => p = at
  BY RecordStep
<1>5. \A p \in DOMAIN out' : p \in 1 .. Len(out) \/ p \in at .. at + 2
  BY <1>4, OutType DEF Grows
<1>6. Len(out) = 1 + 3 * (base + written)
  BY <1>2 DEF StreamInv, RecordCount, Recorded
<1>7. at = RecordAt(base + written) /\ base + written \in Nat
  BY <1>1, <1>6 DEF RecordAt
<1> QED
  BY <1>2, <1>4, <1>5, <1>7

LEMMA FilesLaidStep ==
  TypeInv /\ IdInv /\ FooterInv /\ StreamInv /\ FilesLaid /\ [Next]_vars => FilesLaid'
<1> SUFFICES ASSUME TypeInv, IdInv, FooterInv, StreamInv, FilesLaid, [Next]_vars
             PROVE  FilesLaid'
  OBVIOUS
<1>t. /\ written \in Nat /\ base \in Nat /\ Len(chunks) \in Nat
      /\ entries \in Seq(EntryRecords) /\ Len(entries) \in Nat
      /\ cur \in 1 .. Len(files) + 1 /\ Len(files) \in Nat
  BY FilesType DEF TypeInv, TypeOK
<1>1. ASSUME Grows, UNCHANGED <<files, entries>>
      PROVE  \A i \in 1 .. Len(entries') : \E j \in Nat : LaidFrom(i, j)'
  <2> TAKE i \in 1 .. Len(entries')
  <2>1. PICK j \in Nat : LaidFrom(i, j)
    BY <1>1 DEF FilesLaid
  <2> QED
    BY <1>1, <2>1, EntriesKept
<1>2. CASE NoRecord
  <2>1. pc' = "write" => \A k \in 1 .. written' : Placed(base + k - 1, k, chunks[k], slots[1])'
    BY <1>2, HandKept DEF NoRecord
  <2> QED
    BY <1>1, <1>2, <2>1 DEF NoRecord, FilesLaid
<1>3. CASE WriteRecord
  <2>1. PICK at, chunk : at = Len(out) + 1 /\ chunk = chunks[written + 1]
    OBVIOUS
  <2>2. /\ pc = "write" /\ written' = written + 1
        /\ UNCHANGED <<files, chunks, base, entries, slots>>
        /\ Grows /\ IsRecord(at, chunk)'
        /\ out'[at].id = slots[written + 1]
        /\ at = RecordAt(base + written) /\ base + written \in Nat
    BY <1>3, <2>1, NextRecord
  <2>3. ASSUME NEW k \in 1 .. written' PROVE Placed(base + k - 1, k, chunks[k], slots[1])'
    <3>1. CASE k \in 1 .. written
      BY <2>2, <3>1, HandKept
    <3>2. CASE k \notin 1 .. written
      <4>1. PICK j, first : j = base + written /\ first = slots[1]
        OBVIOUS
      <4>2. k = written + 1 /\ (base + k - 1)' = j /\ (chunks[k])' = chunk
            /\ (slots[1])' = first
        <5>1. k = written + 1
          BY <1>t, <2>2, <3>2
        <5>2. base + k - 1 = base + written
          BY <1>t, <5>1
        <5>3. base' = base /\ chunks' = chunks /\ slots' = slots
          BY <2>2
        <5> QED
          BY <2>1, <4>1, <5>1, <5>2, <5>3
      <4>3. at = RecordAt(j) /\ j \in Nat /\ (k = 1 => out'[at].id = first)
        BY <2>2, <4>1, <4>2
      <4>4. Placed(j, k, chunk, first)'
        BY <2>2, <4>3 DEF Placed, IsRecord, RecordAt
      <4> QED
        BY <4>2, <4>4 DEF Placed, IsRecord
    <3> QED
      BY <3>1, <3>2
  <2> QED
    BY <1>1, <2>2, <2>3 DEF FilesLaid
<1>4. CASE PushEntry
  <2>1. /\ pc = "write" /\ pc' = "file" /\ written = Len(chunks)
        /\ UNCHANGED <<out, files, chunks, base>>
    BY <1>4 DEF PushEntry, outVars
  <2>2. cur \in 1 .. Len(files) /\ Len(entries) = cur - 1
    BY <1>t, <2>1 DEF TypeInv, AtFile, FooterInv, EntryCount
  <2>3. /\ Len(entries') = cur
        /\ entries'[cur].first_chunk = FirstChunk
        /\ \A i \in 1 .. Len(entries) : entries'[i] = entries[i]
    <3>1. PICK e : /\ entries' = Append(entries, e)
                   /\ e.first_chunk = FirstChunk
      BY <1>4 DEF PushEntry
    <3> QED
      BY <1>t, <2>2, <3>1
  <2>4. Grows
    BY <2>1, SameGrows
  <2>5. PICK c, b : c = cur /\ b = base
    OBVIOUS
  <2>6. LaidFrom(c, b)'
    <3> SUFFICES ASSUME NEW k \in 1 .. ChunkCount(files[c].data)
                 PROVE  Placed(b + k - 1, k, SplitIntoChunks(files[c].data)[k],
                               entries[c].first_chunk)'
      BY <1>t, <2>1, <2>5 DEF LaidFrom
    <3>1. files[c].data \in Seq(Bytes)
      BY <2>2, <2>5, FilesType DEF TypeInv, TypeOK
    <3>2. chunks = SplitIntoChunks(files[c].data) /\ Len(chunks) = ChunkCount(files[c].data)
      BY <2>1, <2>5, <3>1, SplitType DEF StreamInv, FileInHand
    <3>3. k \in 1 .. written /\ chunks # <<>>
      BY <1>t, <2>1, <3>2
    <3>4. PICK n, chunk, first : n = b + k - 1 /\ chunk = chunks[k] /\ first = slots[1]
      OBVIOUS
    <3>5. Placed(n, k, chunk, first)
      BY <2>1, <2>5, <3>3, <3>4 DEF FilesLaid
    <3>6. Placed(n, k, chunk, first)'
      BY <2>4, <3>5, PlacedKept
    <3>7. /\ n = (b + k - 1)' /\ chunk = (SplitIntoChunks(files[c].data)[k])'
          /\ first = (entries[c].first_chunk)'
      BY <2>1, <2>3, <2>5, <3>2, <3>3, <3>4 DEF FirstChunk
    <3> QED
      BY <3>6, <3>7 DEF Placed, IsRecord
  <2>7. ASSUME NEW i \in 1 .. Len(entries') PROVE \E j \in Nat : LaidFrom(i, j)'
    <3>1. CASE i = c
      BY <1>t, <2>5, <2>6, <3>1
    <3>2. CASE i # c
      <4>1. i \in 1 .. Len(entries)
        BY <1>t, <2>2, <2>3, <2>5, <3>2
      <4>2. PICK j \in Nat : LaidFrom(i, j)
        BY <4>1 DEF FilesLaid
      <4> QED
        BY <2>1, <2>3, <2>4, <4>1, <4>2, EntriesKept
    <3> QED
      BY <3>1, <3>2
  <2> QED
    BY <2>1, <2>7 DEF FilesLaid
<1> QED
  BY <1>2, <1>3, <1>4, StreamSteps

LEMMA SerialStreamStep ==
  /\ TypeInv /\ IdInv /\ FooterInv /\ StreamInv /\ SerialInv /\ SerialStreamInv
  /\ [Next]_vars
  => SerialStreamInv'
<1> SUFFICES ASSUME TypeInv, IdInv, FooterInv, StreamInv, [Next]_vars,
                    NEW w \in Workers, Workers = {w}, Serial(w), InOrder, SerialStream
             PROVE  SerialStream'
  BY DEF SerialStreamInv, SerialInv
<1>1. CASE NoRecord
  BY <1>1, OutType DEF NoRecord, SerialStream, Grows
<1>2. CASE WriteRecord
  <2>1. PICK at, chunk : at = Len(out) + 1 /\ chunk = chunks[written + 1]
    OBVIOUS
  <2>2. /\ pc = "write" /\ written + 1 \in 1 .. Len(chunks) /\ Grows
        /\ out'[at].id = slots[written + 1]
        /\ \A p \in DOMAIN out' : IsChunk(out'[p]) => p \in 1 .. Len(out) \/ p = at
        /\ at = RecordAt(base + written)
    BY <1>2, <2>1, NextRecord
  <2>3. slots[written + 1] = base + written
    <3>1. /\ DOMAIN slots = 1 .. Len(chunks) /\ slots[written + 1] # NoId
          /\ written \in Nat /\ base \in Nat
      BY <2>2 DEF TypeInv, TypeOK, IdInv, DrawnInv, WriteReady
    <3>2. slots[written + 1] = base + (written + 1) - 1
      BY <2>2, <3>1 DEF InOrder
    <3> QED
      BY <3>1, <3>2
  <2> QED
    BY <2>2, <2>3, OutType DEF SerialStream, Grows
<1>3. CASE PushEntry
  BY <1>3 DEF PushEntry, outVars, SerialStream
<1> QED
  BY <1>1, <1>2, <1>3, StreamSteps

-----------------------------------------------------------------------------
(* All that is known of the creator. *)

CreatorInv ==
  /\ TypeInv /\ IdInv /\ PoolInv /\ BlockInv /\ SerialInv /\ FooterInv
  /\ StreamInv /\ FilesLaid /\ SerialStreamInv

LEMMA CreatorInit == Init => CreatorInv
  BY TypeInit, IdInit, PoolInit, BlockInit, SerialInit, FooterInit, StreamInit
  DEF CreatorInv

LEMMA CreatorStep == CreatorInv /\ [Next]_vars => CreatorInv'
  BY TypeStep, IdStep, PoolStep, BlockStep, SerialStep, FooterStep, StreamStep,
     FilesLaidStep, SerialStreamStep
  DEF CreatorInv

\* Whatever happens, what the stream holds behind its header is whole records of
\* chunks of the input files, and an index that is there starts behind the last
\* of them and says of every file what is so (archive.rs:118-200).
THEOREM StreamSound == Spec => []StreamInv
<1>1. CreatorInv => StreamInv
  BY DEF CreatorInv
<1> QED
  BY CreatorInit, CreatorStep, <1>1, PTL DEF Spec

\* Whatever the workers do, the records of a file follow each other in the order
\* of its chunks, and its entry has the id of the first (archive.rs:156-167).
THEOREM FilesLieTogether == Spec => []FilesLaid
<1>1. CreatorInv => FilesLaid
  BY DEF CreatorInv
<1> QED
  BY CreatorInit, CreatorStep, <1>1, PTL DEF Spec

\* With one worker a chunk's id says where its record is: extract_archive, which
\* asks for the ids first_chunk, first_chunk + 1, ..., asks for the chunks of the
\* file in their order.
THEOREM EntriesLeadToRecords == Spec => []SerialStreamInv
<1>1. CreatorInv => SerialStreamInv
  BY DEF CreatorInv
<1> QED
  BY CreatorInit, CreatorStep, <1>1, PTL DEF Spec

-----------------------------------------------------------------------------
(* Sequences put one behind the other. *)

\* One behind the other; what the lemmas need to know of it.
Cat(s, t) == s \o t

LEMMA CatType ==
  ASSUME NEW S, NEW s \in Seq(S), NEW t \in Seq(S)
  PROVE  Cat(s, t) \in Seq(S)
  BY ConcatProperties DEF Cat

LEMMA CatEmpty ==
  ASSUME NEW S, NEW s \in Seq(S)
  PROVE  Cat(s, <<>>) = s /\ Cat(<<>>, s) = s
  BY ConcatEmptySeq DEF Cat

LEMMA CatAssociative ==
  ASSUME NEW S, NEW s \in Seq(S), NEW t \in Seq(S), NEW u \in Seq(S)
  PROVE  Cat(Cat(s, t), u) = Cat(s, Cat(t, u))
  BY ConcatAssociative, SMT DEF Cat

\* FlattenSeq appends one sequence after the other: h is what it has after each.
Joins(h, seqs, n) ==
  h = [i \in 1 .. n |-> IF i = 1 THEN seqs[i] ELSE h[i - 1] \o seqs[i]]

\* The same, as a list of facts.
Flattens(h, seqs, S) ==
  /\ h \in [1 .. Len(seqs) -> Seq(S)]
  /\ FlattenSeq(seqs) = h[Len(seqs)]
  /\ h[1] = seqs[1]
  /\ \A i \in 2 .. Len(seqs) : h[i] = Cat(h[i - 1], seqs[i])

LEMMA FlattenUnfold ==
  ASSUME NEW S, NEW seqs, Len(seqs) \in Nat \ {0},
         \A i \in 1 .. Len(seqs) : seqs[i] \in Seq(S)
  PROVE  \E h : Flattens(h, seqs, S)
<1> DEFINE n == Len(seqs)
           K == {m \in 0 .. n : \E h : Joins(h, seqs, m)}
<1>1. \A i \in 0 .. n : i \in K
  <2>1. 0 \in K
    <3> DEFINE h == [i \in 1 .. 0 |-> <<>>]
    <3>1. Joins(h, seqs, 0)
      BY DEF Joins
    <3> QED
      BY <3>1
  <2>2. ASSUME NEW m \in 1 .. n, m - 1 \in K PROVE m \in K
    <3>1. PICK g : Joins(g, seqs, m - 1)
      BY <2>2
    <3> DEFINE h == [i \in 1 .. m |->
                       IF i = m THEN IF m = 1 THEN seqs[1] ELSE g[m - 1] \o seqs[m]
                       ELSE g[i]]
    <3>2. Joins(h, seqs, m)
      <4>1. ASSUME NEW i \in 1 .. m
            PROVE  h[i] = IF i = 1 THEN seqs[i] ELSE h[i - 1] \o seqs[i]
        <5>1. CASE i = m
          BY <5>1
        <5>2. CASE i # m
          <6>1. i \in 1 .. m - 1 /\ h[i] = g[i] /\ (i # 1 => h[i - 1] = g[i - 1])
            BY <5>2
          <6>2. g[i] = IF i = 1 THEN seqs[i] ELSE g[i - 1] \o seqs[i]
            BY <3>1, <6>1 DEF Joins
          <6> QED
            BY <6>1, <6>2
        <5> QED
          BY <5>1, <5>2
      <4> QED
        BY <4>1 DEF Joins
    <3> QED
      BY <3>2
  <2> HIDE DEF K
  <2> QED
    BY <2>1, <2>2, Climb
<1>2. \E h : Joins(h, seqs, n)
  BY <1>1
<1> DEFINE f == CHOOSE f : Joins(f, seqs, n)
<1>3. Joins(f, seqs, n)
  BY <1>2
<1>4. FlattenSeq(seqs) = f[n]
  BY DEF FlattenSeq, Joins
<1> HIDE DEF f
<1>5. f[1] = seqs[1] /\ \A i \in 2 .. n : f[i] = f[i - 1] \o seqs[i]
  <2>1. \A i \in 1 .. n : f[i] = IF i = 1 THEN seqs[i] ELSE f[i - 1] \o seqs[i]
    BY <1>3 DEF Joins
  <2>2. 1 \in 1 .. n /\ \A i \in 2 .. n : i \in 1 .. n /\ i # 1
    OBVIOUS
  <2> QED
    BY <2>1, <2>2
<1>6. \A i \in 1 .. n : f[i] \in Seq(S)
  <2> DEFINE J == {m \in 0 .. n : m = 0 \/ f[m] \in Seq(S)}
  <2>1. 0 \in J
    OBVIOUS
  <2>2. ASSUME NEW m \in 1 .. n, m - 1 \in J PROVE m \in J
    <3>1. CASE m = 1
      BY <1>5, <3>1
    <3>2. CASE m # 1
      <4>1. m \in 2 .. n /\ f[m - 1] \in Seq(S) /\ seqs[m] \in Seq(S)
        BY <2>2, <3>2
      <4>2. f[m - 1] \o seqs[m] \in Seq(S)
        BY <4>1, ConcatProperties
      <4>3. f[m] \in Seq(S)
        BY <1>5, <4>1, <4>2
      <4> QED
        BY <4>3
    <3> QED
      BY <3>1, <3>2
  <2> HIDE DEF J
  <2>3. \A i \in 0 .. n : i \in J
    BY <2>1, <2>2, Climb
  <2> QED
    BY <2>3 DEF J
<1>7. f \in [1 .. n -> Seq(S)]
  BY <1>3, <1>6 DEF Joins
<1>8. Flattens(f, seqs, S)
  BY <1>4, <1>5, <1>7 DEF Flattens, Cat
<1> QED
  BY <1>8

\* b is a, and one sequence more.
OneMore(S, a, b) ==
  /\ Len(a) \in Nat /\ Len(b) = Len(a) + 1
  /\ Len(a) = 0 => a = <<>>
  /\ \A i \in 1 .. Len(b) : b[i] \in Seq(S)
  /\ \A i \in 1 .. Len(a) : a[i] = b[i]

LEMMA FlattenNext ==
  ASSUME NEW S, NEW a, NEW b, OneMore(S, a, b)
  PROVE  /\ FlattenSeq(a) \in Seq(S)
         /\ FlattenSeq(b) = Cat(FlattenSeq(a), b[Len(b)])
<1> USE DEF OneMore
<1> DEFINE n == Len(a)
<1>0. Len(b) \in Nat \ {0} /\ Len(b) = n + 1
  OBVIOUS
<1>g. PICK g : Flattens(g, b, S)
  BY <1>0, FlattenUnfold
<1>1. /\ FlattenSeq(b) = g[Len(b)] /\ g[1] = b[1]
      /\ \A i \in 2 .. Len(b) : g[i] = Cat(g[i - 1], b[i])
  BY <1>g DEF Flattens
<1>2. CASE n = 0
  <2>1. FlattenSeq(a) = <<>>
    BY <1>2 DEF FlattenSeq
  <2>2. FlattenSeq(b) = b[1] /\ b[1] \in Seq(S) /\ Len(b) = 1
    BY <1>1, <1>2
  <2>3. <<>> \in Seq(S)
    OBVIOUS
  <2>4. Cat(<<>>, b[1]) = b[1]
    BY <2>2, CatEmpty
  <2> QED
    BY <2>1, <2>2, <2>3, <2>4
<1>3. CASE n # 0
  <2>1. \A i \in 1 .. n : a[i] \in Seq(S)
    OBVIOUS
  <2>0. Len(a) \in Nat \ {0}
    BY <1>3
  <2>f. PICK f : Flattens(f, a, S)
    BY <2>0, <2>1, FlattenUnfold
  <2>2. /\ FlattenSeq(a) = f[Len(a)] /\ f[1] = a[1]
        /\ f \in [1 .. Len(a) -> Seq(S)]
        /\ \A i \in 2 .. Len(a) : f[i] = Cat(f[i - 1], a[i])
    BY <2>f DEF Flattens
  <2> DEFINE J == {m \in 0 .. n : m = 0 \/ f[m] = g[m]}
  <2>3. 0 \in J
    OBVIOUS
  <2>4. ASSUME NEW m \in 1 .. n, m - 1 \in J PROVE m \in J
    <3>1. CASE m = 1
      BY <1>1, <2>2, <3>1
    <3>2. CASE m # 1
      <4>1. m \in 2 .. Len(a) /\ m \in 2 .. Len(b) /\ f[m - 1] = g[m - 1] /\ a[m] = b[m]
        BY <2>4, <3>2
      <4>2. f[m] = Cat(f[m - 1], a[m]) /\ g[m] = Cat(g[m - 1], b[m])
        BY <1>1, <2>2, <4>1
      <4>3. f[m] = g[m]
        BY <4>1, <4>2
      <4> QED
        BY <4>3
    <3> QED
      BY <3>1, <3>2
  <2> HIDE DEF J
  <2>5. \A i \in 0 .. n : i \in J
    BY <2>3, <2>4, Climb
  <2>6. f[n] = g[n]
    BY <1>3, <2>5 DEF J
  <2>7. g[n + 1] = Cat(g[n], b[n + 1])
    <3>1. n + 1 \in 2 .. Len(b) /\ (n + 1) - 1 = n
      BY <1>3
    <3> QED
      BY <1>1, <3>1
  <2> QED
    <3>1. FlattenSeq(a) = g[n]
      BY <2>2, <2>6
    <3>2. FlattenSeq(b) = g[n + 1] /\ b[Len(b)] = b[n + 1]
      BY <1>0, <1>1
    <3>3. FlattenSeq(b) = Cat(FlattenSeq(a), b[Len(b)])
      BY <2>7, <3>1, <3>2
    <3>4. FlattenSeq(a) \in Seq(S)
      BY <1>3, <2>2
    <3> QED
      BY <3>3, <3>4
<1> QED
  BY <1>2, <1>3

LEMMA CatPrefix ==
  ASSUME NEW S, NEW s \in Seq(S), NEW u \in Seq(S)
  PROVE  IsPrefix(s, Cat(s, u))
<1>1. PICK t : t = Cat(s, u)
  OBVIOUS
<1>2. /\ t \in Seq(S) /\ Len(t) = Len(s) + Len(u)
      /\ \A i \in 1 .. Len(s) : t[i] = s[i]
  BY <1>1, ConcatProperties DEF Cat
<1>3. Len(s) \in Nat /\ Len(u) \in Nat
  OBVIOUS
<1>4. SubSeq(s, 1, Len(s)) = s
  BY SubSeqFull
<1>5. PICK r : r = SubSeq(t, 1, Len(s))
  OBVIOUS
<1>6. r = SubSeq(t, 0 + 1, 0 + Len(s))
  BY <1>3, <1>5
<1>7. Len(r) = Len(s) /\ \A i \in 1 .. Len(s) : r[i] = t[0 + i]
  BY <1>3, <1>6, Slice
<1>8. r \in Seq(S)
  BY <1>2, <1>3, <1>5, SubSeqProperties
<1>9. r = s
  BY <1>2, <1>3, <1>7, <1>8, SeqEqual
<1> QED
  BY <1>1, <1>2, <1>3, <1>4, <1>5, <1>9 DEF IsPrefix


-----------------------------------------------------------------------------
(* The order of the payloads. *)

BodyOf(cell)  == IF cell.k = "body" THEN cell.of ELSE <<>>
DataOf(list, n) == FlattenSeq([i \in 1 .. n |-> list[i].data])

\* One cell more adds its body, when it has one.
LEMMA BodiesNext ==
  ASSUME NEW s \in Seq(Cells), NEW t \in Seq(Cells), Len(t) = Len(s) + 1,
         \A i \in 1 .. Len(s) : t[i] = s[i]
  PROVE  /\ Bodies(s) \in Seq(Bytes)
         /\ Bodies(t) = Cat(Bodies(s), BodyOf(t[Len(t)]))
         /\ BodyOf(t[Len(t)]) \in Seq(Bytes)
<1> DEFINE a == [i \in DOMAIN s |-> BodyOf(s[i])]
           b == [i \in DOMAIN t |-> BodyOf(t[i])]
<1>1. /\ Len(s) \in Nat /\ DOMAIN s = 1 .. Len(s) /\ DOMAIN t = 1 .. Len(s) + 1
      /\ \A i \in 1 .. Len(t) : t[i] \in Cells
  OBVIOUS
<1>2. \A cell \in Cells : BodyOf(cell) \in Seq(Bytes)
  <2> TAKE cell \in Cells
  <2>1. CASE cell.k = "body"
    <3>1. cell \in PayloadCells
      BY <2>1 DEF Cells, HeaderCell
    <3>2. cell.of \in Seq(Bytes)
      BY <2>1, <3>1 DEF PayloadCells
    <3> QED
      BY <2>1, <3>2 DEF BodyOf
  <2>2. CASE cell.k # "body"
    <3>1. <<>> \in Seq(Bytes)
      OBVIOUS
    <3> QED
      BY <2>2, <3>1 DEF BodyOf
  <2> QED
    BY <2>1, <2>2
<1>3. Bodies(s) = FlattenSeq(a) /\ Bodies(t) = FlattenSeq(b)
  BY DEF Bodies, BodyOf
<1>4. \A i \in 1 .. Len(t) : b[i] \in Seq(Bytes)
  BY <1>1, <1>2
<1>5. /\ \A i \in 1 .. Len(s) : a[i] = b[i]
      /\ b[Len(t)] = BodyOf(t[Len(t)])
  BY <1>1
<1>6. Len(a) = Len(s) /\ Len(b) = Len(t) /\ (Len(s) = 0 => a = <<>>)
  BY <1>1
<1>n. PICK n \in Nat : n = Len(s)
  OBVIOUS
<1>9. /\ Len(a) = n /\ Len(b) = n + 1 /\ (n = 0 => a = <<>>)
      /\ \A i \in 1 .. n : a[i] = b[i]
      /\ \A i \in 1 .. n + 1 : b[i] \in Seq(Bytes)
  BY <1>4, <1>5, <1>6, <1>n
<1> HIDE DEF a, b
<1>7. /\ FlattenSeq(a) \in Seq(Bytes)
      /\ FlattenSeq(b) = Cat(FlattenSeq(a), b[Len(b)])
  <2>1. Len(a) \in Nat /\ Len(b) = Len(a) + 1 /\ (Len(a) = 0 => a = <<>>)
    BY <1>9
  <2>2. /\ \A i \in 1 .. Len(b) : b[i] \in Seq(Bytes)
        /\ \A i \in 1 .. Len(a) : a[i] = b[i]
    BY <1>9
  <2>3. OneMore(Bytes, a, b)
    BY <2>1, <2>2 DEF OneMore
  <2> QED
    BY <2>3, FlattenNext
<1>8. Len(t) \in 1 .. Len(t)
  BY <1>1
<1> QED
  BY <1>3, <1>4, <1>5, <1>6, <1>7, <1>8

\* A cell that is no body leaves the payloads alone.
LEMMA BodiesStay ==
  ASSUME NEW s \in Seq(Cells), NEW cell \in Cells, cell.k # "body"
  PROVE  Bodies(s \o <<cell>>) = Bodies(s) /\ Bodies(s) \in Seq(Bytes)
<1>1. PICK t : t = s \o <<cell>>
  OBVIOUS
<1>2. /\ t \in Seq(Cells) /\ Len(t) = Len(s) + 1
      /\ \A i \in 1 .. Len(s) : t[i] = s[i]
      /\ t[Len(t)] = cell
  BY <1>1
<1>3. Bodies(s) \in Seq(Bytes) /\ Bodies(t) = Cat(Bodies(s), BodyOf(cell))
  BY <1>2, BodiesNext
<1>4. BodyOf(cell) = <<>>
  BY DEF BodyOf
<1> QED
  BY <1>1, <1>3, <1>4, CatEmpty

\* A record adds its chunk.
LEMMA BodiesRecord ==
  ASSUME NEW s \in Seq(Cells), NEW id \in Int, NEW chunk \in Seq(Bytes)
  PROVE  /\ Bodies(s) \in Seq(Bytes)
         /\ Bodies(s \o ChunkRecord(id, chunk)) = Cat(Bodies(s), chunk)
<1>1. PICK r : r = ChunkRecord(id, chunk)
  OBVIOUS
<1>2. r \in Seq(Cells) /\ Len(r) = 3 /\ r[1].k = "chunk"
      /\ r[2] = CompressFull(chunk)[1] /\ r[3] = CompressFull(chunk)[2]
  BY <1>1, ChunkRecordType
<1>l. r \in Seq(Cells) /\ Len(r) = 3
  BY <1>2
<1>3. r[2].k = "flag" /\ r[3].k = "body" /\ r[3].of = chunk
  BY <1>2 DEF CompressFull
<1>4. r[1] \in Cells /\ r[2] \in Cells /\ r[3] \in Cells
  <2>1. r \in Seq(Cells)
    BY <1>2
  <2>2. \A i \in 1 .. Len(r) : r[i] \in Cells
    BY <2>1
  <2> QED
    BY <1>l, <2>2
<1>5. PICK t1 : t1 = Append(s, r[1])
  OBVIOUS
<1>6. PICK t2 : t2 = Append(t1, r[2])
  OBVIOUS
<1>7. PICK t3 : t3 = Append(t2, r[3])
  OBVIOUS
<1>8. /\ t1 \in Seq(Cells) /\ Len(t1) = Len(s) + 1 /\ Len(s) \in Nat
      /\ \A i \in 1 .. Len(s) : t1[i] = s[i]
      /\ t1[Len(t1)] = r[1]
  BY <1>4, <1>5
<1>9. /\ t2 \in Seq(Cells) /\ Len(t2) = Len(t1) + 1
      /\ \A i \in 1 .. Len(t1) : t2[i] = t1[i]
      /\ t2[Len(t2)] = r[2]
  BY <1>4, <1>6, <1>8
<1>10. /\ t3 \in Seq(Cells) /\ Len(t3) = Len(t2) + 1
       /\ \A i \in 1 .. Len(t2) : t3[i] = t2[i]
       /\ t3[Len(t3)] = r[3]
  BY <1>4, <1>7, <1>9
<1>11. Bodies(t1) = Cat(Bodies(s), BodyOf(r[1])) /\ Bodies(s) \in Seq(Bytes)
  BY <1>8, BodiesNext
<1>12. Bodies(t2) = Cat(Bodies(t1), BodyOf(r[2]))
  BY <1>8, <1>9, BodiesNext
<1>13. Bodies(t3) = Cat(Bodies(t2), BodyOf(r[3]))
  BY <1>9, <1>10, BodiesNext
<1>14. BodyOf(r[1]) = <<>> /\ BodyOf(r[2]) = <<>> /\ BodyOf(r[3]) = chunk
  BY <1>2, <1>3 DEF BodyOf
<1>15. Bodies(t3) = Cat(Bodies(s), chunk)
  <2>1. Bodies(t1) = Bodies(s)
    BY <1>11, <1>14, CatEmpty
  <2>2. Bodies(t2) = Bodies(s)
    BY <1>11, <1>12, <1>14, <2>1, CatEmpty
  <2> QED
    BY <1>13, <1>14, <2>2
<1>n. PICK n \in Nat : n = Len(s)
  OBVIOUS
<1>16. /\ Len(t3) = n + 3
       /\ \A i \in 1 .. n : t3[i] = s[i]
       /\ t3[n + 1] = r[1] /\ t3[n + 2] = r[2] /\ t3[n + 3] = r[3]
  <2>1. Len(t1) = n + 1 /\ Len(t2) = n + 2 /\ Len(t3) = n + 3
    BY <1>8, <1>9, <1>10, <1>n
  <2>2. /\ \A i \in 1 .. n : t1[i] = s[i]
        /\ \A i \in 1 .. n + 1 : t2[i] = t1[i]
        /\ \A i \in 1 .. n + 2 : t3[i] = t2[i]
    BY <1>8, <1>9, <1>10, <1>n, <2>1
  <2>3. t1[n + 1] = r[1] /\ t2[n + 2] = r[2] /\ t3[n + 3] = r[3]
    BY <1>8, <1>9, <1>10, <2>1
  <2>4. /\ n + 1 \in 1 .. n + 1 /\ n + 1 \in 1 .. n + 2 /\ n + 2 \in 1 .. n + 2
        /\ \A i \in 1 .. n : i \in 1 .. n + 1 /\ i \in 1 .. n + 2
    OBVIOUS
  <2>5. \A i \in 1 .. n : t3[i] = s[i]
    BY <2>2, <2>4
  <2> QED
    BY <2>1, <2>2, <2>3, <2>4, <2>5
<1>17. s \o r = t3
  <2>1. PICK t : t = s \o r
    OBVIOUS
  <2>2. /\ t \in Seq(Cells) /\ Len(t) = n + 3
        /\ \A i \in 1 .. n + 3 : t[i] = IF i <= n THEN s[i] ELSE r[i - n]
    <3>1. r \in Seq(Cells) /\ Len(r) = 3
      BY <1>2
    <3>2. /\ t \in Seq(Cells) /\ Len(t) = Len(s) + Len(r)
          /\ \A i \in 1 .. Len(s) + Len(r) : t[i] = IF i <= Len(s) THEN s[i] ELSE r[i - Len(s)]
      BY <2>1, <3>1, ConcatProperties
    <3> QED
      BY <1>n, <3>1, <3>2
  <2>3. \A i \in 1 .. n : t[i] = s[i]
    BY <2>2
  <2>4. t[n + 1] = r[1] /\ t[n + 2] = r[2] /\ t[n + 3] = r[3]
    <3>1. (n + 1) - n = 1 /\ (n + 2) - n = 2 /\ (n + 3) - n = 3
      OBVIOUS
    <3> QED
      BY <2>2, <3>1
  <2>5. \A i \in 1 .. n + 3 : i \in 1 .. n \/ i \in {n + 1, n + 2, n + 3}
    OBVIOUS
  <2>6. \A i \in 1 .. n + 3 : t[i] = t3[i]
    BY <1>16, <2>3, <2>4, <2>5
  <2>7. Len(t3) = Len(t) /\ \A i \in 1 .. Len(t) : t[i] = t3[i]
    BY <1>16, <2>2, <2>6
  <2>8. t3 \in Seq(Cells)
    BY <1>10
  <2> QED
    BY <2>1, <2>2, <2>7, <2>8, SeqEqual
<1> QED
  BY <1>1, <1>11, <1>15, <1>17

\* One file more adds its data.
LEMMA DataNext ==
  ASSUME NEW list \in Inputs, NEW n \in Nat, n < Len(list)
  PROVE  /\ DataOf(list, n) \in Seq(Bytes)
         /\ list[n + 1].data \in Seq(Bytes)
         /\ DataOf(list, n + 1) = Cat(DataOf(list, n), list[n + 1].data)
<1> DEFINE a == [i \in 1 .. n |-> list[i].data]
           b == [i \in 1 .. n + 1 |-> list[i].data]
<1>1. Len(list) \in Nat /\ \A i \in 1 .. Len(list) : list[i].data \in Seq(Bytes)
  BY FilesType
<1>2. /\ Len(a) = n /\ Len(b) = n + 1 /\ (n = 0 => a = <<>>)
      /\ \A i \in 1 .. n : a[i] = b[i]
      /\ b[n + 1] = list[n + 1].data
  OBVIOUS
<1>3. \A i \in 1 .. n + 1 : b[i] \in Seq(Bytes)
  <2> TAKE i \in 1 .. n + 1
  <2>1. i \in 1 .. Len(list) /\ b[i] = list[i].data
    BY <1>1
  <2> QED
    BY <1>1, <2>1
<1>4. DataOf(list, n) = FlattenSeq(a) /\ DataOf(list, n + 1) = FlattenSeq(b)
  BY DEF DataOf
<1> HIDE DEF a, b
<1>5. FlattenSeq(a) \in Seq(Bytes) /\ FlattenSeq(b) = Cat(FlattenSeq(a), b[Len(b)])
  <2>1. Len(a) \in Nat /\ Len(b) = Len(a) + 1 /\ (Len(a) = 0 => a = <<>>)
    BY <1>2
  <2>2. /\ \A i \in 1 .. Len(b) : b[i] \in Seq(Bytes)
        /\ \A i \in 1 .. Len(a) : a[i] = b[i]
    BY <1>2, <1>3
  <2>3. OneMore(Bytes, a, b)
    BY <2>1, <2>2 DEF OneMore
  <2> QED
    BY <2>3, FlattenNext
<1>6. n + 1 \in 1 .. Len(list)
  BY <1>1
<1> QED
  BY <1>1, <1>2, <1>4, <1>5, <1>6

\* What the first files hold is the beginning of what all of them hold ...
LEMMA DataRest ==
  ASSUME NEW list \in Inputs, NEW n \in 0 .. Len(list)
  PROVE  /\ DataOf(list, n) \in Seq(Bytes)
         /\ \E u \in Seq(Bytes) : DataOf(list, Len(list)) = Cat(DataOf(list, n), u)
<1> DEFINE all == Len(list)
<1>1. all \in Nat
  BY FilesType
<1>2. <<>> \in Seq(Bytes) /\ DataOf(list, 0) = <<>>
  <2>1. PICK none : none = [i \in 1 .. 0 |-> list[i].data]
    OBVIOUS
  <2>2. none = <<>> /\ Len(none) = 0
    BY <2>1
  <2> QED
    BY <2>1, <2>2 DEF DataOf, FlattenSeq
<1>3. \A m \in 0 .. all : DataOf(list, m) \in Seq(Bytes)
  <2> TAKE m \in 0 .. all
  <2>1. CASE m = 0
    BY <1>2, <2>1
  <2>2. CASE m # 0
    <3>1. m - 1 \in Nat /\ m - 1 < Len(list) /\ (m - 1) + 1 = m
      BY <1>1, <2>2
    <3>2. /\ DataOf(list, m - 1) \in Seq(Bytes) /\ list[(m - 1) + 1].data \in Seq(Bytes)
          /\ DataOf(list, (m - 1) + 1) = Cat(DataOf(list, m - 1), list[(m - 1) + 1].data)
      BY <3>1, DataNext
    <3> QED
      BY <3>1, <3>2, CatType
  <2> QED
    BY <2>1, <2>2
<1> DEFINE K == {m \in 0 .. all :
                   \E u \in Seq(Bytes) : DataOf(list, all) = Cat(DataOf(list, all - m), u)}
<1>4. 0 \in K
  <2>1. all - 0 = all /\ 0 \in 0 .. all /\ all \in 0 .. all
    BY <1>1
  <2>2. DataOf(list, all) = Cat(DataOf(list, all - 0), <<>>)
    BY <1>3, <2>1, CatEmpty
  <2> QED
    BY <1>2, <2>1, <2>2
<1>5. ASSUME NEW m \in 1 .. all, m - 1 \in K PROVE m \in K
  <2>1. PICK k : k = all - m
    OBVIOUS
  <2>2. k \in Nat /\ k < Len(list) /\ all - (m - 1) = k + 1 /\ k \in 0 .. all
    BY <1>1, <2>1
  <2>3. PICK u \in Seq(Bytes) : DataOf(list, all) = Cat(DataOf(list, k + 1), u)
    BY <1>5, <2>2
  <2>4. /\ DataOf(list, k) \in Seq(Bytes) /\ list[k + 1].data \in Seq(Bytes)
        /\ DataOf(list, k + 1) = Cat(DataOf(list, k), list[k + 1].data)
    BY <2>2, DataNext
  <2>5. PICK v : v = Cat(list[k + 1].data, u)
    OBVIOUS
  <2>6. v \in Seq(Bytes)
    BY <2>3, <2>4, <2>5, CatType
  <2>7. DataOf(list, all) = Cat(DataOf(list, k), v)
    <3>1. DataOf(list, all) = Cat(Cat(DataOf(list, k), list[k + 1].data), u)
          /\ u \in Seq(Bytes)
      BY <2>3, <2>4
    <3> QED
      BY <2>4, <2>5, <3>1, CatAssociative
  <2> QED
    BY <2>1, <2>6, <2>7
<1> HIDE DEF K
<1>6. \A m \in 0 .. all : m \in K
  BY <1>1, <1>4, <1>5, Climb
<1>7. all - n \in 0 .. all /\ all - (all - n) = n
  BY <1>1
<1>8. all - n \in K
  BY <1>6, <1>7
<1> QED
  BY <1>3, <1>7, <1>8 DEF K

\* ... and so it is with some chunks of the next file behind.
LEMMA DataSoFar ==
  ASSUME NEW list \in Inputs, NEW n \in Nat, n < Len(list), NEW k \in Nat
  PROVE  IsPrefix(Cat(DataOf(list, n), Joined(list[n + 1].data, k)), DataOf(list, Len(list)))
<1>1. PICK data : data = list[n + 1].data
  OBVIOUS
<1>2. /\ DataOf(list, n) \in Seq(Bytes) /\ data \in Seq(Bytes)
      /\ DataOf(list, n + 1) = Cat(DataOf(list, n), data)
  BY <1>1, DataNext
<1>3. PICK u \in Seq(Bytes) : DataOf(list, Len(list)) = Cat(DataOf(list, n + 1), u)
  <2>1. n + 1 \in 0 .. Len(list)
    BY FilesType
  <2> QED
    BY <2>1, DataRest
<1>4. PICK m : m = Upto(data, k)
  OBVIOUS
<1>5. m \in 0 .. Len(data) /\ Len(data) \in Nat
  BY <1>2, <1>4, UptoBounds
<1>6. PICK head : head = Joined(data, k)
  OBVIOUS
<1>7. PICK rest : rest = SubSeq(data, m + 1, Len(data))
  OBVIOUS
<1>8. head = SubSeq(data, 1, m)
  BY <1>4, <1>6 DEF Joined
<1>9. head \in Seq(Bytes) /\ rest \in Seq(Bytes)
  BY <1>2, <1>5, <1>7, <1>8, SubSeqProperties
<1>10. data = Cat(head, rest)
  <2>1. 1 \in 1 .. Len(data) + 1 /\ m \in 1 - 1 .. Len(data) /\ Len(data) \in m .. Len(data)
    BY <1>5
  <2>2. SubSeq(data, 1, m) \o SubSeq(data, m + 1, Len(data)) = SubSeq(data, 1, Len(data))
    BY <1>2, <2>1, ConcatAdjacentSubSeq
  <2> QED
    BY <1>2, <1>7, <1>8, <2>2, SubSeqFull DEF Cat
<1>11. PICK first : first = Cat(DataOf(list, n), head)
  OBVIOUS
<1>12. first \in Seq(Bytes)
  BY <1>2, <1>9, <1>11, CatType
<1>13. DataOf(list, n + 1) = Cat(first, rest)
  <2>1. DataOf(list, n + 1) = Cat(DataOf(list, n), data) /\ DataOf(list, n) \in Seq(Bytes)
    BY <1>2
  <2>2. head \in Seq(Bytes) /\ rest \in Seq(Bytes)
    BY <1>9
  <2>3. Cat(first, rest) = Cat(DataOf(list, n), data)
    BY <1>10, <1>11, <2>1, <2>2, CatAssociative
  <2> QED
    BY <2>1, <2>3
<1>14. PICK v : v = Cat(rest, u)
  OBVIOUS
<1>v. v \in Seq(Bytes)
  BY <1>3, <1>9, <1>14, CatType
<1>15. DataOf(list, Len(list)) = Cat(first, v)
  <2>1. DataOf(list, Len(list)) = Cat(DataOf(list, n + 1), u) /\ u \in Seq(Bytes)
    BY <1>3
  <2>2. rest \in Seq(Bytes)
    BY <1>9
  <2>3. Cat(DataOf(list, n + 1), u) = Cat(first, v)
    BY <1>12, <1>13, <1>14, <2>1, <2>2, CatAssociative
  <2> QED
    BY <2>1, <2>3
<1>16. IsPrefix(first, Cat(first, v))
  BY <1>12, <1>v, CatPrefix
<1> QED
  BY <1>1, <1>6, <1>11, <1>15, <1>16


\* Where the writing is: in the stream lie the payloads of the files before cur,
\* and of the chunks of this file that have been written.
OrderInv ==
  /\ pc = "header" => cur = 1
  /\ pc \in {"header", "file"} => Bodies(out) = DataTo(cur - 1)
  /\ pc \in {"compress", "write"} =>
       Bodies(out) = Cat(DataTo(cur - 1), Joined(files[cur].data, written))
  /\ pc \in {"index", "report", "drop", "done"} => Bodies(out) = DataTo(Len(files))
  /\ IsPrefix(Bodies(out), DataTo(Len(files)))

LEMMA OrderInit == Init => OrderInv
<1> SUFFICES ASSUME Init PROVE OrderInv
  OBVIOUS
<1>1. pc = "header" /\ cur = 1 /\ out = <<>> /\ files \in Inputs /\ Len(files) \in Nat
  BY FilesType DEF Init
<1>2. Bodies(out) = <<>>
  <2>1. PICK none : none = [i \in DOMAIN out |-> IF out[i].k = "body" THEN out[i].of ELSE <<>>]
    OBVIOUS
  <2>2. none = <<>> /\ Len(none) = 0
    BY <1>1, <2>1
  <2> QED
    BY <2>1, <2>2 DEF Bodies, FlattenSeq
<1>3. DataTo(0) = <<>>
  <2>1. PICK none : none = [i \in 1 .. 0 |-> files[i].data]
    OBVIOUS
  <2>2. none = <<>> /\ Len(none) = 0
    BY <2>1
  <2> QED
    BY <2>1, <2>2 DEF DataTo, FlattenSeq
<1>4. IsPrefix(<<>>, DataTo(Len(files)))
  <2>1. DataOf(files, Len(files)) \in Seq(Bytes)
    BY <1>1, DataRest
  <2>2. <<>> \in Seq(Bytes) /\ Cat(<<>>, DataOf(files, Len(files))) = DataOf(files, Len(files))
    BY <2>1, CatEmpty
  <2>3. IsPrefix(<<>>, DataOf(files, Len(files)))
    BY <2>1, <2>2, CatPrefix
  <2> QED
    BY <2>3 DEF DataTo, DataOf
<1>5. cur - 1 = 0
  BY <1>1
<1> QED
  BY <1>1, <1>2, <1>3, <1>4, <1>5 DEF OrderInv

\* A step that writes no payload and stays where the files are concerned.
LEMMA OrderStays ==
  ASSUME OrderInv, Bodies(out)' = Bodies(out), UNCHANGED <<files, cur>>,
         \/ pc' \in {"failed", "killed"}
         \/ pc = "header" /\ pc' = "file"
         \/ pc' = pc /\ UNCHANGED written
         \/ pc = "compress" /\ pc' = "write" /\ UNCHANGED written
         \/ pc \in {"index", "report", "drop"} /\ pc' \in {"index", "report", "drop", "done"}
  PROVE  OrderInv'
<1>1. DataTo(cur - 1)' = DataTo(cur - 1) /\ DataTo(Len(files))' = DataTo(Len(files))
  BY DEF DataTo
<1>2. UNCHANGED written =>
        Cat(DataTo(cur - 1), Joined(files[cur].data, written))'
          = Cat(DataTo(cur - 1), Joined(files[cur].data, written))
  BY <1>1
<1>3. IsPrefix(Bodies(out), DataTo(Len(files)))'
  BY <1>1 DEF OrderInv
<1> QED
  BY <1>1, <1>2, <1>3 DEF OrderInv

\* The chunk that is written is the next piece of the file at hand.
LEMMA OrderRecord ==
  ASSUME TypeInv, IdInv, StreamInv, OrderInv, WriteRecord
  PROVE  OrderInv'
<1>1. /\ pc = "write" /\ written \in Nat /\ written < Len(chunks)
      /\ written' = written + 1 /\ UNCHANGED <<files, cur, chunks>>
      /\ cur \in 1 .. Len(files) /\ files \in Inputs /\ Len(files) \in Nat
      /\ chunks = SplitIntoChunks(files[cur].data)
  BY FilesType
  DEF WriteRecord, fileVars, TypeInv, TypeOK, AtFile, StreamInv, FileInHand
<1>2. PICK data : data = files[cur].data
  OBVIOUS
<1>3. PICK chunk : chunk = chunks[written + 1]
  OBVIOUS
<1>4. PICK n : n = cur - 1
  OBVIOUS
<1>5. n \in Nat /\ n < Len(files) /\ n + 1 = cur /\ files[n + 1].data = data
  BY <1>1, <1>2, <1>4
<1>6. data \in Seq(Bytes) /\ DataOf(files, n) \in Seq(Bytes)
  BY <1>1, <1>5, DataNext
<1>7. written < ChunkCount(data) /\ chunk \in Seq(Bytes)
  <2>1. Len(chunks) = ChunkCount(data)
    BY <1>1, <1>2, <1>6, SplitType
  <2>2. chunks \in Seq(Seq(Bytes)) /\ written + 1 \in 1 .. Len(chunks)
    BY <1>1 DEF TypeInv, TypeOK
  <2> QED
    BY <1>1, <1>3, <2>1, <2>2
<1>8. Cat(Joined(data, written), chunk) = Joined(data, written + 1)
  BY <1>1, <1>2, <1>3, <1>6, <1>7, JoinChunk DEF Cat
<1>9. /\ out' = out \o ChunkRecord(slots[written + 1], chunk)
      /\ slots[written + 1] \in Int /\ pc' \in {"write", "failed"}
  <2>0. written + 1 \in 1 .. Len(chunks) /\ slots \in [1 .. Len(chunks) -> Nat \cup {NoId}]
    BY <1>1 DEF TypeInv, TypeOK
  <2>1. slots[written + 1] \in Nat \cup {NoId}
    BY <2>0
  <2>2. slots[written + 1] \in Int
    BY <2>1, IdIsInt
  <2>3. ChunkRecord(slots[written + 1], chunk) \in Seq(Cells)
    BY <1>7, <2>2, ChunkRecordType
  <2>4. packed[written + 1] = chunk
    BY <1>1, <1>3, <2>0 DEF IdInv, DrawnInv, WriteReady, Packed
  <2>5. Emit(ChunkRecord(slots[written + 1], chunk), "write")
    BY <2>4 DEF WriteRecord
  <2> QED
    BY <2>2, <2>3, <2>5, EmitType DEF TypeInv, TypeOK
<1>10. Bodies(out') = Cat(Bodies(out), chunk)
  BY <1>7, <1>9, BodiesRecord DEF TypeInv, TypeOK
<1>11. DataTo(n) = DataOf(files, n) /\ DataTo(Len(files)) = DataOf(files, Len(files))
  BY DEF DataTo, DataOf
<1>12. Bodies(out) = Cat(DataOf(files, n), Joined(data, written))
  BY <1>1, <1>2, <1>4, <1>11 DEF OrderInv
<1>13. Joined(data, written) \in Seq(Bytes)
  <2>1. Upto(data, written) \in 0 .. Len(data) /\ Len(data) \in Nat
    BY <1>1, <1>6, UptoBounds
  <2>2. \A i \in 1 .. Upto(data, written) : data[i] \in Bytes
    BY <1>6, <2>1
  <2> QED
    BY <2>1, <2>2, SubSeqProperties DEF Joined
<1>14. Bodies(out') = Cat(DataOf(files, n), Joined(data, written + 1))
  BY <1>6, <1>7, <1>8, <1>10, <1>12, <1>13, CatAssociative
<1>15. IsPrefix(Cat(DataOf(files, n), Joined(data, written + 1)), DataOf(files, Len(files)))
  BY <1>1, <1>5, DataSoFar
<1>17. /\ (DataTo(cur - 1))' = DataOf(files, n)
       /\ (DataTo(Len(files)))' = DataOf(files, Len(files))
       /\ Joined(files[cur].data, written)' = Joined(data, written + 1)
  BY <1>1, <1>2, <1>4 DEF DataTo, DataOf, Joined, Upto
<1>18. pc' = "write" => (Bodies(out) = Cat(DataTo(cur - 1), Joined(files[cur].data, written)))'
  BY <1>14, <1>17
<1>19. (IsPrefix(Bodies(out), DataTo(Len(files))))'
  BY <1>14, <1>15, <1>17
<1> QED
  BY <1>9, <1>18, <1>19 DEF OrderInv


LEMMA OrderStep == TypeInv /\ IdInv /\ StreamInv /\ OrderInv /\ [Next]_vars => OrderInv'
<1> SUFFICES ASSUME TypeInv, IdInv, StreamInv, OrderInv, [Next]_vars
             PROVE  OrderInv'
  OBVIOUS
<1>t. /\ cur \in 1 .. Len(files) + 1 /\ Len(files) \in Nat /\ files \in Inputs
      /\ out \in Seq(Cells) /\ flushed \in 0 .. Len(out)
      /\ entries \in Seq(EntryRecords) /\ written \in Nat /\ index_offset \in Nat
  BY FilesType DEF TypeInv, TypeOK
<1>0. ASSUME NEW cell \in Cells, NEW next, cell.k # "body", Emit(<<cell>>, next)
      PROVE  Bodies(out)' = Bodies(out) /\ pc' \in {next, "failed"}
  <2>1. <<cell>> \in Seq(Cells)
    OBVIOUS
  <2>2. out' = out \o <<cell>> /\ pc' \in {next, "failed"}
    BY <1>t, <1>0, <2>1, EmitType
  <2>3. Bodies(out') = Bodies(out)
    BY <1>t, <1>0, <2>2, BodiesStay
  <2> QED
    BY <2>2, <2>3
<1>1. CASE WriteHeader
  <2>1. HeaderCell \in Cells /\ HeaderCell.k # "body"
    BY DEF Cells, HeaderCell
  <2>2. Emit(<<HeaderCell>>, "file") /\ pc = "header" /\ UNCHANGED <<files, cur>>
    BY <1>1 DEF WriteHeader, fileVars
  <2> QED
    BY <1>0, <2>1, <2>2, OrderStays
<1>2. CASE RefuseFile \/ Kill
  <2>1. pc' \in {"failed", "killed"} /\ UNCHANGED <<files, cur, out>>
    BY <1>2 DEF RefuseFile, Kill, fileVars, outVars
  <2> QED
    BY <2>1, OrderStays
<1>3. CASE Collect \/ UNCHANGED vars
  <2>1. /\ UNCHANGED <<files, cur, out, written>>
        /\ pc' = pc \/ (pc = "compress" /\ pc' = "write")
    BY <1>3 DEF Collect, vars, fileVars, outVars
  <2> QED
    BY <2>1, OrderStays
<1>4. CASE Report \/ DropWriter
  <2>1. /\ UNCHANGED <<files, cur, out>>
        /\ pc \in {"report", "drop"} /\ pc' \in {"drop", "done"}
    BY <1>4 DEF Report, DropWriter, fileVars, outVars
  <2> QED
    BY <2>1, OrderStays
<1>5. ASSUME NEW w \in Workers, WorkerStep(w) PROVE OrderInv'
  <2>1. UNCHANGED poolOnly
    BY <1>5 DEF WorkerStep, Split, FetchAdd, Compress, Pop, Steal
  <2>2. UNCHANGED <<files, pc, cur, written, out>>
    BY <2>1 DEF poolOnly, fileVars, outVars
  <2> QED
    BY <2>2, OrderStays
<1>6. CASE StartFile
  <2>1. /\ pc = "file" /\ pc' = "compress" /\ written' = 0 /\ cur \in 1 .. Len(files)
        /\ UNCHANGED <<files, cur, out>>
    BY <1>t, <1>6 DEF StartFile, outVars
  <2>2. DataTo(cur - 1)' = DataTo(cur - 1) /\ DataTo(Len(files))' = DataTo(Len(files))
    BY <2>1 DEF DataTo
  <2>3. PICK data : data = files[cur].data
    OBVIOUS
  <2>4. data \in Seq(Bytes)
    BY <1>t, <2>1, <2>3, FilesType
  <2>5. Joined(data, 0) = <<>>
    BY <2>4, JoinAll
  <2>6. Joined(files[cur].data, written)' = <<>>
    BY <2>1, <2>3, <2>5 DEF Joined, Upto
  <2>7. Bodies(out) \in Seq(Bytes)
    <3>1. HeaderCell \in Cells /\ HeaderCell.k # "body"
      BY DEF Cells, HeaderCell
    <3> QED
      BY <1>t, <3>1, BodiesStay
  <2>8. Bodies(out) = Cat(DataTo(cur - 1), <<>>)
    BY <2>1, <2>7, CatEmpty DEF OrderInv
  <2>9. (Bodies(out) = Cat(DataTo(cur - 1), Joined(files[cur].data, written)))'
    BY <2>1, <2>2, <2>6, <2>8
  <2>10. (IsPrefix(Bodies(out), DataTo(Len(files))))'
    BY <2>1, <2>2 DEF OrderInv
  <2> QED
    BY <2>1, <2>9, <2>10 DEF OrderInv
<1>7. CASE WriteRecord
  BY <1>7, OrderRecord
<1>8. CASE PushEntry
  <2>1. /\ pc = "write" /\ pc' = "file" /\ written = Len(chunks) /\ cur' = cur + 1
        /\ cur \in 1 .. Len(files) /\ chunks = SplitIntoChunks(files[cur].data)
        /\ UNCHANGED <<files, out>>
    BY <1>t, <1>8 DEF PushEntry, outVars, TypeInv, AtFile, StreamInv, FileInHand
  <2>2. PICK data : data = files[cur].data
    OBVIOUS
  <2>3. PICK n : n = cur - 1
    OBVIOUS
  <2>4. n \in Nat /\ n < Len(files) /\ n + 1 = cur /\ cur' - 1 = n + 1
    BY <1>t, <2>1, <2>3
  <2>5. /\ DataOf(files, n) \in Seq(Bytes) /\ data \in Seq(Bytes)
        /\ DataOf(files, n + 1) = Cat(DataOf(files, n), data)
    BY <1>t, <2>2, <2>4, DataNext
  <2>6. Joined(data, written) = data
    BY <2>1, <2>2, <2>5, SplitType, JoinAll
  <2>7. Bodies(out) = Cat(DataTo(n), data)
    BY <2>1, <2>2, <2>3, <2>6 DEF OrderInv
  <2>8. Bodies(out) = DataOf(files, n + 1)
    BY <2>5, <2>7 DEF DataTo, DataOf
  <2>9. DataTo(cur - 1)' = DataOf(files, n + 1) /\ DataTo(Len(files))' = DataTo(Len(files))
    BY <2>1, <2>4 DEF DataTo, DataOf
  <2>10. (IsPrefix(Bodies(out), DataTo(Len(files))))'
    BY <2>1, <2>9 DEF OrderInv
  <2> QED
    BY <2>1, <2>8, <2>9, <2>10 DEF OrderInv
<1>9. CASE StartIndex
  <2>1. /\ pc = "file" /\ pc' \in {"index", "failed"} /\ cur > Len(files)
        /\ UNCHANGED <<files, cur, out>>
    BY <1>9 DEF StartIndex, WriteFailed, fileVars
  <2>2. cur - 1 = Len(files)
    BY <1>t, <2>1
  <2>3. DataTo(Len(files))' = DataTo(Len(files))
    BY <2>1 DEF DataTo
  <2>4. (Bodies(out) = DataTo(Len(files)))'
    BY <2>1, <2>2, <2>3 DEF OrderInv
  <2>5. (IsPrefix(Bodies(out), DataTo(Len(files))))'
    BY <2>1, <2>3 DEF OrderInv
  <2> QED
    BY <2>1, <2>4, <2>5 DEF OrderInv
<1>10. CASE WriteEntry
  <2>1. PICK cell : cell = EntryCell(entries[written + 1])
    OBVIOUS
  <2>2. cell \in Cells /\ cell.k # "body"
    <3>1. entries[written + 1] \in EntryRecords
      BY <1>10, <1>t DEF WriteEntry
    <3> QED
      BY <2>1, <3>1 DEF EntryCell, Cells
  <2>3. Emit(<<cell>>, "index") /\ pc = "index" /\ UNCHANGED <<files, cur>>
    BY <1>10, <2>1 DEF WriteEntry, fileVars
  <2> QED
    BY <1>0, <2>2, <2>3, OrderStays
<1>11. CASE WriteFooter
  <2>1. PICK cell : cell = FooterCell(index_offset, Len(entries))
    OBVIOUS
  <2>2. cell \in Cells /\ cell.k # "body"
    BY <1>t, <2>1, FooterType DEF FooterCell
  <2>3. Emit(<<cell>>, "report") /\ pc = "index" /\ UNCHANGED <<files, cur>>
    BY <1>11, <2>1 DEF WriteFooter, fileVars
  <2> QED
    BY <1>0, <2>2, <2>3, OrderStays
<1> QED
  BY <1>1, <1>2, <1>3, <1>4, <1>5, <1>6, <1>7, <1>8, <1>9, <1>10, <1>11
  DEF Next, Step, MainStep

\* "Write chunks sequentially" (archive.rs:156): in whatever order the workers
\* finish, the payloads lie in the stream in the order of the files' bytes, and
\* a finished archive holds every byte of every file.
THEOREM PayloadsInOrder == Spec => []SequentialOrder
<1>1. Init => CreatorInv /\ OrderInv
  BY CreatorInit, OrderInit
<1>2. CreatorInv /\ OrderInv /\ [Next]_vars => (CreatorInv /\ OrderInv)'
  BY CreatorStep, OrderStep DEF CreatorInv
<1>3. CreatorInv /\ OrderInv => SequentialOrder
  BY DEF OrderInv, SequentialOrder
<1> QED
  BY <1>1, <1>2, <1>3, PTL DEF Spec
=============================================================================
