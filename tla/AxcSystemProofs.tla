--------------------------- MODULE AxcSystemProofs ---------------------------
(***************************************************************************)
(* Theorems about AxcSystem: what a user of `axc x`, `axc l` and `axc t`   *)
(* may rely on, for every archive that `axc c` writes.                     *)
(***************************************************************************)
EXTENDS ReadArchiveProofs

-----------------------------------------------------------------------------
(* The creator, in the system, is the creator; once it has ended its       *)
(* memory stays as it is.                                                  *)

LEMMA EndedStops == pc \in Ended => ~ Step /\ ~ Kill
  BY DEF Ended, Step, MainStep, WorkerStep, Kill, WriteHeader, RefuseFile, StartFile,
         Collect, WriteRecord, PushEntry, StartIndex, WriteEntry, WriteFooter, Report,
         DropWriter, Split, FetchAdd, Compress, Pop, Steal

\* cmd_create's own memory of the size is nobody's concern.
LEMMA CreatorForgets ==
  ASSUME CreatorInv, UNCHANGED createMemory, reported' \in Nat \cup {NoSize}
  PROVE  CreatorInv'
<1> USE DEF createMemory
<1>1. TypeInv'
  BY DEF CreatorInv, TypeInv, TypeOK, AtFile
<1>2. IdInv'
  BY DEF CreatorInv, IdInv, DrawnInv, Packed, ClaimIds, SlotIds, UnwrittenIds, StreamIds, WriteReady,
         UniqueChunkIds, IsChunk
<1>3. PoolInv'
  BY DEF CreatorInv, PoolInv, PoolRanges, PoolApart, Claiming, PoolQuiet, Pending, Idle
<1>4. BlockInv'
  BY DEF CreatorInv, BlockInv
<1>5. SerialInv'
  BY DEF CreatorInv, SerialInv, Serial, InOrder, OrderedDeque, Follows
<1>6. FooterInv'
  BY DEF CreatorInv, FooterInv, NoFooter, FooterEnd, Whole, EntryCount, IndexSoFar
<1>7. StreamInv'
  <2>1. HeaderFirst'
    BY DEF CreatorInv, StreamInv, HeaderFirst
  <2>4. RecordsWhole'
    BY DEF CreatorInv, StreamInv, RecordsWhole, IsChunk, InputChunks, IsRecord
  <2>2. FileInHand' /\ RecordCount'
    BY DEF CreatorInv, StreamInv, FileInHand, RecordCount, Recorded, AllRecords, IsChunk
  <2>3. IndexAfterRecords' /\ EntriesMatch'
    BY DEF CreatorInv, StreamInv, IndexAfterRecords, HasFooter, AllRecords, IsChunk,
           EntriesMatch, EntryOf
  <2> QED
    BY <2>1, <2>2, <2>3, <2>4 DEF StreamInv
<1>8. FilesLaid' /\ SerialStreamInv'
  <2>1. \A p, chunk : IsRecord(p, chunk)' <=> IsRecord(p, chunk)
    BY DEF IsRecord
  <2>2. \A j, k, chunk, first : Placed(j, k, chunk, first)' <=> Placed(j, k, chunk, first)
    BY <2>1 DEF Placed
  <2>3. \A i, j : LaidFrom(i, j)' <=> LaidFrom(i, j)
    BY <2>2 DEF LaidFrom
  <2>4. FilesLaid'
    BY <2>2, <2>3 DEF CreatorInv, FilesLaid
  <2>5. SerialStreamInv'
    BY DEF CreatorInv, SerialStreamInv, SerialStream, IsChunk
  <2> QED
    BY <2>4, <2>5
<1> QED
  BY <1>1, <1>2, <1>3, <1>4, <1>5, <1>6, <1>7, <1>8 DEF CreatorInv

LEMMA SystemCreator ==
  /\ SystemInit => CreatorInv
  /\ CreatorInv /\ [SystemNext]_systemVars => CreatorInv'
<1>1. SystemInit => CreatorInv
  BY CreatorInit DEF SystemInit
<1>2. ASSUME CreatorInv, [SystemNext]_systemVars PROVE CreatorInv'
  <2>1. CASE Step \/ Kill
    BY <1>2, <2>1, CreatorStep DEF Next
  <2>2. CASE UNCHANGED createMemory /\ reported' \in {reported, NoSize}
    BY <1>2, <2>2, CreatorForgets DEF CreatorInv, TypeInv, TypeOK
  <2>3. \/ Step \/ Kill
        \/ UNCHANGED createMemory /\ reported' \in {reported, NoSize}
    BY <1>2 DEF SystemNext, CreateStep, CreateKill, Exit, Damage, UseStart, UseStep,
                UseFault, Using, createVars, systemVars
  <2> QED
    BY <2>1, <2>2, <2>3
<1> QED
  BY <1>1, <1>2

-----------------------------------------------------------------------------
(* What the storage may have made of the archive, cell by cell. *)

ImgInv ==
  /\ phase \in {"create", "use"} /\ damage \in Damages \cup {"none"}
  /\ phase = "create" =>
       rpc = "idle" /\ res = "none" /\ cmd = "none" /\ damage = "none" /\ tested = FALSE
  /\ phase = "use" =>
       /\ pc \in Ended
       /\ damage = "none" => img = Disk
       /\ Len(img) \in 0 .. Len(out) /\ DOMAIN img = 1 .. Len(img)
       /\ \A p \in DOMAIN img : img[p] = out[p] \/ img[p] \in DamagedCells(out[p], damage)

LEMMA DiskType ==
  ASSUME TypeInv
  PROVE  /\ Disk \in Seq(Cells) /\ Len(Disk) = flushed /\ DOMAIN Disk = 1 .. flushed
         /\ flushed \in 0 .. Len(out) /\ \A p \in 1 .. flushed : Disk[p] = out[p]
<1>1. out \in Seq(Cells) /\ flushed \in 0 .. Len(out) /\ Len(out) \in Nat
  BY OutType DEF TypeInv, TypeOK
<1> QED
  BY <1>1, SubSeqProperties DEF Disk

\* A command only reads the archive.
LEMMA ReaderReads == Command \/ ReadStep \/ IoError \/ Die => img' = img
<1>1. Command => img' = img
  BY DEF Command, ExtractCommand, ListCommand, TestCommand, Start
<1> QED
  BY <1>1, ReaderSteps, QuietStep, FileStep

LEMMA ImgInit == SystemInit => ImgInv
  BY DEF SystemInit, ReadInit, ImgInv

LEMMA ImgStep == CreatorInv /\ ImgInv /\ [SystemNext]_systemVars => ImgInv'
<1> SUFFICES ASSUME CreatorInv, ImgInv, [SystemNext]_systemVars PROVE ImgInv'
  OBVIOUS
<1>t. /\ TypeInv
      /\ out \in Seq(Cells) /\ flushed \in 0 .. Len(out) /\ Len(out) \in Nat
      /\ DOMAIN out = 1 .. Len(out)
  BY OutType DEF CreatorInv, TypeInv, TypeOK
<1>1. CASE CreateStep \/ CreateKill
  <2>1. phase = "create"
    BY <1>1, EndedStops DEF CreateStep, CreateKill, ImgInv
  <2> QED
    BY <1>1, <2>1 DEF CreateStep, CreateKill, ImgInv, readerVars, options
<1>2. CASE Exit
  <2>1. /\ phase' = "use" /\ phase = "create" /\ pc \in Ended /\ img' = Disk
        /\ UNCHANGED <<out, flushed, pc, damage>> /\ Disk' = Disk
    BY <1>2 DEF Exit, createMemory, Disk
  <2> QED
    BY <1>t, <2>1, DiskType DEF ImgInv
<1>3. CASE Damage
  <2>1. PICK kind \in Damages : Spoil(kind) /\ damage' = kind
    BY <1>3 DEF Damage
  <2>2. /\ phase = "use" /\ phase' = "use" /\ img = Disk /\ pc' \in Ended
        /\ UNCHANGED <<out, flushed>>
    BY <1>3 DEF Damage, ImgInv, createVars, createMemory
  <2>3. /\ Len(img') \in 0 .. Len(out) /\ DOMAIN img' = 1 .. Len(img')
        /\ \A p \in DOMAIN img' : img'[p] = out[p] \/ img'[p] \in DamagedCells(out[p], kind)
    <3>1. CASE \E i \in DOMAIN img : \E cell \in DamagedCells(img[i], kind) :
                 img' = [img EXCEPT ![i] = cell]
      <4>1. PICK i \in DOMAIN img : \E cell \in DamagedCells(img[i], kind) :
                 img' = [img EXCEPT ![i] = cell]
        BY <3>1
      <4>2. PICK cell \in DamagedCells(img[i], kind) : img' = [img EXCEPT ![i] = cell]
        BY <4>1
      <4>3. /\ DOMAIN img = 1 .. flushed /\ Len(img) = flushed
            /\ \A p \in 1 .. flushed : img[p] = out[p]
        BY <1>t, <2>2, DiskType
      <4>4. DOMAIN img' = 1 .. flushed
        BY <4>2, <4>3
      <4>5. Len(img') = flushed
        BY <1>t, <4>4
      <4> QED
        BY <1>t, <4>2, <4>3, <4>4, <4>5
    <3>2. CASE \E n \in 0 .. Len(img) - 1 : img' = SubSeq(img, 1, n)
      <4>1. PICK n \in 0 .. Len(img) - 1 : img' = SubSeq(img, 1, n)
        BY <3>2
      <4>2. /\ img \in Seq(Cells) /\ Len(img) = flushed
            /\ \A p \in 1 .. flushed : img[p] = out[p]
        BY <1>t, <2>2, DiskType
      <4>3. Len(img') = n /\ DOMAIN img' = 1 .. n /\ \A p \in 1 .. n : img'[p] = img[p]
        BY <1>t, <4>1, <4>2, SubSeqProperties
      <4> QED
        BY <1>t, <4>2, <4>3
    <3> QED
      BY <2>1, <3>1, <3>2 DEF Spoil
  <2>4. kind # "none"
    BY <2>1 DEF Spoil, DamagedCells
  <2> QED
    BY <2>1, <2>2, <2>3, <2>4 DEF ImgInv
<1>4. CASE UseStart \/ UseStep \/ UseFault
  <2>1. img' = img
    BY <1>4, ReaderReads DEF UseStart, UseStep, UseFault
  <2>2. phase = "use" /\ UNCHANGED <<phase, damage, pc, out, flushed, Disk>>
    BY <1>4 DEF UseStart, UseStep, UseFault, Using, createVars, createMemory, Disk
  <2> QED
    BY <2>1, <2>2 DEF ImgInv
<1>5. CASE UNCHANGED systemVars
  BY <1>5 DEF systemVars, createVars, createMemory, readerVars, options, ImgInv, Disk
<1> QED
  BY <1>1, <1>2, <1>3, <1>4, <1>5 DEF SystemNext

-----------------------------------------------------------------------------
(* What a cell is, and what damage can make of it. *)

ChunkHeads ==
  [k : {"chunk"}, id : Int, original_len : Nat, compressed_len : Nat,
   checksum_orig : [crc : Seq(Bytes)], checksum_comp : [crc : Seq(PayloadCells)]]

FooterCells ==
  [k : {"footer"}, index_offset : Nat, index_count : Nat, checksum : [crc : Seq(Nat)]]

EntryCells == [k : {"entry"}, e : EntryRecords]

LEMMA CellKinds ==
  ASSUME NEW cell \in Cells
  PROVE  /\ cell.k \in {"header", "chunk", "flag", "body", "entry", "footer"}
         /\ cell.k = "header" => cell = HeaderCell
         /\ cell.k = "chunk" => cell \in ChunkHeads
         /\ cell.k = "entry" => cell \in EntryCells
         /\ cell.k = "footer" => cell \in FooterCells
<1>1. CASE cell \in PayloadCells
  BY <1>1 DEF PayloadCells
<1>2. CASE cell = HeaderCell
  BY <1>2 DEF HeaderCell
<1>3. CASE cell \in ChunkHeads
  BY <1>3 DEF ChunkHeads
<1>4. CASE cell \in EntryCells
  BY <1>4 DEF EntryCells
<1>5. CASE cell \in FooterCells
  BY <1>5 DEF FooterCells
<1>6. \/ cell \in PayloadCells \/ cell = HeaderCell \/ cell \in ChunkHeads
      \/ cell \in EntryCells \/ cell \in FooterCells
  BY DEF Cells, ChunkHeads, EntryCells, FooterCells
<1> QED
  BY <1>1, <1>2, <1>3, <1>4, <1>5, <1>6

\* A damaged chunk header is no chunk header, or one field of it is wrong.
LEMMA DamagedChunk ==
  ASSUME NEW cell \in ChunkHeads, NEW kind, NEW seen \in DamagedCells(cell, kind)
  PROVE  \/ kind = "tag" /\ seen = Junk
         \/ kind = "crc" /\ \/ seen = [cell EXCEPT !.checksum_orig = BadCrc32]
                            \/ seen = [cell EXCEPT !.checksum_comp = BadCrc32]
         \/ kind = "length" /\ \E d \in {-1, 1} :
              \/ seen = [cell EXCEPT !.original_len = cell.original_len + d]
              \/ seen = [cell EXCEPT !.compressed_len = cell.compressed_len + d]
         \/ kind = "huge" /\ \E d \in 1 .. 4 :
              seen = [cell EXCEPT !.compressed_len = LenRange - d]
         \/ kind = "id" /\ \E d \in {-1, 1} : seen = [cell EXCEPT !.id = cell.id + d]
<1>1. cell.k = "chunk"
  BY DEF ChunkHeads
<1>2. kind \in {"tag", "crc", "length", "huge", "id"}
  BY <1>1 DEF DamagedCells
<1>3. CASE kind = "tag"
  BY <1>3 DEF DamagedCells
<1>4. CASE kind = "crc"
  BY <1>4 DEF DamagedCells
<1>5. CASE kind = "length"
  BY <1>5 DEF DamagedCells
<1>6. CASE kind = "id"
  BY <1>6 DEF DamagedCells
<1>7. CASE kind = "huge"
  BY <1>7 DEF DamagedCells
<1> QED
  BY <1>2, <1>3, <1>4, <1>5, <1>6, <1>7

\* Only a damaged tag hides a chunk header.
LEMMA StillChunk ==
  ASSUME NEW cell \in ChunkHeads, NEW kind, kind # "tag",
         NEW seen \in DamagedCells(cell, kind)
  PROVE  seen.k = "chunk"
<1>1. /\ cell.k = "chunk" /\ DOMAIN cell =
           {"k", "id", "original_len", "compressed_len", "checksum_orig", "checksum_comp"}
  BY DEF ChunkHeads
<1>2. CASE \/ seen = [cell EXCEPT !.checksum_orig = BadCrc32]
           \/ seen = [cell EXCEPT !.checksum_comp = BadCrc32]
  BY <1>1, <1>2
<1>3. CASE \E d \in {-1, 1} :
              \/ seen = [cell EXCEPT !.original_len = cell.original_len + d]
              \/ seen = [cell EXCEPT !.compressed_len = cell.compressed_len + d]
              \/ seen = [cell EXCEPT !.id = cell.id + d]
  BY <1>1, <1>3
<1>h. CASE \E d \in 1 .. 4 : seen = [cell EXCEPT !.compressed_len = LenRange - d]
  BY <1>1, <1>h
<1>4. \/ seen = [cell EXCEPT !.checksum_orig = BadCrc32]
      \/ seen = [cell EXCEPT !.checksum_comp = BadCrc32]
      \/ \E d \in 1 .. 4 : seen = [cell EXCEPT !.compressed_len = LenRange - d]
      \/ \E d \in {-1, 1} :
           \/ seen = [cell EXCEPT !.original_len = cell.original_len + d]
           \/ seen = [cell EXCEPT !.compressed_len = cell.compressed_len + d]
           \/ seen = [cell EXCEPT !.id = cell.id + d]
  BY DamagedChunk
<1> QED
  BY <1>2, <1>3, <1>4, <1>h

\* Damage never makes a cell look like another kind of cell.
LEMMA DamagedKind ==
  ASSUME NEW cell \in Cells, NEW kind, NEW seen \in DamagedCells(cell, kind)
  PROVE  /\ seen.k \in {cell.k, "junk"}
         /\ seen.k = "chunk" => kind \in {"crc", "length", "huge", "id"}
         /\ seen.k = "entry" => kind \in {"entry", "name"}
         /\ seen.k = "footer" => kind = "footer" /\
              \/ seen = [cell EXCEPT !.index_offset = cell.index_offset - 1]
              \/ seen = [cell EXCEPT !.index_count = cell.index_count + 1]
         /\ seen.k = "header" => seen.version = 2
<1>1. CASE cell.k = "chunk"
  <2>1. cell \in ChunkHeads
    BY <1>1, CellKinds
  <2> QED
    BY <2>1, DamagedChunk DEF ChunkHeads, Junk
<1>2. CASE cell.k = "header"
  <2>1. cell = HeaderCell
    BY <1>2, CellKinds
  <2>2. kind \in {"frame", "version"}
    BY <1>2 DEF DamagedCells
  <2>3. seen = Junk \/ seen = [cell EXCEPT !.version = 2]
    BY <1>2, <2>2 DEF DamagedCells
  <2> QED
    BY <2>1, <2>3 DEF HeaderCell, Junk
<1>3. CASE cell.k = "entry"
  <2>1. cell \in EntryCells
    BY <1>3, CellKinds
  <2>2. kind \in {"frame", "entry", "name"}
    BY <1>3 DEF DamagedCells
  <2>3. CASE kind = "frame"
    BY <1>3, <2>3 DEF DamagedCells, Junk
  <2>4. CASE kind = "entry"
    BY <1>3, <2>1, <2>4 DEF DamagedCells, EntryCells
  <2>5. CASE kind = "name"
    BY <1>3, <2>1, <2>5 DEF DamagedCells, EntryCells
  <2> QED
    BY <2>2, <2>3, <2>4, <2>5
<1>4. CASE cell.k = "footer"
  <2>1. cell \in FooterCells
    BY <1>4, CellKinds
  <2>2. kind \in {"frame", "footer"}
    BY <1>4 DEF DamagedCells
  <2>3. CASE kind = "frame"
    BY <1>4, <2>3 DEF DamagedCells, Junk
  <2>4. CASE kind = "footer"
    BY <1>4, <2>1, <2>4 DEF DamagedCells, FooterCells
  <2> QED
    BY <2>2, <2>3, <2>4
<1>5. CASE cell.k \in {"flag", "body"}
  <2>1. kind = "payload" /\ seen = Junk
    BY <1>5 DEF DamagedCells
  <2> QED
    BY <2>1 DEF Junk
<1> QED
  BY <1>1, <1>2, <1>3, <1>4, <1>5, CellKinds

\* A damaged entry names another file or leads to other chunks, not both.
LEMMA DamagedEntry ==
  ASSUME NEW cell \in EntryCells, NEW kind, NEW seen \in DamagedCells(cell, kind),
         seen.k = "entry"
  PROVE  /\ seen.e.mode = cell.e.mode
         /\ kind # "name" => seen.e.name = cell.e.name
         /\ seen.e.name \in {cell.e.name, <<ParentDir, "a">>, <<RootDir, "a">>, <<"e", CurDir, "a">>}
         /\ seen.e.chunk_count \in Nat /\ seen.e.first_chunk \in Int
         /\ kind # "entry" => /\ seen.e.first_chunk = cell.e.first_chunk
                              /\ seen.e.chunk_count = cell.e.chunk_count
<1>1. cell.k = "entry" /\ cell.e \in EntryRecords
  BY DEF EntryCells
<1>2. kind \in {"entry", "name"}
  BY <1>1 DEF DamagedCells, Junk
<1>3. CASE kind = "entry"
  <2>1. \E d \in {-1, 1} :
          \/ seen = [cell EXCEPT !.e.first_chunk = cell.e.first_chunk + d]
          \/ seen = [cell EXCEPT !.e.chunk_count =
                       IF cell.e.chunk_count + d < 0 THEN 0 ELSE cell.e.chunk_count + d]
    BY <1>1, <1>3 DEF DamagedCells
  <2>2. PICK d \in {-1, 1} :
          \/ seen = [cell EXCEPT !.e.first_chunk = cell.e.first_chunk + d]
          \/ seen = [cell EXCEPT !.e.chunk_count =
                       IF cell.e.chunk_count + d < 0 THEN 0 ELSE cell.e.chunk_count + d]
    BY <2>1
  <2> QED
    BY <1>1, <1>3, <2>2 DEF EntryCells, EntryRecords
<1>4. CASE kind = "name"
  <2>1. \E name \in {<<ParentDir, "a">>, <<RootDir, "a">>, <<"e", CurDir, "a">>} :
          seen = [cell EXCEPT !.e.name = name]
    BY <1>1, <1>4 DEF DamagedCells
  <2>2. PICK name \in {<<ParentDir, "a">>, <<RootDir, "a">>, <<"e", CurDir, "a">>} :
          seen = [cell EXCEPT !.e.name = name]
    BY <2>1
  <2> QED
    BY <1>1, <1>4, <2>2 DEF EntryCells, EntryRecords
<1> QED
  BY <1>2, <1>3, <1>4

-----------------------------------------------------------------------------
(* What a command that opens the archive knows of it. *)

\* A footer that is accepted is the creator's, and the file is as long as the
\* stream: the footer's own checksum covers both of its fields (format.rs:251).
LEMMA FooterSeen ==
  ASSUME CreatorInv, ImgInv, phase = "use", ReadFooter(img) = "ok"
  PROVE  /\ Len(img) = Len(out) /\ Whole
         /\ LastCell(img) = FooterCell(index_offset, Len(entries))
         /\ index_offset = 1 + 3 * counter /\ counter \in Nat /\ AllRecords(counter)
         /\ Len(entries) = Len(files)
<1>t. /\ out \in Seq(Cells) /\ Len(out) \in Nat /\ DOMAIN out = 1 .. Len(out)
      /\ index_offset \in Nat /\ Len(entries) \in Nat /\ counter \in Nat
  BY OutType DEF CreatorInv, TypeInv, TypeOK
<1>i. /\ Len(img) \in 0 .. Len(out) /\ DOMAIN img = 1 .. Len(img)
      /\ \A p \in DOMAIN img : img[p] = out[p] \/ img[p] \in DamagedCells(out[p], damage)
  BY DEF ImgInv
<1> DEFINE last == Len(img)
<1>1. /\ img # <<>> /\ LastCell(img) = img[last] /\ img[last].k = "footer"
      /\ img[last].checksum = Crc32(<<img[last].index_offset, img[last].index_count>>)
  BY DEF ReadFooter, LastCell
<1>2. last # 0
  BY <1>1, <1>i
<1>3. last \in DOMAIN img /\ last \in DOMAIN out /\ out[last] \in Cells
  BY <1>i, <1>t, <1>2
<1>4. out[last].k = "footer"
  BY <1>1, <1>i, <1>3, DamagedKind
<1>5. last = Len(out) /\ Whole
  BY <1>3, <1>4 DEF CreatorInv, FooterInv, FooterEnd
<1>6. out[last] = FooterCell(index_offset, Len(entries))
  BY <1>5 DEF Whole
<1>7. img[last] = out[last]
  <2> SUFFICES ASSUME img[last] \in DamagedCells(out[last], damage) PROVE FALSE
    BY <1>i, <1>3
  <2>1. \/ img[last] = [out[last] EXCEPT !.index_offset = out[last].index_offset - 1]
        \/ img[last] = [out[last] EXCEPT !.index_count = out[last].index_count + 1]
    BY <1>1, <1>3, DamagedKind
  <2> DEFINE seen == img[last]
             n == Len(entries)
  <2>2. \/ seen = [k |-> "footer", index_offset |-> index_offset - 1, index_count |-> n,
                   checksum |-> Crc32(<<index_offset, n>>)]
        \/ seen = [k |-> "footer", index_offset |-> index_offset, index_count |-> n + 1,
                   checksum |-> Crc32(<<index_offset, n>>)]
    BY <1>6, <2>1 DEF FooterCell
  <2>3. seen.checksum = Crc32(<<seen.index_offset, seen.index_count>>)
    BY <1>1
  <2>4. n \in Nat
    BY <1>t
  <2> HIDE DEF seen, n
  <2>5. \/ Crc32(<<index_offset, n>>) = Crc32(<<index_offset - 1, n>>)
        \/ Crc32(<<index_offset, n>>) = Crc32(<<index_offset, n + 1>>)
    BY <2>2, <2>3
  <2>6. <<index_offset, n>> = <<index_offset - 1, n>> \/ <<index_offset, n>> = <<index_offset, n + 1>>
    BY <2>5 DEF Crc32
  <2> QED
    BY <1>t, <2>4, <2>6
<1>8. HasFooter
  BY <1>3, <1>4 DEF HasFooter
<1>9. index_offset = 1 + 3 * counter /\ AllRecords(counter)
  BY <1>8 DEF CreatorInv, StreamInv, IndexAfterRecords
<1> QED
  BY <1>1, <1>t, <1>5, <1>6, <1>7, <1>9 DEF Whole

\* The index is read from where it was written, one entry for each file; only
\* what no checksum covers can differ.
LEMMA IndexSeen ==
  ASSUME CreatorInv, ImgInv, phase = "use", ReadFooter(img) = "ok", ReadIndex(img) = "ok"
  PROVE  /\ DOMAIN Entries = 1 .. Len(files) /\ Len(Entries) = Len(files)
         /\ Len(entries) = Len(files)
         /\ \A i \in 1 .. Len(files) :
              /\ entries[i] \in EntryRecords
              /\ \/ Entries[i] = entries[i]
                 \/ \E seen \in DamagedCells(EntryCell(entries[i]), damage) :
                      seen.k = "entry" /\ Entries[i] = seen.e
              /\ index_offset + i \in DOMAIN img
              /\ img[index_offset + i] = out[index_offset + i] => Entries[i] = entries[i]
<1>t. /\ out \in Seq(Cells) /\ Len(out) \in Nat /\ DOMAIN out = 1 .. Len(out)
      /\ index_offset \in Nat /\ entries \in Seq(EntryRecords) /\ Len(entries) \in Nat
  BY OutType DEF CreatorInv, TypeInv, TypeOK
<1>i. /\ DOMAIN img = 1 .. Len(img)
      /\ \A p \in DOMAIN img : img[p] = out[p] \/ img[p] \in DamagedCells(out[p], damage)
  BY DEF ImgInv
<1>1. /\ Len(img) = Len(out) /\ Whole /\ Len(entries) = Len(files)
      /\ LastCell(img) = FooterCell(index_offset, Len(entries))
  BY FooterSeen
<1> DEFINE n == Len(entries)
<1>2. LastCell(img).index_offset = index_offset /\ LastCell(img).index_count = n
  BY <1>1 DEF FooterCell
<1>3. Len(out) = index_offset + n + 1
      /\ \A i \in 1 .. n : out[index_offset + i] = EntryCell(entries[i])
  BY <1>1 DEF Whole
<1>4. IndexCells(img) = SubSeq(img, index_offset + 1, index_offset + n)
  BY <1>2 DEF IndexCells
<1>n. n \in Nat
  BY <1>t
<1> HIDE DEF n
<1>5. /\ DOMAIN IndexCells(img) = 1 .. n
      /\ \A i \in 1 .. n : IndexCells(img)[i] = img[index_offset + i]
  BY <1>4, <1>n, <1>t, Slice
<1>6. \A i \in 1 .. n : img[index_offset + i].k = "entry"
  BY <1>5 DEF ReadIndex
<1>7. Entries = [i \in 1 .. n |-> img[index_offset + i].e]
  BY <1>5 DEF Entries, IndexEntries
<1>8. DOMAIN Entries = 1 .. n /\ Len(Entries) = n
  BY <1>7, <1>n
<1>9. ASSUME NEW i \in 1 .. n
      PROVE  /\ entries[i] \in EntryRecords
             /\ \/ Entries[i] = entries[i]
                \/ \E seen \in DamagedCells(EntryCell(entries[i]), damage) :
                     seen.k = "entry" /\ Entries[i] = seen.e
             /\ index_offset + i \in DOMAIN img
             /\ img[index_offset + i] = out[index_offset + i] => Entries[i] = entries[i]
  <2>1. index_offset + i \in DOMAIN img
    BY <1>i, <1>1, <1>3, <1>n, <1>t
  <2>2. out[index_offset + i] = EntryCell(entries[i]) /\ Entries[i] = img[index_offset + i].e
    BY <1>3, <1>7
  <2>3. EntryCell(entries[i]).e = entries[i]
    BY DEF EntryCell
  <2>4. entries[i] \in EntryRecords
    BY <1>t DEF n
  <2> QED
    BY <1>i, <1>6, <2>1, <2>2, <2>3, <2>4
<1> QED
  BY <1>1, <1>8, <1>9 DEF n
-----------------------------------------------------------------------------
(* The steps of the system, for the reader: nothing happens, or it waits   *)
(* while the creator or the storage is at work, or it does a step itself.  *)

ReaderStep ==
  /\ Command \/ ReadStep \/ IoError \/ Die
  /\ phase = "use" /\ UNCHANGED <<img, createVars, phase, damage>>
  /\ Using

ReaderIdles ==
  /\ rpc = "idle" /\ UNCHANGED readerVars /\ tested' = FALSE
  /\ \/ phase = "create" /\ damage' = damage
     \/ Damage /\ damage' # "none" /\ phase = "use"

LEMMA FilesStay == Step \/ Kill => files' = files
  BY DEF Step, MainStep, WorkerStep, Kill, WriteHeader, RefuseFile, StartFile,
         Collect, WriteRecord, PushEntry, StartIndex, WriteEntry, WriteFooter, Report,
         DropWriter, Split, FetchAdd, Compress, Pop, Steal, poolOnly

LEMMA SystemSteps ==
  ASSUME ImgInv, [SystemNext]_systemVars
  PROVE  /\ files' = files
         /\ UNCHANGED systemVars \/ ReaderIdles \/ ReaderStep
<1>1. CASE CreateStep \/ CreateKill
  <2>1. phase = "create" /\ rpc = "idle" /\ tested = FALSE
    BY <1>1, EndedStops DEF CreateStep, CreateKill, ImgInv
  <2> QED
    BY <1>1, <2>1, FilesStay DEF CreateStep, CreateKill, ReaderIdles
<1>2. CASE Exit
  <2>1. rpc = "idle" /\ tested = FALSE
    BY <1>2 DEF Exit, ImgInv
  <2> QED
    BY <1>2, <2>1 DEF Exit, createMemory, ReaderIdles
<1>3. CASE Damage
  <2>1. \A cell : DamagedCells(cell, "none") = {}
    BY DEF DamagedCells
  <2>2. damage' # "none"
    BY <1>3, <2>1 DEF Damage, Spoil
  <2> QED
    BY <1>3, <2>2 DEF Damage, ReaderIdles, createVars, createMemory
<1>4. CASE UseStart \/ UseStep \/ UseFault
  <2>1. img' = img
    BY <1>4, ReaderReads DEF UseStart, UseStep, UseFault
  <2> QED
    BY <1>4, <2>1 DEF UseStart, UseStep, UseFault, Using, ReaderStep, createVars, createMemory
<1>5. CASE UNCHANGED systemVars
  BY <1>5 DEF systemVars, createVars, createMemory
<1> QED
  BY <1>1, <1>2, <1>3, <1>4, <1>5 DEF SystemNext

-----------------------------------------------------------------------------
(* A command past its opening has read a header, a footer and an index      *)
(* that are there, and only an extraction goes through the entries.         *)

Opens      == OpenError(FALSE) = "ok"
OpensIndex == OpenError(TRUE) = "ok"

OpenInv ==
  /\ rpc \in {"idle", "open", "scan", "entry", "chunks", "write", "mode"}
  /\ cmd \in {"none", "x", "l", "t"}
  /\ rpc \notin {"idle", "open"} => OpensIndex \/ (cmd = "t" /\ Opens)
  /\ rpc \in {"entry", "chunks", "write", "mode"} => cmd = "x"
  /\ ent \in Nat \ {0} /\ (rpc \in {"chunks", "write", "mode"} => ent <= Len(Entries))
  /\ cmd = "l" /\ res = "ok" /\ damage = "none" => OpensIndex

LEMMA OpenInit == SystemInit => OpenInv
  BY DEF SystemInit, ReadInit, OpenInv

LEMMA OpenStep == ImgInv /\ OpenInv /\ [SystemNext]_systemVars => OpenInv'
<1> SUFFICES ASSUME ImgInv, OpenInv, [SystemNext]_systemVars PROVE OpenInv'
  OBVIOUS
<1>1. CASE UNCHANGED systemVars
  <2>1. UNCHANGED <<img, rpc, cmd, res, ent, damage>>
    BY <1>1 DEF systemVars, readerVars, options, locals
  <2>2. UNCHANGED <<Opens, OpensIndex, Entries>>
    BY <2>1 DEF Opens, OpensIndex, OpenError, Entries
  <2> QED
    BY <2>1, <2>2 DEF OpenInv
<1>2. CASE ReaderIdles
  BY <1>2 DEF ReaderIdles, readerVars, options, locals, OpenInv, ImgInv
<1>3. CASE ReaderStep
  <2>1. UNCHANGED <<img, damage>> /\ UNCHANGED <<Opens, OpensIndex, Entries>>
    BY <1>3 DEF ReaderStep, Opens, OpensIndex, OpenError, Entries
  <2> USE DEF Finish, Continue, ResetLocals, options, locals
  <2>2. CASE Command
    <3>1. rpc' = "open" /\ cmd' \in {"x", "l", "t"} /\ res' = "none" /\ ent' = ent
      BY <2>2 DEF Command, ExtractCommand, ListCommand, TestCommand, Start
    <3> QED
      BY <3>1 DEF OpenInv
  <2>3. CASE OpenRefused \/ OpenList
    <3>1. UNCHANGED cmd /\ rpc' = "idle" /\ ent' = 1
          /\ (res' = "ok" => OpensIndex \/ cmd # "l")
      BY <2>3 DEF OpenRefused, OpenList, Opens, OpensIndex
    <3> QED
      BY <2>1, <3>1 DEF OpenInv
  <2>4. CASE OpenExtract \/ OpenTest
    <3>1. UNCHANGED <<cmd, ent>> /\ rpc' = "scan"
          /\ ((cmd = "x" /\ OpensIndex) \/ (cmd = "t" /\ Opens))
      BY <2>4 DEF OpenExtract, OpenTest, StartScan, Opens, OpensIndex
    <3> QED
      BY <2>1, <3>1 DEF OpenInv
  <2>5. CASE ScanRecord \/ ScanEnd \/ TestRecord
    <3>1. /\ rpc = "scan" /\ rpc' \in {"scan", "entry", "idle"} /\ ent' \in {ent, 1}
          /\ cmd \in {"x", "t"} /\ UNCHANGED cmd /\ (rpc' = "entry" => cmd = "x")
      BY <2>5 DEF ScanRecord, ScanEnd, TestRecord
    <3> QED
      BY <2>1, <3>1 DEF OpenInv
  <2>6. CASE TestEnd \/ EndExtract \/ RefuseEntry \/ Die \/ IoError
    <3>1. /\ rpc' = "idle" /\ ent' = 1 /\ UNCHANGED cmd
          /\ (res' = "ok" => cmd # "l")
      BY <2>6 DEF TestEnd, EndExtract, RefuseEntry, Die, IoError, OpenInv
    <3> QED
      BY <2>1, <3>1 DEF OpenInv
  <2>7. CASE SkipEntry \/ StartEntry \/ SetMode
    <3>1. /\ UNCHANGED cmd /\ cmd = "x" /\ rpc \in {"entry", "mode"} /\ rpc' \in {"entry", "chunks"}
          /\ ent' \in {ent, ent + 1} /\ (rpc' = "chunks" => ent' = ent /\ ent <= Len(Entries))
      BY <2>7 DEF SkipEntry, StartEntry, EntryReady, SetMode, OpenInv
    <3> QED
      BY <2>1, <3>1 DEF OpenInv
  <2>8. CASE ReadChunk \/ CreateFile \/ WriteFile
    <3>1. /\ UNCHANGED cmd /\ cmd = "x" /\ rpc \in {"chunks", "write"}
          /\ \/ rpc' \in {"chunks", "write", "mode"} /\ ent' = ent
             \/ rpc' = "idle" /\ ent' = 1
      BY <2>8 DEF ReadChunk, CreateFile, WriteFile, OpenInv
    <3> QED
      BY <2>1, <3>1 DEF OpenInv
  <2> QED
    BY <1>3, <2>2, <2>3, <2>4, <2>5, <2>6, <2>7, <2>8 DEF ReaderStep, ReadStep
<1> QED
  BY <1>1, <1>2, <1>3, SystemSteps

\* What every command may count on.
UseInv == CreatorInv /\ ImgInv /\ OpenInv

LEMMA UseInit == SystemInit => UseInv
  BY SystemCreator, ImgInit, OpenInit DEF UseInv

LEMMA UseKeeps == UseInv /\ [SystemNext]_systemVars => UseInv'
  BY SystemCreator, ImgStep, OpenStep DEF UseInv

LEMMA Opened ==
  ASSUME UseInv, OpensIndex
  PROVE  ReadFooter(img) = "ok" /\ ReadIndex(img) = "ok" /\ img # <<>>
  BY DEF Opens, OpensIndex, OpenError, ReadFooter, ReadHeader

\* `axc l` prints what was put in: the entry of a file is behind the records of
\* every file before it, and says of it what is so.
THEOREM ListIsComplete == SystemSpec => []ListTellsAll
<1>1. UseInv => ListTellsAll
  <2> SUFFICES ASSUME UseInv, cmd = "l", res = "ok", pc = "done", damage = "none"
               PROVE  Listed = [i \in DOMAIN files |->
                                  [name        |-> files[i].name,
                                   size        |-> Len(files[i].data),
                                   chunk_count |-> ChunkCount(files[i].data)]]
    BY DEF ListTellsAll
  <2>1. ReadFooter(img) = "ok" /\ ReadIndex(img) = "ok" /\ phase = "use"
    BY Opened DEF UseInv, OpenInv, ImgInv
  <2>2. /\ DOMAIN Entries = 1 .. Len(files) /\ Len(entries) = Len(files)
        /\ \A i \in 1 .. Len(files) : Entries[i] = entries[i]
    <3>1. \A cell : DamagedCells(cell, "none") = {}
      BY DEF DamagedCells
    <3> QED
      BY <2>1, <3>1, IndexSeen DEF UseInv
  <2>3. \A i \in 1 .. Len(files) : entries[i] = EntryOf(i, entries[i].first_chunk)
    BY <2>2 DEF UseInv, CreatorInv, StreamInv, EntriesMatch
  <2>4. DOMAIN files = 1 .. Len(files)
    BY FilesType DEF UseInv, CreatorInv, TypeInv, TypeOK
  <2>5. ASSUME NEW i \in 1 .. Len(files)
        PROVE  /\ Entries[i].name = files[i].name
               /\ Entries[i].original_size = Len(files[i].data)
               /\ Entries[i].chunk_count = ChunkCount(files[i].data)
    <3>1. PICK first_chunk : entries[i] = EntryOf(i, first_chunk)
      BY <2>3
    <3> QED
      BY <2>2, <3>1 DEF EntryOf
  <2> QED
    BY <2>2, <2>4, <2>5 DEF Listed
<1> QED
  BY <1>1, UseInit, UseKeeps, PTL DEF SystemSpec

-----------------------------------------------------------------------------
(* With -f only what the archive has an entry for is replaced.             *)

\* Names that no damage touched are the names that were put in.
LEMMA GivenName ==
  ASSUME UseInv, "name" \notin Damages, rpc \in {"chunks", "write", "mode"}
  PROVE  /\ ent \in 1 .. Len(files) /\ Entry.name = files[ent].name
         /\ \E f \in Given : f.path = Dest
<1>1. /\ ReadFooter(img) = "ok" /\ ReadIndex(img) = "ok" /\ phase = "use"
      /\ damage \in Damages \cup {"none"}
  BY Opened DEF UseInv, OpenInv, ImgInv
<1>2. /\ Len(Entries) = Len(files) /\ Len(entries) = Len(files) /\ Len(files) \in Nat
      /\ DOMAIN files = 1 .. Len(files)
  BY <1>1, IndexSeen, FilesType DEF UseInv, CreatorInv, TypeInv, TypeOK
<1>3. ent \in 1 .. Len(files)
  BY <1>2 DEF UseInv, OpenInv
<1>4. Entry.name = entries[ent].name
  <2>1. CASE Entries[ent] = entries[ent]
    BY <2>1 DEF Entry
  <2>2. CASE \E seen \in DamagedCells(EntryCell(entries[ent]), damage) :
               seen.k = "entry" /\ Entries[ent] = seen.e
    <3>1. PICK seen \in DamagedCells(EntryCell(entries[ent]), damage) :
               seen.k = "entry" /\ Entries[ent] = seen.e
      BY <2>2
    <3>2. entries[ent] \in EntryRecords
      BY <1>1, <1>3, IndexSeen DEF UseInv
    <3>3. EntryCell(entries[ent]) \in EntryCells /\ damage # "name"
      BY <1>1, <3>1, <3>2 DEF EntryCell, EntryCells, DamagedCells
    <3>4. seen.e.name = EntryCell(entries[ent]).e.name
      BY <3>1, <3>3, DamagedEntry
    <3> QED
      BY <3>1, <3>4 DEF Entry, EntryCell
  <2> QED
    BY <1>1, <1>3, <2>1, <2>2, IndexSeen DEF UseInv
<1>5. entries[ent].name = files[ent].name
  <2>1. PICK first_chunk : entries[ent] = EntryOf(ent, first_chunk)
    BY <1>2, <1>3 DEF UseInv, CreatorInv, StreamInv, EntriesMatch
  <2> QED
    BY <2>1 DEF EntryOf
<1> DEFINE f == [path |-> SanitisePath(files[ent].name), data |-> files[ent].data,
                 mode |-> files[ent].mode]
<1>6. f \in Given
  BY <1>2, <1>3 DEF Given, Stored, Range
<1> QED
  BY <1>3, <1>4, <1>5, <1>6 DEF Dest

LEMMA ClobberStep ==
  ASSUME "name" \notin Damages, UseInv, KeepInv, NoClobber, [SystemNext]_systemVars, KeepInv'
  PROVE  NoClobber'
<1>1. files' = files /\ (UNCHANGED systemVars \/ ReaderIdles \/ ReaderStep)
  BY SystemSteps DEF UseInv
<1>2. Given' = Given
  BY <1>1 DEF Given, Stored
<1>3. CASE UNCHANGED <<fs, before, overwrite>>
  BY <1>2, <1>3 DEF NoClobber
<1>4. CASE Command
  <2>1. before'.fs = fs' /\ fs' = fs
    BY <1>4 DEF Command, ExtractCommand, ListCommand, TestCommand, Start, outdir
  <2> QED
    BY <2>1 DEF NoClobber
<1>5. CASE CreateFile \/ WriteFile \/ SetMode \/ Die
  <2> SUFFICES ASSUME NEW path \in DOMAIN before.fs, overwrite,
                      \A f \in Given : f.path # path
               PROVE  path \in DOMAIN fs' /\ fs'[path] = before.fs[path]
    BY <1>2, <1>5, FileStep DEF NoClobber, KeepInv, KeepsFiles, Kept
  <2>1. path \in DOMAIN fs /\ fs[path] = before.fs[path]
    BY DEF NoClobber
  <2>2. rpc \in {"chunks", "write", "mode"} => path # Dest
    BY GivenName
  <2> QED
    BY <1>5, <2>1, <2>2, FileStep
<1>6. ReaderStep => Command \/ UNCHANGED <<fs, before, overwrite>>
                    \/ CreateFile \/ WriteFile \/ SetMode \/ Die
  BY ReaderSteps, QuietStep DEF ReaderStep
<1>7. UNCHANGED systemVars \/ ReaderIdles => UNCHANGED <<fs, before, overwrite>>
  BY DEF systemVars, ReaderIdles, readerVars, outdir, options
<1> QED
  BY <1>1, <1>3, <1>4, <1>5, <1>6, <1>7

LEMMA KeepInit == SystemInit => KeepInv
  BY DEF SystemInit, ReadInit, KeepInv, KeepsFiles, Kept

LEMMA ClobberInit == SystemInit => NoClobber
  BY DEF SystemInit, ReadInit, NoClobber

\* Without -f nothing that was there is touched; with -f only the files that the
\* archive has an entry for are, unless the storage changed the name in an
\* entry, which no checksum covers (format.rs:184).
THEOREM OnlyEntriesReplaced ==
  ASSUME "name" \notin Damages
  PROVE  SystemSpec => []NoClobber
<1>1. SystemInit => UseInv /\ KeepInv /\ NoClobber
  BY UseInit, KeepInit, ClobberInit
<1>2. UseInv /\ KeepInv /\ NoClobber /\ [SystemNext]_systemVars
        => (UseInv /\ KeepInv /\ NoClobber)'
  BY UseKeeps, KeepStep, ClobberStep
<1> QED
  BY <1>1, <1>2, PTL DEF SystemSpec
-----------------------------------------------------------------------------
(* What a reader finds in a chunk record.                                  *)

LEMMA RecordHead ==
  ASSUME NEW id \in Int, NEW chunk \in Seq(Bytes)
  PROVE  ChunkRecord(id, chunk)[1] =
           [k |-> "chunk", id |-> id, original_len |-> Len(chunk), compressed_len |-> 2,
            checksum_orig |-> Crc32(chunk), checksum_comp |-> Crc32(CompressFull(chunk))]
<1> DEFINE payload == CompressFull(chunk)
           head == [k              |-> "chunk",
                    id             |-> id,
                    original_len   |-> Len(chunk),
                    compressed_len |-> Len(payload),
                    checksum_orig  |-> Crc32(chunk),
                    checksum_comp  |-> Crc32(payload)]
<1>1. payload \in Seq(PayloadCells) /\ Len(payload) = 2
  BY PayloadType
<1>2. ChunkRecord(id, chunk) = <<head>> \o payload
  BY DEF ChunkRecord
<1> HIDE DEF payload, head
<1> DEFINE S == PayloadCells \cup {head}
<1>3. payload \in Seq(S) /\ <<head>> \in Seq(S) /\ Len(<<head>>) = 1 /\ <<head>>[1] = head
  <2>1. payload \in Seq(S)
    BY <1>1, PayloadCells \subseteq S, SeqMonotonic
  <2> QED
    BY <2>1
<1> HIDE DEF S
<1>4. (<<head>> \o payload)[1] = head
  BY <1>1, <1>3, ConcatProperties
<1> QED
  BY <1>1, <1>2, <1>4 DEF head, payload

\* The codec gives a chunk back, or the shorter one, and it panics or not.
LEMMA Decompressed ==
  ASSUME NEW chunk \in Seq(Bytes)
  PROVE  /\ chunk \notin DOMAIN Short => Decompress(CompressFull(chunk), Len(chunk)) = chunk
         /\ chunk \in DOMAIN Short =>
              \A n : Decompress(CompressFull(chunk), n) = Short[chunk]
         /\ Decodable(CompressFull(chunk))
         /\ chunk \notin PanicChunks => \A n : ~ DecoderPanics(CompressFull(chunk), n)
         /\ Len(chunk) # 0 /\ chunk \in PanicChunks =>
              DecoderPanics(CompressFull(chunk), Len(chunk))
<1> DEFINE payload == CompressFull(chunk)
           flag == [k |-> "flag", lz |-> chunk \in LzChunks]
           body == [k |-> "body", of |-> chunk]
<1>1. payload = <<flag, body>>
  BY DEF CompressFull
<1>l. flag.k = "flag" /\ body.k = "body" /\ body.of = chunk
  OBVIOUS
<1>z. chunk \in LzChunks => flag.lz
  OBVIOUS
<1> HIDE DEF payload, flag, body
<1>2. /\ payload # <<>> /\ payload[2].of = chunk /\ Len(payload) = 2
      /\ payload[1].k = "flag" /\ payload[2].k = "body"
      /\ payload[1] = flag
  BY <1>1, <1>l
<1>3. [i \in 1 .. Len(chunk) |-> IF i <= Len(chunk) THEN chunk[i] ELSE Garbage] = chunk
  OBVIOUS
<1>4. chunk \in DOMAIN Short => chunk \in LzChunks
  BY ShortAssumption
<1>5. chunk \notin DOMAIN Short => Decompress(payload, Len(chunk)) = chunk
  BY <1>2, <1>3 DEF Decompress
<1>6. chunk \in DOMAIN Short => \A n : Decompress(payload, n) = Short[chunk]
  BY <1>2, <1>4, <1>z DEF Decompress
<1>7. Decodable(payload)
  BY <1>2 DEF Decodable
<1>8. chunk \notin PanicChunks => \A n : ~ DecoderPanics(payload, n)
  BY <1>2 DEF DecoderPanics
<1>9. Len(chunk) # 0 /\ chunk \in PanicChunks => DecoderPanics(payload, Len(chunk))
  BY <1>2 DEF DecoderPanics
<1> QED
  BY <1>5, <1>6, <1>7, <1>8, <1>9 DEF payload

\* A chunk header that is seen is where one was written.
LEMMA SeenChunk ==
  ASSUME UseInv, phase = "use", NEW p \in DOMAIN img, IsChunk(img[p])
  PROVE  /\ p \in DOMAIN out /\ IsChunk(out[p]) /\ out[p] \in ChunkHeads
         /\ img[p] = out[p] \/ img[p] \in DamagedCells(out[p], damage)
         /\ \E chunk \in InputChunks : IsRecord(p, chunk)
<1>1. /\ Len(img) \in 0 .. Len(out) /\ DOMAIN img = 1 .. Len(img)
      /\ img[p] = out[p] \/ img[p] \in DamagedCells(out[p], damage)
  BY DEF UseInv, ImgInv
<1>2. out \in Seq(Cells) /\ DOMAIN out = 1 .. Len(out) /\ Len(out) \in Nat
  BY OutType DEF UseInv, CreatorInv, TypeInv, TypeOK
<1>3. p \in DOMAIN out /\ out[p] \in Cells
  BY <1>1, <1>2
<1>4. out[p].k = "chunk"
  BY <1>1, <1>3, DamagedKind DEF IsChunk
<1> QED
  BY <1>1, <1>3, <1>4, CellKinds DEF UseInv, CreatorInv, StreamInv, RecordsWhole, IsChunk

\* No chunk of a file is empty.
LEMMA InputChunkType ==
  ASSUME UseInv, NEW chunk \in InputChunks
  PROVE  chunk \in Seq(Bytes) /\ Len(chunk) \in 1 .. ChunkSize
<1>0. PICK i \in 1 .. Len(files) : \E k \in 1 .. ChunkCount(files[i].data) :
        chunk = SplitIntoChunks(files[i].data)[k]
  BY DEF InputChunks
<1>1. PICK k \in 1 .. ChunkCount(files[i].data) : chunk = SplitIntoChunks(files[i].data)[k]
  BY <1>0
<1>2. files[i].data \in Seq(Bytes)
  BY FilesType DEF UseInv, CreatorInv, TypeInv, TypeOK
<1>3. /\ SplitIntoChunks(files[i].data) \in Seq(Seq(Bytes))
      /\ Len(SplitIntoChunks(files[i].data)) = ChunkCount(files[i].data)
      /\ Len(SplitIntoChunks(files[i].data)[k]) \in 1 .. ChunkSize
  BY <1>2, SplitType
<1>4. k \in 1 .. Len(SplitIntoChunks(files[i].data))
  BY <1>3
<1> QED
  BY <1>1, <1>3, <1>4, ElementOfSeq

PayloadOf(at, record) == SubSeq(img, at + 1, at + record.compressed_len)

LEMMA PayloadLen ==
  ASSUME NEW at \in Nat, NEW record, record.compressed_len \in Nat
  PROVE  /\ Len(PayloadOf(at, record)) = record.compressed_len
         /\ \A i \in 1 .. record.compressed_len : PayloadOf(at, record)[i] = img[at + i]
  BY Slice DEF PayloadOf

\* The cast of a length keeps a small one and makes a huge one negative.
LEMMA SmallLength ==
  ASSUME NEW n \in 0 .. 3
  PROVE  AsI64(n) = n
  BY LenRangeAssumption DEF AsI64

LEMMA HugeLength ==
  ASSUME NEW d \in 1 .. 4
  PROVE  LenRange - d \in Nat /\ LenRange - d > 3 /\ AsI64(LenRange - d) = 0 - d
  BY LenRangeAssumption DEF AsI64

\* A chunk that passes the reader's checks is the chunk that was written there,
\* whatever was damaged: the sum over the payload covers the payload, the sum
\* over the chunk its length (archive.rs:345-363).
LEMMA GoodChunk ==
  ASSUME UseInv, phase = "use", NEW p \in DOMAIN img, IsChunk(img[p]),
         ChunkError(p, img[p]) = "none",
         NEW chunk \in Seq(Bytes), Len(chunk) > 0, IsRecord(p, chunk)
  PROVE  /\ Decompress(PayloadOf(p, img[p]), img[p].original_len) = chunk
         /\ img[p].compressed_len = 2 /\ chunk \notin DOMAIN Short
<1> DEFINE r == img[p]
           payload == PayloadOf(p, r)
           data == Decompress(payload, r.original_len)
           full == CompressFull(chunk)
<1>1. /\ p \in DOMAIN out /\ out[p] \in ChunkHeads
      /\ r = out[p] \/ r \in DamagedCells(out[p], damage)
  BY SeenChunk
<1>p. p \in Nat
  BY <1>1, OutType DEF UseInv, CreatorInv, TypeInv, TypeOK
<1>2. out[p].id \in Int
  BY <1>1 DEF ChunkHeads
<1>3. out[p] = [k |-> "chunk", id |-> out[p].id, original_len |-> Len(chunk), compressed_len |-> 2,
                checksum_orig |-> Crc32(chunk), checksum_comp |-> Crc32(full)]
  <2>1. out[p + 1 - 1] = ChunkRecord(out[p].id, chunk)[1]
    BY DEF IsRecord
  <2>2. p + 1 - 1 = p
    BY <1>p
  <2> QED
    BY <1>2, <2>1, <2>2, RecordHead
<1>4. /\ Crc32(payload) = r.checksum_comp
      /\ Crc32(data) = r.checksum_orig
      /\ ~ (AsI64(r.compressed_len) < 0)
  BY DEF ChunkError, PayloadOf
<1>5. Len(full) = 2
  BY PayloadType
<1>6. /\ r.compressed_len \in Nat
      /\ \/ r.checksum_orig = Crc32(chunk) /\ r.checksum_comp = Crc32(full)
         \/ r.checksum_orig = Crc32(chunk) /\ r.checksum_comp = BadCrc32 /\ r.compressed_len = 2
         \/ /\ r.checksum_orig = BadCrc32 /\ r.checksum_comp = Crc32(full)
            /\ r.original_len = Len(chunk)
  <2>0. PICK id : out[p] = [k |-> "chunk", id |-> id, original_len |-> Len(chunk), compressed_len |-> 2,
                checksum_orig |-> Crc32(chunk), checksum_comp |-> Crc32(full)]
    BY <1>3
  <2>j. Junk.k = "junk" /\ r.k = "chunk"
    BY DEF Junk, IsChunk
  <2>1. CASE r = out[p]
    BY <2>0, <2>1
  <2>2. CASE damage = "crc" /\ \/ r = [out[p] EXCEPT !.checksum_orig = BadCrc32]
                               \/ r = [out[p] EXCEPT !.checksum_comp = BadCrc32]
    BY <2>0, <2>2
  <2>3. CASE damage = "length" /\ \E d \in {-1, 1} :
              \/ r = [out[p] EXCEPT !.original_len = out[p].original_len + d]
              \/ r = [out[p] EXCEPT !.compressed_len = out[p].compressed_len + d]
    BY <2>0, <2>3
  <2>4. CASE damage = "id" /\ \E d \in {-1, 1} : r = [out[p] EXCEPT !.id = out[p].id + d]
    BY <2>0, <2>4
  <2>5. CASE \E d \in 1 .. 4 : r = [out[p] EXCEPT !.compressed_len = LenRange - d]
    <3>1. PICK d \in 1 .. 4 : r = [out[p] EXCEPT !.compressed_len = LenRange - d]
      BY <2>5
    <3>2. r.compressed_len = LenRange - d
      BY <2>0, <3>1
    <3> QED
      BY <1>4, <3>2, HugeLength
  <2> QED
    BY <1>1, <2>1, <2>2, <2>3, <2>4, <2>5, <2>j, DamagedChunk
<1>7. Len(payload) = r.compressed_len
  BY <1>6, <1>p, PayloadLen
<1> HIDE DEF payload, r, data, full
<1>8. CASE r.checksum_orig = Crc32(chunk) /\ r.checksum_comp = Crc32(full)
  <2>1. data = chunk /\ payload = full
    BY <1>4, <1>8 DEF Crc32
  <2>2. chunk \notin DOMAIN Short
    <3>1. chunk \in DOMAIN Short => data = Short[chunk] /\ Len(Short[chunk]) < Len(chunk)
      BY <2>1, Decompressed, ShortAssumption DEF data, full
    <3> QED
      BY <2>1, <3>1
  <2> QED
    BY <1>5, <1>7, <2>1, <2>2 DEF data, payload, r
<1>9. CASE r.checksum_comp = BadCrc32 /\ r.compressed_len = 2
  <2>1. payload = <<>>
    BY <1>4, <1>9 DEF Crc32, BadCrc32
  <2> QED
    BY <1>7, <1>9, <2>1
<1>10. CASE /\ r.checksum_orig = BadCrc32 /\ r.checksum_comp = Crc32(full)
            /\ r.original_len = Len(chunk)
  <2>1. payload = full /\ data = <<>>
    BY <1>4, <1>10 DEF Crc32, BadCrc32
  <2>2. data = chunk \/ (data = Short[chunk] /\ Short[chunk] # <<>>)
    BY <1>10, <2>1, Decompressed, ShortAssumption DEF data, full
  <2> QED
    BY <2>1, <2>2
<1> QED
  BY <1>6, <1>8, <1>9, <1>10
-----------------------------------------------------------------------------
(* The map from ids to records.                                            *)

\* Wherever it leads there is a chunk header with that id.
MapInv ==
  /\ pos \in Nat /\ chunk_idx \in Nat
  /\ rpc \in {"idle", "open"} => chunk_map = <<>>
  /\ \A id \in DOMAIN chunk_map :
       /\ chunk_map[id].at \in DOMAIN img /\ chunk_map[id].at \in Nat
       /\ chunk_map[id].record = img[chunk_map[id].at]
       /\ IsChunk(img[chunk_map[id].at]) /\ img[chunk_map[id].at].id = id

\* The length in a chunk header is off by one at most, or huge.
LEMMA SeenLength ==
  ASSUME UseInv, phase = "use", NEW p \in DOMAIN img, IsChunk(img[p])
  PROVE  /\ img[p].compressed_len \in Nat
         /\ \/ img[p].compressed_len \in 1 .. 3
            \/ damage = "huge" /\ AsI64(img[p].compressed_len) \in -4 .. -1
         /\ img[p].id \in Int /\ (damage # "id" => img[p].id = out[p].id)
         /\ damage \notin {"length", "huge"} => img[p].compressed_len = 2
<1> DEFINE r == img[p]
<1>1. /\ p \in DOMAIN out /\ out[p] \in ChunkHeads
      /\ r = out[p] \/ r \in DamagedCells(out[p], damage)
  BY SeenChunk
<1>2. PICK chunk \in InputChunks : IsRecord(p, chunk)
  BY SeenChunk
<1>3. chunk \in Seq(Bytes)
  BY <1>2, InputChunkType
<1>p. p \in Nat
  BY <1>1, OutType DEF UseInv, CreatorInv, TypeInv, TypeOK
<1>4. out[p].id \in Int
  BY <1>1 DEF ChunkHeads
<1>5. out[p].compressed_len = 2
  <2>1. out[p + 1 - 1] = ChunkRecord(out[p].id, chunk)[1] /\ p + 1 - 1 = p
    BY <1>2, <1>p DEF IsRecord
  <2>2. PICK id \in Int : out[p] = ChunkRecord(id, chunk)[1]
    BY <1>4, <2>1
  <2>3. out[p] = [k |-> "chunk", id |-> id, original_len |-> Len(chunk), compressed_len |-> 2,
                  checksum_orig |-> Crc32(chunk), checksum_comp |-> Crc32(CompressFull(chunk))]
    BY <1>3, <2>2, RecordHead
  <2> QED
    BY <2>3
<1>j. Junk.k = "junk" /\ r.k = "chunk"
  BY DEF Junk, IsChunk
<1> HIDE DEF r
<1>6. CASE r = out[p]
  BY <1>4, <1>5, <1>6 DEF r
<1>7. CASE damage = "crc" /\ \/ r = [out[p] EXCEPT !.checksum_orig = BadCrc32]
                             \/ r = [out[p] EXCEPT !.checksum_comp = BadCrc32]
  BY <1>1, <1>4, <1>5, <1>7 DEF r, ChunkHeads
<1>8. CASE damage = "length" /\ \E d \in {-1, 1} :
            \/ r = [out[p] EXCEPT !.original_len = out[p].original_len + d]
            \/ r = [out[p] EXCEPT !.compressed_len = out[p].compressed_len + d]
  BY <1>1, <1>4, <1>5, <1>8 DEF r, ChunkHeads
<1>9. CASE damage = "id" /\ \E d \in {-1, 1} : r = [out[p] EXCEPT !.id = out[p].id + d]
  BY <1>1, <1>4, <1>5, <1>9 DEF r, ChunkHeads
<1>10. CASE damage = "huge" /\ \E d \in 1 .. 4 :
             r = [out[p] EXCEPT !.compressed_len = LenRange - d]
  <2>1. PICK d \in 1 .. 4 : r = [out[p] EXCEPT !.compressed_len = LenRange - d]
    BY <1>10
  <2>2. r.compressed_len = LenRange - d /\ r.id = out[p].id
    BY <1>1, <2>1 DEF ChunkHeads
  <2> QED
    BY <1>4, <1>10, <2>2, HugeLength DEF r
<1> QED
  BY <1>1, <1>6, <1>7, <1>8, <1>9, <1>10, <1>j, DamagedChunk

LEMMA MapInit == SystemInit => MapInv
  BY DEF SystemInit, ReadInit, MapInv

LEMMA MapStep == UseInv /\ MapInv /\ [SystemNext]_systemVars => MapInv'
<1> SUFFICES ASSUME UseInv, MapInv, [SystemNext]_systemVars PROVE MapInv'
  OBVIOUS
<1>1. CASE UNCHANGED systemVars
  BY <1>1 DEF systemVars, readerVars, locals, MapInv, IsChunk
<1>2. CASE ReaderIdles
  BY <1>2 DEF ReaderIdles, readerVars, locals, MapInv
<1>3. CASE ReaderStep
  <2> USE DEF Finish, Continue, ResetLocals, locals
  <2>1. img' = img /\ phase = "use"
    BY <1>3 DEF ReaderStep
  <2>2. ASSUME rpc' # "open", pos' \in Nat, chunk_idx' \in Nat,
               chunk_map' = <<>> \/ (chunk_map' = chunk_map /\ rpc' # "idle")
        PROVE  MapInv'
    BY <2>1, <2>2 DEF MapInv, IsChunk
  <2>3. CASE Command
    <3>1. rpc' = "open" /\ rpc = "idle" /\ UNCHANGED locals
      BY <2>3 DEF Command, ExtractCommand, ListCommand, TestCommand, Start
    <3> QED
      BY <3>1 DEF MapInv
  <2>4. CASE OpenRefused \/ OpenList \/ TestEnd \/ EndExtract \/ RefuseEntry \/ Die \/ IoError
    <3>1. rpc' = "idle" /\ ResetLocals
      BY <2>4 DEF OpenRefused, OpenList, TestEnd, EndExtract, RefuseEntry, Die, IoError
    <3> QED
      BY <2>2, <3>1
  <2>5. CASE OpenExtract \/ OpenTest
    <3>1. rpc' = "scan" /\ UNCHANGED <<chunk_map, chunk_idx>> /\ pos' = 1
      BY <2>5 DEF OpenExtract, OpenTest, StartScan
    <3> QED
      BY <2>2, <3>1 DEF MapInv
  <2>6. CASE ScanRecord \/ TestRecord
    <3>1. rpc = "scan" /\ AtRecord
      BY <2>6 DEF ScanRecord, TestRecord
    <3>2. pos + 1 \in DOMAIN img /\ pos + 1 \in Nat /\ IsChunk(img[pos + 1])
      BY <2>1, <3>1 DEF AtRecord, IsChunk, MapInv, UseInv, ImgInv
    <3>3. img[pos + 1].compressed_len \in Nat /\ AsI64(img[pos + 1].compressed_len) \in Int
      BY <2>1, <3>2, SeenLength, SmallLength
    <3>6. CASE ScanRecord /\ ResetLocals /\ rpc' = "idle"
      BY <2>2, <3>6
    <3>4. CASE ScanRecord /\ rpc' # "idle"
      <4>1. /\ pos' >= 0 /\ rpc' = "scan" /\ chunk_idx' = chunk_idx /\ pos' = pos + 1 + AsI64(img[pos + 1].compressed_len)
            /\ chunk_map' = [id \in DOMAIN chunk_map \cup {img[pos + 1].id} |->
                 IF id = img[pos + 1].id THEN [at |-> pos + 1, record |-> img[pos + 1]]
                 ELSE chunk_map[id]]
        BY <3>4 DEF ScanRecord
      <4>2. pos' \in Nat
        BY <3>2, <3>3, <4>1
      <4>3. ASSUME NEW id \in DOMAIN chunk_map'
            PROVE  /\ chunk_map'[id].at \in DOMAIN img /\ chunk_map'[id].at \in Nat
                   /\ chunk_map'[id].record = img[chunk_map'[id].at]
                   /\ IsChunk(img[chunk_map'[id].at]) /\ img[chunk_map'[id].at].id = id
        BY <3>2, <4>1, <4>3 DEF MapInv
      <4> QED
        BY <2>1, <4>1, <4>2, <4>3 DEF MapInv, IsChunk
    <3>5. CASE TestRecord
      <4>1. chunk_idx' \in Nat /\ pos' \in Nat
            /\ rpc' \in {"scan", "idle"}
            /\ (chunk_map' = <<>> \/ (chunk_map' = chunk_map /\ rpc' # "idle"))
        BY <3>2, <3>3, <3>5 DEF TestRecord, MapInv
      <4> QED
        BY <2>2, <4>1
    <3> QED
      BY <2>6, <3>4, <3>5, <3>6 DEF ScanRecord
  <2>7. CASE ScanEnd \/ SkipEntry \/ StartEntry \/ SetMode
    <3>1. rpc' \in {"entry", "chunks"} /\ UNCHANGED <<pos, chunk_map>> /\ chunk_idx' \in {0, chunk_idx}
      BY <2>7 DEF ScanEnd, SkipEntry, StartEntry, SetMode
    <3> QED
      BY <2>2, <3>1 DEF MapInv
  <2>8. CASE ReadChunk \/ CreateFile \/ WriteFile
    <3>1. /\ rpc' \in {"idle", "chunks", "write", "mode"}
          /\ \/ rpc' # "idle" /\ UNCHANGED <<pos, chunk_map>> /\ chunk_idx' \in {chunk_idx, chunk_idx + 1}
             \/ ResetLocals
      BY <2>8 DEF ReadChunk, CreateFile, WriteFile
    <3> QED
      BY <2>2, <3>1 DEF MapInv
  <2> QED
    BY <1>3, <2>3, <2>4, <2>5, <2>6, <2>7, <2>8 DEF ReaderStep, ReadStep
<1> QED
  BY <1>1, <1>2, <1>3, SystemSteps DEF UseInv
-----------------------------------------------------------------------------
(* The bytes of a file.  Here the storage leaves alone what no checksum     *)
(* covers: the id of a chunk, and the entries (format.rs:124, 184).         *)

Covered == Damages \cap {"id", "entry", "name"} = {}

\* In every instance: as long as the storage has not done that.
Guarded == damage \notin {"id", "entry", "name"}

LEMMA CoveredGuarded == Covered /\ UseInv => Guarded
  BY DEF Covered, UseInv, ImgInv, Guarded

GivenFile(i) ==
  [path |-> SanitisePath(files[i].name), data |-> files[i].data, mode |-> files[i].mode]

LEMMA GivenFiles ==
  ASSUME UseInv
  PROVE  /\ Given = {GivenFile(i) : i \in 1 .. Len(files)}
         /\ \A i \in 1 .. Len(files) : files[i].data \in Seq(Bytes)
         /\ Len(files) \in Nat
<1>t. TypeInv
  BY DEF UseInv, CreatorInv
<1>f. files \in Inputs
  BY <1>t DEF TypeInv, TypeOK
<1>s. /\ files \in Seq(InputFiles) /\ Len(files) \in Nat
      /\ \A i \in 1 .. Len(files) : files[i].data \in Seq(Bytes)
  BY <1>f, FilesType
<1>d. DOMAIN files = 1 .. Len(files)
  BY <1>s
<1>1. DOMAIN files = 1 .. Len(files) /\ \A i \in 1 .. Len(files) : files[i].data \in Seq(Bytes)
      /\ Len(files) \in Nat
  BY <1>s, <1>d
<1>2. Range(files) = {files[i] : i \in 1 .. Len(files)}
  BY <1>1 DEF Range
<1>3. Given = {[path |-> SanitisePath(f.name), data |-> f.data, mode |-> f.mode] :
                 f \in Range(files)}
  BY DEF Given, Stored
<1>4. ASSUME NEW x
      PROVE  x \in Given <=> \E i \in 1 .. Len(files) : x = GivenFile(i)
  BY <1>2, <1>3 DEF GivenFile
<1>5. Given = {GivenFile(i) : i \in 1 .. Len(files)}
  BY <1>4
<1> QED
  BY <1>1, <1>5

\* The entries lead to the files.
LEMMA EntrySeen ==
  ASSUME UseInv, Guarded, rpc \notin {"idle", "open"}, cmd = "x"
  PROVE  /\ Len(Entries) = Len(files) /\ Len(entries) = Len(files)
         /\ \A i \in 1 .. Len(files) :
              Entries[i] = entries[i] /\ Entries[i] = EntryOf(i, entries[i].first_chunk)
<1>1. /\ ReadFooter(img) = "ok" /\ ReadIndex(img) = "ok" /\ phase = "use"
      /\ damage \notin {"id", "entry", "name"}
  BY Opened DEF UseInv, OpenInv, ImgInv, Guarded
<1>2. Len(Entries) = Len(files) /\ Len(entries) = Len(files)
  BY <1>1, IndexSeen DEF UseInv
<1>3. ASSUME NEW i \in 1 .. Len(files)
      PROVE  Entries[i] = entries[i] /\ Entries[i] = EntryOf(i, entries[i].first_chunk)
  <2>1. Entries[i] = entries[i]
    <3> SUFFICES ASSUME NEW seen \in DamagedCells(EntryCell(entries[i]), damage),
                        seen.k = "entry"
                 PROVE  FALSE
      BY <1>1, IndexSeen DEF UseInv
    <3>1. entries[i] \in EntryRecords
      BY <1>1, IndexSeen DEF UseInv
    <3>2. EntryCell(entries[i]) \in EntryCells /\ EntryCell(entries[i]) \in Cells
      BY <3>1 DEF EntryCell, EntryCells, Cells
    <3> QED
      BY <1>1, <3>2, DamagedKind
  <2>2. entries[i] = EntryOf(i, entries[i].first_chunk)
    BY <1>2 DEF UseInv, CreatorInv, StreamInv, EntriesMatch
  <2> QED
    BY <2>1, <2>2
<1> QED
  BY <1>2, <1>3

\* The entry in hand is the entry of a file.
LEMMA EntryInHand ==
  ASSUME UseInv, Guarded, rpc \in {"chunks", "write", "mode"}
  PROVE  /\ ent \in 1 .. Len(files) /\ Entry = entries[ent]
         /\ Entry.chunk_count = ChunkCount(files[ent].data)
         /\ Entry.mode = files[ent].mode
         /\ Dest = SanitisePath(files[ent].name)
         /\ files[ent].data \in Seq(Bytes) /\ GivenFile(ent) \in Given
         /\ cmd = "x"
<1>1. cmd = "x" /\ ent \in Nat \ {0} /\ ent <= Len(Entries)
  BY DEF UseInv, OpenInv
<1>2. ent \in 1 .. Len(files)
  BY <1>1, EntrySeen, GivenFiles
<1>3. PICK first_chunk : Entry = EntryOf(ent, first_chunk)
  BY <1>1, <1>2, EntrySeen DEF Entry
<1>4. Entry = entries[ent]
  BY <1>1, <1>2, EntrySeen DEF Entry
<1> QED
  BY <1>1, <1>2, <1>3, <1>4, GivenFiles DEF EntryOf, Dest

\* Where only names were damaged the entry in hand still leads to the file's
\* chunks.
Led == damage \notin {"id", "entry"}

LEMMA EntryLeads ==
  ASSUME UseInv, Led, rpc \in {"chunks", "write", "mode"}
  PROVE  /\ ent \in 1 .. Len(files) /\ Len(entries) = Len(files)
         /\ Entry.first_chunk = entries[ent].first_chunk
         /\ Entry.chunk_count = ChunkCount(files[ent].data)
         /\ files[ent].data \in Seq(Bytes)
<1>1. /\ ReadFooter(img) = "ok" /\ ReadIndex(img) = "ok" /\ phase = "use"
      /\ damage # "entry"
  BY Opened DEF UseInv, OpenInv, ImgInv, Led
<1>2. Len(Entries) = Len(files) /\ Len(entries) = Len(files)
  BY <1>1, IndexSeen DEF UseInv
<1>3. ent \in 1 .. Len(files) /\ files[ent].data \in Seq(Bytes)
  <2>1. ent \in 1 .. Len(files)
    BY <1>2, GivenFiles DEF UseInv, OpenInv
  <2> QED
    BY <2>1, GivenFiles
<1>4. /\ entries[ent] \in EntryRecords
      /\ \/ Entry = entries[ent]
         \/ \E seen \in DamagedCells(EntryCell(entries[ent]), damage) :
              seen.k = "entry" /\ Entry = seen.e
  BY <1>1, <1>3, IndexSeen DEF UseInv, Entry
<1>5. /\ Entry.first_chunk = entries[ent].first_chunk
      /\ Entry.chunk_count = entries[ent].chunk_count
  <2> SUFFICES ASSUME NEW seen \in DamagedCells(EntryCell(entries[ent]), damage),
                      seen.k = "entry", Entry = seen.e
               PROVE  /\ Entry.first_chunk = entries[ent].first_chunk
                      /\ Entry.chunk_count = entries[ent].chunk_count
    BY <1>4
  <2>1. EntryCell(entries[ent]) \in EntryCells /\ EntryCell(entries[ent]).e = entries[ent]
    BY <1>4 DEF EntryCell, EntryCells
  <2> QED
    BY <1>1, <2>1, DamagedEntry
<1>6. PICK first_chunk : entries[ent] = EntryOf(ent, first_chunk)
  BY <1>2, <1>3 DEF UseInv, CreatorInv, StreamInv, EntriesMatch
<1>7. entries[ent].chunk_count = ChunkCount(files[ent].data)
  BY <1>6 DEF EntryOf
<1> QED
  BY <1>2, <1>3, <1>5, <1>7

\* The record of the k-th chunk of the i-th file.
LEMMA FileRecord ==
  ASSUME CreatorInv, NEW i \in 1 .. Len(entries), NEW j \in Nat, LaidFrom(i, j),
         NEW k \in 1 .. ChunkCount(files[i].data), NEW n, n = j + k - 1,
         NEW chunk, chunk = SplitIntoChunks(files[i].data)[k]
  PROVE  /\ chunk \in Seq(Bytes) /\ Len(chunk) > 0
         /\ n \in Nat /\ IsRecord(RecordAt(n), chunk)
         /\ RecordAt(n) \in DOMAIN out /\ IsChunk(out[RecordAt(n)])
         /\ k = 1 => out[RecordAt(n)].id = entries[i].first_chunk
<1>1. files[i].data \in Seq(Bytes) /\ i <= Len(files)
  <2>1. i \in 1 .. Len(files)
    BY DEF CreatorInv, StreamInv, EntriesMatch
  <2> QED
    BY <2>1, FilesType DEF CreatorInv, TypeInv, TypeOK
<1>2. chunk \in Seq(Bytes) /\ Len(chunk) > 0
  <2>1. /\ SplitIntoChunks(files[i].data) \in Seq(Seq(Bytes))
        /\ k \in 1 .. Len(SplitIntoChunks(files[i].data))
        /\ Len(SplitIntoChunks(files[i].data)[k]) \in 1 .. ChunkSize
    BY <1>1, SplitType
  <2>2. Len(chunk) \in 1 .. ChunkSize /\ chunk \in Seq(Bytes)
    BY <2>1, ElementOfSeq
  <2> QED
    BY <2>2, ChunkSizeAssumption
<1>3. Placed(n, k, chunk, entries[i].first_chunk)
  BY DEF LaidFrom
<1>4. /\ n \in Nat /\ IsRecord(RecordAt(n), chunk)
      /\ k = 1 => out[RecordAt(n)].id = entries[i].first_chunk
  BY <1>3 DEF Placed
<1>5. PICK p : p = RecordAt(n)
  OBVIOUS
<1>6. p \in DOMAIN out /\ p \in Nat
  <2>1. p \in Nat \ {0}
    BY <1>4, <1>5 DEF RecordAt
  <2>2. p + 2 <= Len(out)
    BY <1>4, <1>5 DEF IsRecord
  <2>3. DOMAIN out = 1 .. Len(out) /\ Len(out) \in Nat
    BY OutType DEF CreatorInv
  <2> QED
    BY <2>1, <2>2, <2>3
<1>7. out[p] = ChunkRecord(out[p].id, chunk)[1]
  <2>1. p + 1 - 1 = p
    BY <1>6
  <2>2. out[p + 1 - 1] = ChunkRecord(out[p].id, chunk)[1]
    BY <1>4, <1>5 DEF IsRecord
  <2> QED
    BY <2>1, <2>2
<1>8. IsChunk(out[p])
  BY <1>7 DEF ChunkRecord, IsChunk
<1> QED
  BY <1>2, <1>4, <1>5, <1>6, <1>8

\* Where the ids of a file are in order they lead to its chunks.
LEMMA OrderedRecord ==
  ASSUME CreatorInv, NEW i \in 1 .. Len(entries), OrderedFile(i),
         NEW k \in 1 .. ChunkCount(files[i].data),
         NEW id, id = entries[i].first_chunk + k - 1,
         NEW chunk, chunk = SplitIntoChunks(files[i].data)[k]
  PROVE  /\ chunk \in Seq(Bytes) /\ Len(chunk) > 0
         /\ \E n \in Nat : IsRecord(RecordAt(n), chunk) /\ IdAt(RecordAt(n), id)
<1>1. PICK j \in Nat : LaidFrom(i, j)
  BY DEF CreatorInv, FilesLaid
<1>2. PICK count, first : /\ count = ChunkCount(files[i].data)
                          /\ first = entries[i].first_chunk
  OBVIOUS
<1>3. entries[i].chunk_count = count /\ first \in Int /\ count \in Nat
  <2>1. entries[i] = EntryOf(i, entries[i].first_chunk) /\ i \in 1 .. Len(files)
    BY DEF CreatorInv, StreamInv, EntriesMatch
  <2>2. entries[i] \in EntryRecords /\ files[i].data \in Seq(Bytes)
    BY <2>1, FilesType DEF CreatorInv, TypeInv, TypeOK
  <2>3. first \in Int
    BY <1>2, <2>2 DEF EntryRecords
  <2>4. entries[i].chunk_count = count
    BY <1>2, <2>1 DEF EntryOf
  <2> QED
    BY <1>2, <2>2, <2>3, <2>4, ChunkCountNat
<1>4. k \in 1 .. count /\ k \in Nat /\ 1 \in 1 .. count /\ id = first + k - 1
  BY <1>2, <1>3
<1>5. PICK n : n = j + k - 1
  OBVIOUS
<1>6. /\ chunk \in Seq(Bytes) /\ Len(chunk) > 0 /\ n \in Nat
      /\ IsRecord(RecordAt(n), chunk)
      /\ k = 1 => IdAt(RecordAt(n), first)
  BY <1>1, <1>2, <1>5, FileRecord DEF IdAt
<1>7. IdAt(RecordAt(n), id)
  <2>1. CASE k = 1
    <3>1. id = first
      BY <1>3, <1>4, <2>1
    <3> QED
      BY <1>6, <2>1, <3>1
  <2>2. CASE k # 1
    <3>1. PICK m : m = j + 1 - 1
      OBVIOUS
    <3>2. IdAt(RecordAt(m), first) /\ m = j
      <4>1. PICK one, head : one = 1 /\ head = SplitIntoChunks(files[i].data)[1]
        OBVIOUS
      <4>2. one \in 1 .. ChunkCount(files[i].data) /\ m = j + one - 1
        BY <1>2, <1>4, <3>1, <4>1
      <4>3. /\ RecordAt(m) \in DOMAIN out /\ IsChunk(out[RecordAt(m)])
            /\ out[RecordAt(m)].id = entries[i].first_chunk
        BY <1>1, <4>1, <4>2, FileRecord
      <4> QED
        BY <1>2, <3>1, <4>3 DEF IdAt
    <3>3. PICK p : p = RecordAt(m)
      OBVIOUS
    <3>4. PICK d : d = k - 1
      OBVIOUS
    <3>5. d \in 1 .. count - 1 /\ p \in DOMAIN out
      BY <1>3, <1>4, <2>2, <3>2, <3>3, <3>4 DEF IdAt
    <3>6. IdAt(p + 3 * d, first + d)
      BY <1>2, <1>3, <3>2, <3>3, <3>5 DEF OrderedFile
    <3>7. p + 3 * d = RecordAt(n) /\ first + d = id
      BY <1>3, <1>4, <1>5, <3>2, <3>3, <3>4 DEF RecordAt
    <3> QED
      BY <3>6, <3>7
  <2> QED
    BY <2>1, <2>2
<1> QED
  BY <1>6, <1>7

\* With one worker all ids are in order.
LEMMA SerialOrders ==
  ASSUME CreatorInv, SerialStream
  PROVE  AllOrdered
<1> SUFFICES ASSUME NEW i \in DOMAIN entries, NEW p \in DOMAIN out,
                    IdAt(p, entries[i].first_chunk),
                    NEW k \in 1 .. entries[i].chunk_count - 1
             PROVE  IdAt(p + 3 * k, entries[i].first_chunk + k)
  BY DEF AllOrdered, OrderedFile
<1>1. i \in 1 .. Len(entries) /\ i \in 1 .. Len(files)
  <2>1. DOMAIN entries = 1 .. Len(entries) /\ Len(entries) \in Nat
    BY DEF CreatorInv, TypeInv, TypeOK
  <2> QED
    BY <2>1 DEF CreatorInv, StreamInv, EntriesMatch
<1>2. PICK j \in Nat : LaidFrom(i, j)
  BY <1>1 DEF CreatorInv, FilesLaid
<1>3. PICK count, first : /\ count = ChunkCount(files[i].data)
                          /\ first = entries[i].first_chunk
  OBVIOUS
<1>4. entries[i].chunk_count = count /\ first \in Int /\ count \in Nat
  <2>1. entries[i] = EntryOf(i, entries[i].first_chunk)
    BY <1>1 DEF CreatorInv, StreamInv, EntriesMatch
  <2>2. entries[i] \in EntryRecords /\ files[i].data \in Seq(Bytes)
    BY <1>1, FilesType DEF CreatorInv, TypeInv, TypeOK
  <2>3. first \in Int
    BY <1>3, <2>2 DEF EntryRecords
  <2>4. entries[i].chunk_count = count
    BY <1>3, <2>1 DEF EntryOf
  <2> QED
    BY <1>3, <2>2, <2>3, <2>4, ChunkCountNat
<1>5. k \in Nat /\ 1 \in 1 .. count /\ k + 1 \in 1 .. count
  BY <1>4
<1>6. p = RecordAt(first)
  BY <1>3 DEF IdAt, SerialStream
<1>7. out[RecordAt(j)].id = first /\ IsChunk(out[RecordAt(j)]) /\ RecordAt(j) \in DOMAIN out
  <2>1. PICK one, n, head : one = 1 /\ n = j + one - 1 /\ head = SplitIntoChunks(files[i].data)[one]
    OBVIOUS
  <2>2. one \in 1 .. ChunkCount(files[i].data) /\ n = j
    BY <1>3, <1>5, <2>1
  <2> QED
    BY <1>1, <1>2, <1>3, <2>1, <2>2, FileRecord
<1>8. j = first
  <2>1. RecordAt(j) = RecordAt(first)
    BY <1>7 DEF SerialStream
  <2> QED
    BY <1>4, <2>1 DEF RecordAt
<1>9. IsChunk(out[RecordAt(j + k)]) /\ RecordAt(j + k) \in DOMAIN out
  <2>1. PICK l, n, chunk : l = k + 1 /\ n = j + l - 1 /\ chunk = SplitIntoChunks(files[i].data)[l]
    OBVIOUS
  <2>2. l \in 1 .. ChunkCount(files[i].data) /\ n = j + k
    BY <1>3, <1>5, <2>1
  <2> QED
    BY <1>1, <1>2, <2>1, <2>2, FileRecord
<1>10. out[RecordAt(j + k)].id = j + k
  <2>1. PICK q : q = RecordAt(j + k)
    OBVIOUS
  <2>2. q = RecordAt(out[q].id) /\ out[q].id \in Int
    <3>1. out \in Seq(Cells)
      BY OutType DEF CreatorInv
    <3>2. q \in DOMAIN out /\ IsChunk(out[q])
      BY <1>9, <2>1
    <3>3. q = RecordAt(out[q].id)
      BY <3>2 DEF SerialStream
    <3>4. out[q].id \in Int
      BY <3>1, <3>2, ChunkIdType
    <3> QED
      BY <3>3, <3>4
  <2> QED
    BY <1>5, <2>1, <2>2 DEF RecordAt
<1>11. RecordAt(j + k) = p + 3 * k /\ j + k = first + k
  BY <1>4, <1>5, <1>6, <1>8 DEF RecordAt
<1> QED
  BY <1>3, <1>9, <1>10, <1>11 DEF IdAt

\* The id that the entry of an ordered file leads to is that of the right chunk,
\* and the map leads to it, if anywhere.
LEMMA ChunkPlace ==
  ASSUME UseInv, MapInv, Led, OrderedFile(ent), rpc = "chunks",
         chunk_idx < Entry.chunk_count,
         NEW id, id = Entry.first_chunk + chunk_idx,
         NEW chunk, chunk = SplitIntoChunks(files[ent].data)[chunk_idx + 1]
  PROVE  /\ chunk \in Seq(Bytes) /\ Len(chunk) > 0
         /\ \E n \in 0 .. counter - 1 :
              /\ IsRecord(RecordAt(n), chunk) /\ IdAt(RecordAt(n), id)
              /\ id \in DOMAIN chunk_map => chunk_map[id].at = RecordAt(n)
<1>0. /\ phase = "use" /\ damage # "id" /\ Len(entries) = Len(files)
      /\ ReadFooter(img) = "ok"
  BY EntryLeads, Opened DEF UseInv, OpenInv, ImgInv, Led
<1>1. /\ ent \in 1 .. Len(files) /\ Entry.first_chunk = entries[ent].first_chunk
      /\ Entry.chunk_count = ChunkCount(files[ent].data)
      /\ files[ent].data \in Seq(Bytes)
  BY EntryLeads
<1>2. PICK k : k = chunk_idx + 1
  OBVIOUS
<1>3. k \in 1 .. ChunkCount(files[ent].data) /\ entries[ent].first_chunk \in Int
      /\ chunk_idx \in Nat
  <2>1. entries[ent] \in EntryRecords
    BY <1>0, <1>1, GivenFiles DEF UseInv, CreatorInv, TypeInv, TypeOK
  <2>2. entries[ent].first_chunk \in Int
    BY <2>1 DEF EntryRecords
  <2>3. ChunkCount(files[ent].data) \in Nat /\ chunk_idx \in Nat
    BY <1>1, ChunkCountNat DEF MapInv
  <2> QED
    BY <1>1, <1>2, <2>2, <2>3
<1>4. id = entries[ent].first_chunk + k - 1
  BY <1>1, <1>2, <1>3
<1>5. /\ chunk \in Seq(Bytes) /\ Len(chunk) > 0
      /\ \E n \in Nat : IsRecord(RecordAt(n), chunk) /\ IdAt(RecordAt(n), id)
  BY <1>0, <1>1, <1>2, <1>3, <1>4, OrderedRecord DEF UseInv
<1>6. PICK n \in Nat : IsRecord(RecordAt(n), chunk) /\ IdAt(RecordAt(n), id)
  BY <1>5
<1>7. PICK p : p = RecordAt(n)
  OBVIOUS
<1>8. n < counter
  <2>1. /\ Len(img) = Len(out) /\ Whole /\ counter \in Nat
        /\ index_offset = 1 + 3 * counter
    BY <1>0, FooterSeen DEF UseInv
  <2>2. /\ Len(out) \in Nat /\ DOMAIN out = 1 .. Len(out) /\ Len(entries) \in Nat
    BY OutType DEF UseInv, CreatorInv, TypeInv, TypeOK
  <2>3. p \in Nat /\ p + 2 <= Len(out) /\ p >= 2 /\ out[p].k = "chunk"
    BY <1>6, <1>7 DEF RecordAt, IsRecord, IdAt, IsChunk
  <2>4. p <= index_offset
    <3> SUFFICES ASSUME p > index_offset PROVE FALSE
      BY <2>1, <2>3
    <3> DEFINE i == p - index_offset
    <3>1. i \in 1 .. Len(entries) /\ index_offset + i = p
      BY <2>1, <2>2, <2>3 DEF Whole
    <3>2. out[p] = EntryCell(entries[i])
      BY <2>1, <3>1 DEF Whole
    <3> QED
      BY <2>3, <3>2 DEF EntryCell
  <2> QED
    BY <1>7, <2>1, <2>4 DEF RecordAt
<1>9. ASSUME id \in DOMAIN chunk_map PROVE chunk_map[id].at = p
  <2> DEFINE at == chunk_map[id].at
  <2>1. at \in DOMAIN img /\ IsChunk(img[at]) /\ img[at].id = id
    BY <1>9 DEF MapInv
  <2>2. at \in DOMAIN out /\ IsChunk(out[at]) /\ out[at].id = id
    BY <1>0, <2>1, SeenChunk, SeenLength
  <2>3. p \in DOMAIN out /\ IsChunk(out[p]) /\ out[p].id = id
    BY <1>6, <1>7 DEF IdAt
  <2> QED
    BY <2>2, <2>3 DEF UseInv, CreatorInv, IdInv, DrawnInv, UniqueChunkIds
<1>10. n \in 0 .. counter - 1
  BY <1>0, <1>8, FooterSeen DEF UseInv
<1> QED
  BY <1>5, <1>6, <1>7, <1>9, <1>10

LEMMA RightChunk ==
  ASSUME UseInv, MapInv, Guarded, OrderedFile(ent), rpc = "chunks",
         chunk_idx < Entry.chunk_count,
         Entry.first_chunk + chunk_idx \in DOMAIN chunk_map,
         NEW at, NEW record, chunk_map[Entry.first_chunk + chunk_idx].at = at,
         chunk_map[Entry.first_chunk + chunk_idx].record = record,
         ChunkError(at, record) = "none"
  PROVE  Decompress(PayloadOf(at, record), record.original_len)
           = SplitIntoChunks(files[ent].data)[chunk_idx + 1]
<1>l. Led
  BY DEF Guarded, Led
<1>1. PICK id, chunk : id = Entry.first_chunk + chunk_idx
                       /\ chunk = SplitIntoChunks(files[ent].data)[chunk_idx + 1]
  OBVIOUS
<1>2. PICK n \in 0 .. counter - 1 : IsRecord(RecordAt(n), chunk) /\ at = RecordAt(n)
  BY <1>1, <1>l, ChunkPlace
<1>3. chunk \in Seq(Bytes) /\ Len(chunk) > 0
  BY <1>1, <1>l, ChunkPlace
<1>4. at \in DOMAIN img /\ record = img[at] /\ IsChunk(img[at]) /\ phase = "use"
  BY <1>1 DEF MapInv, UseInv, ImgInv
<1>5. Decompress(PayloadOf(at, img[at]), img[at].original_len) = chunk
  BY <1>2, <1>3, <1>4, GoodChunk
<1> QED
  BY <1>1, <1>4, <1>5

\* Some of the bytes of a file, from the first on.
LEMMA PrefixOf ==
  ASSUME NEW data \in Seq(Bytes), NEW n \in 0 .. Len(data)
  PROVE  IsPrefix(SubSeq(data, 1, n), data)
<1> DEFINE s == SubSeq(data, 1, n)
<1>1. s \in Seq(Bytes) /\ Len(s) = n
  BY SubSeqProperties
<1> HIDE DEF s
<1>2. SubSeq(s, 1, Len(s)) = s
  BY <1>1, SubSeqFull
<1> QED
  BY <1>1, <1>2 DEF IsPrefix, s

LEMMA EmptyPrefix ==
  ASSUME NEW data \in Seq(Bytes)
  PROVE  IsPrefix(<<>>, data)
<1>1. SubSeq(data, 1, 0) = <<>> /\ 0 \in 0 .. Len(data)
  BY SubSeqEmpty
<1>2. IsPrefix(SubSeq(data, 1, 0), data)
  BY <1>1, PrefixOf
<1> QED
  BY <1>1, <1>2

\* The ids of the file in hand are in order.
EntOrdered == OrderedFile(ent)

\* While the creator stands still an order stays what it is.
LEMMA ShuffleStays ==
  ASSUME UNCHANGED <<entries, out>>
  PROVE  /\ \A i : OrderedFile(i)' <=> OrderedFile(i)
         /\ AllOrdered' <=> AllOrdered
         /\ ent' = ent => (EntOrdered' <=> EntOrdered)
         /\ \A path : Shuffled(path)' <=> Shuffled(path)
<1>1. \A p, id : IdAt(p, id)' <=> IdAt(p, id)
  BY DEF IdAt, IsChunk
<1>2. \A i : OrderedFile(i)' <=> OrderedFile(i)
  BY <1>1 DEF OrderedFile
<1>3. ent' = ent => (EntOrdered' <=> EntOrdered)
  <2> SUFFICES ASSUME ent' = ent PROVE EntOrdered' <=> EntOrdered
    OBVIOUS
  <2>1. PICK i : i = ent
    OBVIOUS
  <2> QED
    BY <1>2, <2>1 DEF EntOrdered
<1> QED
  BY <1>2, <1>3 DEF AllOrdered, Shuffled

\* What is there is of the file with that name, unless its ids are out of order.
Holds(path) == path \in DOMAIN fs /\ (GivenBack(path) \/ Shuffled(path))

DataInv ==
  /\ rpc = "chunks" => /\ chunk_idx <= ChunkCount(files[ent].data)
                       /\ EntOrdered => file_data = Joined(files[ent].data, chunk_idx)
  /\ rpc \in {"write", "mode"} => /\ Dest \in DOMAIN fs
                                  /\ EntOrdered => file_data = files[ent].data
  /\ rpc = "mode" /\ EntOrdered => IsPrefix(fs[Dest].data, files[ent].data)
  /\ cmd = "x" => \A path \in Finished : Holds(path)

\* A change of the file in hand to some of its bytes does no harm.
LEMMA StillHolds ==
  ASSUME UseInv, Guarded, rpc \in {"chunks", "write", "mode"},
         UNCHANGED <<files, entries, out>>,
         DOMAIN fs' = DOMAIN fs \cup {Dest},
         \A p \in DOMAIN fs : p # Dest => fs'[p] = fs[p],
         EntOrdered => IsPrefix(fs'[Dest].data, files[ent].data)
  PROVE  \A path : path = Dest \/ Holds(path) => Holds(path)'
<1>1. /\ GivenFile(ent) \in Given /\ Dest = SanitisePath(files[ent].name)
      /\ Dest = SanitisePath(entries[ent].name) /\ ent \in DOMAIN entries
  <2>1. DOMAIN entries = 1 .. Len(entries) /\ Len(entries) = Len(files)
    <3>1. cmd = "x"
      BY EntryInHand
    <3>2. Len(entries) = Len(files)
      BY <3>1, EntrySeen
    <3>3. DOMAIN entries = 1 .. Len(entries)
      BY DEF UseInv, CreatorInv, TypeInv, TypeOK
    <3> QED
      BY <3>2, <3>3
  <2>2. /\ GivenFile(ent) \in Given /\ Dest = SanitisePath(files[ent].name)
        /\ ent \in 1 .. Len(files) /\ Entry = entries[ent]
    BY EntryInHand
  <2> QED
    BY <2>1, <2>2 DEF Dest
<1>2. GivenFile(ent).path = Dest /\ GivenFile(ent).data = files[ent].data
  BY <1>1 DEF GivenFile
<1>3. Given' = Given /\ \A path : Shuffled(path)' <=> Shuffled(path)
  BY ShuffleStays DEF Given, Stored
<1>4. ASSUME NEW path, path = Dest \/ Holds(path) PROVE Holds(path)'
  <2>1. CASE path = Dest /\ EntOrdered
    <3>1. GivenBack(path)'
      BY <1>1, <1>2, <1>3, <2>1 DEF GivenBack
    <3> QED
      BY <2>1, <3>1 DEF Holds
  <2>2. CASE path = Dest /\ ~ EntOrdered
    <3>1. Shuffled(path)
      BY <1>1, <2>2 DEF Shuffled, EntOrdered
    <3> QED
      BY <1>3, <2>2, <3>1 DEF Holds
  <2>3. CASE path # Dest
    <3>1. Holds(path) /\ path \in DOMAIN fs /\ path \in DOMAIN fs' /\ fs'[path] = fs[path]
      BY <1>4, <2>3 DEF Holds
    <3>2. GivenBack(path) => GivenBack(path)'
      BY <1>3, <3>1 DEF GivenBack
    <3> QED
      BY <1>3, <3>1, <3>2 DEF Holds
  <2> QED
    BY <2>1, <2>2, <2>3
<1> QED
  BY <1>4

\* What SetFile leaves in the file in hand.
LEMMA SetHeld ==
  ASSUME UseInv, Guarded, rpc \in {"chunks", "write", "mode"},
         UNCHANGED <<files, entries, out>>,
         NEW data, NEW mode, SetFile(Dest, data, mode),
         EntOrdered => IsPrefix(data, files[ent].data)
  PROVE  /\ \A path : path = Dest \/ Holds(path) => Holds(path)'
         /\ Dest \in DOMAIN fs' /\ fs'[Dest].data = data
<1>1. /\ DOMAIN fs' = DOMAIN fs \cup {Dest}
      /\ \A p \in DOMAIN fs : p # Dest => fs'[p] = fs[p]
      /\ fs'[Dest].data = data
  BY DEF SetFile
<1> QED
  BY <1>1, StillHolds

LEMMA FinishedAppend ==
  ASSUME TornInv, NEW path, extracted' = Append(extracted, path)
  PROVE  Finished' = Finished \cup {path}
<1>1. PICK S : extracted \in Seq(S)
  BY DEF TornInv
<1>2. extracted \in Seq(S \cup {path})
  BY <1>1
<1>3. /\ extracted' \in Seq(S \cup {path}) /\ Len(extracted') = Len(extracted) + 1
      /\ \A i \in 1 .. Len(extracted) : extracted'[i] = extracted[i]
      /\ extracted'[Len(extracted) + 1] = path
  BY <1>2
<1>4. DOMAIN extracted = 1 .. Len(extracted) /\ Len(extracted) \in Nat
      /\ DOMAIN extracted' = 1 .. Len(extracted) + 1
  BY <1>2, <1>3
<1> QED
  BY <1>3, <1>4 DEF Finished, Range

LEMMA DataInit == SystemInit => DataInv
  BY DEF SystemInit, ReadInit, DataInv

\* The step that reads a chunk and goes on.
LEMMA ReadOn ==
  ASSUME ReadChunk, rpc' # "idle"
  PROVE  \E at, record :
           /\ Entry.first_chunk + chunk_idx \in DOMAIN chunk_map
           /\ chunk_map[Entry.first_chunk + chunk_idx].at = at
           /\ chunk_map[Entry.first_chunk + chunk_idx].record = record
           /\ ChunkError(at, record) = "none"
           /\ LET decompressed == Decompress(PayloadOf(at, record), record.original_len)
              IN /\ file_data' = file_data \o decompressed
                 /\ total' = total + Len(decompressed) /\ total' <= limit
           /\ chunk_idx' = chunk_idx + 1
           /\ chunk_idx < Entry.chunk_count /\ rpc = "chunks" /\ rpc' = "chunks"
           /\ UNCHANGED <<pos, chunk_map, ent, options, outdir, extracted, res, before>>
<1> DEFINE id == Entry.first_chunk + chunk_idx
           at == chunk_map[id].at
           record == chunk_map[id].record
           error == IF id \notin DOMAIN chunk_map THEN "InvalidChunk" ELSE ChunkError(at, record)
           decompressed == Decompress(PayloadOf(at, record), record.original_len)
<1>1. /\ error = "none" /\ rpc' = "chunks" /\ rpc = "chunks"
      /\ total' = total + Len(decompressed) /\ total' <= limit
      /\ file_data' = file_data \o decompressed /\ chunk_idx' = chunk_idx + 1
      /\ chunk_idx < Entry.chunk_count
      /\ UNCHANGED <<pos, chunk_map, ent, options, outdir, extracted, res, before>>
  BY DEF ReadChunk, Finish, Continue, PayloadOf
<1>2. id \in DOMAIN chunk_map /\ ChunkError(at, record) = "none"
  BY <1>1
<1> QED
  BY <1>1, <1>2

LEMMA DataStep ==
  ASSUME UseInv, MapInv, TornInv, DataInv, Guarded, [SystemNext]_systemVars
  PROVE  DataInv'
<1>f. files' = files /\ Given' = Given /\ Entries = IndexEntries(img)
  BY SystemSteps DEF UseInv, Given, Stored, Entries
<1>1. CASE UNCHANGED systemVars
  <2>1. UNCHANGED <<rpc, cmd, fs, extracted, ent, chunk_idx, file_data, img, entries, out>>
    BY <1>1 DEF systemVars, createVars, createMemory, readerVars, outdir, options, locals, results
  <2>2. UNCHANGED <<Dest, Finished>>
    BY <2>1 DEF Dest, Entry, Entries, Finished
  <2>3. \A path : Holds(path)' <=> Holds(path)
    BY <1>f, <2>1, ShuffleStays DEF Holds, GivenBack
  <2>4. EntOrdered' <=> EntOrdered
    BY <2>1, ShuffleStays
  <2> QED
    BY <1>f, <2>1, <2>2, <2>3, <2>4 DEF DataInv
<1>2. CASE ReaderIdles
  <2>1. rpc' = "idle" /\ UNCHANGED <<cmd, fs, extracted>>
    BY <1>2 DEF ReaderIdles, readerVars, outdir, options, results
  <2>2. CASE cmd = "none"
    BY <2>1, <2>2 DEF DataInv
  <2>3. CASE cmd # "none"
    <3>1. UNCHANGED <<entries, out>>
      BY <1>2, <2>3 DEF ReaderIdles, Damage, createVars, createMemory, UseInv, ImgInv
    <3>2. \A path : Holds(path)' <=> Holds(path)
      BY <1>f, <2>1, <3>1, ShuffleStays DEF Holds, GivenBack
    <3> QED
      BY <2>1, <3>2 DEF DataInv, Finished
  <2> QED
    BY <2>2, <2>3
<1>3. CASE ReaderStep
  <2> USE DEF Finish, Continue, ResetLocals, locals, outdir, options, results
  <2>1. img' = img /\ phase = "use" /\ Entries' = Entries /\ UNCHANGED <<entries, out>>
    BY <1>3 DEF ReaderStep, Entries, createVars, createMemory
  <2>o. /\ \A path : Shuffled(path)' <=> Shuffled(path)
        /\ ent' = ent => (EntOrdered' <=> EntOrdered)
    BY <2>1, ShuffleStays
  <2>h. ASSUME UNCHANGED fs PROVE \A path : Holds(path)' <=> Holds(path)
    BY <1>f, <2>o, <2>h DEF Holds, GivenBack
  \* Steps that leave the files and the result alone.
  <2>2. ASSUME rpc' \in {"idle", "open", "scan", "entry"}, UNCHANGED <<cmd, fs, extracted>>
        PROVE  DataInv'
    BY <2>2, <2>h DEF DataInv, Finished
  <2>3. CASE Command
    <3>1. rpc' = "open" /\ extracted' = <<>>
      BY <2>3 DEF Command, ExtractCommand, ListCommand, TestCommand, Start
    <3>2. Finished' = {}
      BY <3>1 DEF Finished, Range
    <3> QED
      BY <3>1, <3>2 DEF DataInv
  <2>4. CASE OpenRefused \/ OpenList \/ TestEnd \/ EndExtract \/ RefuseEntry \/ IoError
    <3>1. rpc' = "idle" /\ UNCHANGED <<cmd, fs, extracted>>
      BY <2>4 DEF OpenRefused, OpenList, TestEnd, EndExtract, RefuseEntry, IoError
    <3> QED
      BY <2>2, <3>1
  <2>5. CASE OpenExtract \/ OpenTest \/ ScanRecord \/ TestRecord \/ ScanEnd \/ SkipEntry
    <3>1. rpc' \in {"idle", "scan", "entry"} /\ UNCHANGED <<cmd, fs, extracted>>
      BY <2>5 DEF OpenExtract, OpenTest, StartScan, ScanRecord, TestRecord, ScanEnd, SkipEntry
    <3> QED
      BY <2>2, <3>1
  <2>6. CASE StartEntry
    <3>1. /\ rpc' = "chunks" /\ chunk_idx' = 0 /\ file_data' = <<>> /\ ent <= Len(Entries)
          /\ UNCHANGED <<cmd, fs, extracted, ent>> /\ rpc = "entry" /\ cmd = "x"
      BY <2>6 DEF StartEntry, EntryReady, UseInv, OpenInv
    <3>2. ent \in 1 .. Len(files)
      BY <3>1, EntrySeen, GivenFiles DEF UseInv, OpenInv
    <3>3. files[ent].data \in Seq(Bytes)
      BY <3>2, GivenFiles
    <3>4. 0 <= ChunkCount(files[ent].data) /\ Joined(files[ent].data, 0) = <<>>
      BY <3>3, ChunkCountNat, JoinAll
    <3> QED
      BY <1>f, <2>h, <3>1, <3>4 DEF DataInv, Finished
  <2>7. CASE ReadChunk
    <3>1. CASE rpc' = "idle"
      BY <2>2, <2>7, <3>1 DEF ReadChunk
    <3>2. CASE rpc' # "idle"
      <4>1. PICK at, record :
           /\ Entry.first_chunk + chunk_idx \in DOMAIN chunk_map
           /\ chunk_map[Entry.first_chunk + chunk_idx].at = at
           /\ chunk_map[Entry.first_chunk + chunk_idx].record = record
           /\ ChunkError(at, record) = "none"
           /\ file_data' = file_data \o Decompress(PayloadOf(at, record), record.original_len)
           /\ chunk_idx' = chunk_idx + 1 /\ chunk_idx < Entry.chunk_count
           /\ rpc = "chunks" /\ rpc' = "chunks"
           /\ UNCHANGED <<cmd, fs, extracted, ent>>
        BY <2>7, <3>2, ReadOn
      <4>2. EntOrdered =>
              Decompress(PayloadOf(at, record), record.original_len)
                = SplitIntoChunks(files[ent].data)[chunk_idx + 1]
        BY <4>1, RightChunk DEF EntOrdered
      <4>3. /\ files[ent].data \in Seq(Bytes) /\ Entry.chunk_count = ChunkCount(files[ent].data)
            /\ chunk_idx \in Nat /\ ChunkCount(files[ent].data) \in Nat
        BY <4>1, EntryInHand, ChunkCountNat DEF MapInv
      <4>4. EntOrdered => file_data' = Joined(files[ent].data, chunk_idx + 1)
        BY <4>1, <4>2, <4>3, JoinChunk DEF DataInv
      <4>5. chunk_idx + 1 <= ChunkCount(files[ent].data)
        BY <4>1, <4>3
      <4> QED
        BY <1>f, <2>h, <2>o, <4>1, <4>4, <4>5 DEF DataInv, Finished
    <3> QED
      BY <3>1, <3>2
  <2>8. CASE CreateFile
    <3>1. CASE rpc' = "idle"
      BY <2>2, <2>8, <3>1 DEF CreateFile
    <3>2. CASE rpc' # "idle"
      <4>1. /\ rpc = "chunks" /\ chunk_idx = Entry.chunk_count /\ rpc' = "write"
            /\ \E mode : SetFile(Dest, <<>>, mode)
            /\ UNCHANGED <<cmd, extracted, ent, file_data>>
        BY <2>8, <3>2 DEF CreateFile
      <4>2. /\ files[ent].data \in Seq(Bytes) /\ Entry.chunk_count = ChunkCount(files[ent].data)
        BY <4>1, EntryInHand
      <4>3. EntOrdered => file_data = files[ent].data
        BY <4>1, <4>2, JoinAll DEF DataInv
      <4>4. /\ \A path : Holds(path) => Holds(path)'
            /\ Dest \in DOMAIN fs'
        BY <1>f, <2>1, <4>1, <4>2, EmptyPrefix, SetHeld
      <4>5. Dest' = Dest /\ Finished' = Finished
        BY <2>1, <4>1 DEF Dest, Entry, Finished
      <4> QED
        BY <1>f, <2>o, <4>1, <4>3, <4>4, <4>5 DEF DataInv
    <3> QED
      BY <3>1, <3>2
  <2>9. CASE Die /\ UNCHANGED fs
    BY <2>2, <2>9 DEF Die
  <2>10. CASE WriteFile \/ (Die /\ ~ UNCHANGED fs)
    <3>1. /\ rpc = "write" /\ UNCHANGED <<cmd, extracted>>
          /\ \/ rpc' = "mode" /\ UNCHANGED <<ent, file_data>>
             \/ rpc' = "idle"
          /\ SetFile(Dest, file_data, fs[Dest].mode) \/ TornWrite
      BY <2>10 DEF WriteFile, Die
    <3>2. \E data : /\ SetFile(Dest, data, fs[Dest].mode)
                    /\ EntOrdered => IsPrefix(data, files[ent].data)
      <4>1. EntOrdered => /\ file_data = files[ent].data /\ file_data \in Seq(Bytes)
                          /\ \A n \in 0 .. Len(file_data) :
                               IsPrefix(SubSeq(file_data, 1, n), files[ent].data)
        BY <3>1, EntryInHand, PrefixOf DEF DataInv
      <4>2. CASE SetFile(Dest, file_data, fs[Dest].mode)
        <5>1. EntOrdered => SubSeq(file_data, 1, Len(file_data)) = file_data
                            /\ Len(file_data) \in 0 .. Len(file_data)
          BY <4>1, SubSeqFull
        <5>2. EntOrdered => IsPrefix(file_data, files[ent].data)
          BY <4>1, <5>1
        <5> QED
          BY <4>2, <5>2
      <4>3. CASE TornWrite
        BY <4>1, <4>3 DEF TornWrite
      <4> QED
        BY <3>1, <4>2, <4>3
    <3>4. PICK data : /\ SetFile(Dest, data, fs[Dest].mode)
                      /\ EntOrdered => IsPrefix(data, files[ent].data)
      BY <3>2
    <3>6. /\ \A path : Holds(path) => Holds(path)'
          /\ Dest \in DOMAIN fs' /\ fs'[Dest].data = data
      BY <1>f, <2>1, <3>1, <3>4, SetHeld
    <3>5. EntOrdered => file_data = files[ent].data
      BY <3>1 DEF DataInv
    <3>7. Finished' = Finished /\ (rpc' = "mode" => Dest' = Dest)
      BY <2>1, <3>1 DEF Dest, Entry, Finished
    <3> QED
      BY <1>f, <2>o, <3>1, <3>4, <3>5, <3>6, <3>7 DEF DataInv
  <2>11. CASE SetMode
    <3>1. /\ rpc = "mode" /\ rpc' = "entry" /\ UNCHANGED cmd
          /\ extracted' = Append(extracted, Dest)
          /\ SetFile(Dest, fs[Dest].data, Entry.mode) \/ UNCHANGED fs
      BY <2>11 DEF SetMode
    <3>2. /\ EntOrdered => IsPrefix(fs[Dest].data, files[ent].data)
          /\ Dest \in DOMAIN fs
      BY <3>1 DEF DataInv
    <3>3. \A path : path = Dest \/ Holds(path) => Holds(path)'
      <4>1. CASE SetFile(Dest, fs[Dest].data, Entry.mode)
        BY <1>f, <2>1, <3>1, <3>2, <4>1, SetHeld
      <4>2. CASE UNCHANGED fs
        BY <1>f, <2>1, <3>1, <3>2, <4>2, StillHolds
      <4> QED
        BY <3>1, <4>1, <4>2
    <3>4. Finished' = Finished \cup {Dest}
      BY <3>1, FinishedAppend
    <3> QED
      BY <3>1, <3>3, <3>4 DEF DataInv
  <2> QED
    BY <1>3, <2>3, <2>4, <2>5, <2>6, <2>7, <2>8, <2>9, <2>10, <2>11 DEF ReaderStep, ReadStep
<1> QED
  BY <1>1, <1>2, <1>3, SystemSteps DEF UseInv

SafeInv == UseInv /\ MapInv /\ TornInv

LEMMA SafeInit == SystemInit => SafeInv
  BY UseInit, MapInit, TornInit DEF SafeInv

LEMMA SafeStep == SafeInv /\ [SystemNext]_systemVars => SafeInv'
  BY UseKeeps, MapStep, TornStep DEF SafeInv

\* With any number of workers extraction reports only files that hold what was
\* put in, from the first byte on, or whose own ids are out of order: a wrong
\* byte in a chunk does not pass its two sums, a wrong field of a header does not
\* lead to another chunk that does, and the footer guards itself.
THEOREM ShuffledAlone ==
  ASSUME Covered
  PROVE  SystemSpec => []OnlyShuffledIsWrong
<1> DEFINE Inv == SafeInv /\ DataInv
<1>1. SystemInit => Inv
  BY SafeInit, DataInit
<1>2. Inv /\ [SystemNext]_systemVars => Inv'
  <2> SUFFICES ASSUME Inv, [SystemNext]_systemVars PROVE Inv'
    OBVIOUS
  <2>1. Guarded
    BY CoveredGuarded DEF SafeInv
  <2> QED
    BY <2>1, SafeStep, DataStep DEF SafeInv
<1>3. Inv => OnlyShuffledIsWrong
  BY DEF DataInv, Holds, OnlyShuffledIsWrong
<1> HIDE DEF Inv
<1> QED
  BY <1>1, <1>2, <1>3, PTL DEF SystemSpec

\* One worker reaches the chunks in their order.
THEOREM OneWorkerOrders ==
  ASSUME NEW w, Workers = {w}
  PROVE  SystemSpec => []AllOrdered
<1>1. CreatorInv => AllOrdered
  BY SerialOrders DEF CreatorInv, SerialStreamInv
<1> QED
  BY <1>1, SystemCreator, PTL DEF SystemSpec

\* So with one worker extraction reports no file with a wrong byte.
THEOREM BytesAreGiven ==
  ASSUME NEW w, Workers = {w}, Covered
  PROVE  SystemSpec => []NoWrongByte
<1>1. AllOrdered /\ OnlyShuffledIsWrong => NoWrongByte
  BY DEF AllOrdered, OnlyShuffledIsWrong, Shuffled, NoWrongByte
<1> QED
  BY <1>1, ShuffledAlone, OneWorkerOrders, PTL
-----------------------------------------------------------------------------
(* The promise of an archive.  The names of the files that were put in are  *)
(* apart: no two of them are one path in the output directory, and none is  *)
(* a directory on the way to another.                                       *)

PathsApart ==
  \A list \in Inputs : \A i, j \in DOMAIN list :
    LET path(k) == SanitisePath(list[k].name)
    IN (path(i) = path(j) => i = j) /\ path(i) \notin Parents(path(j))

Occupied == IF overwrite THEN {} ELSE DOMAIN before.fs \cup before.dirs

\* The i-th file has been given back as it was put in.
Returned(i) == PathOf(i) \in Finished /\ FileAt(PathOf(i)) = GivenFile(i)

\* Entry by entry every file came back, or its place was taken before; what the
\* extraction made is at the paths of the entries it has been at, and on the way
\* to them.
PromiseInv ==
  /\ rpc \in {"idle", "open"} => ent = 1
  /\ rpc # "idle" /\ cmd = "x" =>
       /\ \A i \in 1 .. Len(files) : i < ent => Returned(i) \/ PathOf(i) \in Occupied
       /\ \A p \in Finished : \E i \in 1 .. Len(files) : i < ent /\ p = PathOf(i)
       /\ \A p \in DOMAIN fs \ DOMAIN before.fs : \E i \in 1 .. Len(files) :
            p = PathOf(i) /\ (i < ent \/ (i = ent /\ rpc \in {"write", "mode"}))
       /\ \A p \in dirs \ before.dirs : \E i \in 1 .. Len(files) : p \in Parents(PathOf(i))
       /\ before.dirs \subseteq dirs
       /\ rpc \in {"chunks", "write", "mode"} => Dest \notin Occupied
       /\ rpc = "mode" => fs[Dest].data = files[ent].data
LEMMA NamesApart ==
  ASSUME UseInv, PathsApart, NEW i \in 1 .. Len(files), NEW j \in 1 .. Len(files)
  PROVE  (PathOf(i) = PathOf(j) => i = j) /\ PathOf(i) \notin Parents(PathOf(j))
<1>1. files \in Inputs /\ DOMAIN files = 1 .. Len(files)
  BY FilesType DEF UseInv, CreatorInv, TypeInv, TypeOK
<1> QED
  BY <1>1 DEF PathsApart, PathOf

\* While a file is in hand none of the finished ones is touched.
LEMMA NotInHand ==
  ASSUME UseInv, Guarded, PathsApart, PromiseInv, DataInv,
         rpc \in {"chunks", "write", "mode"}
  PROVE  /\ Dest = PathOf(ent) /\ ent \in 1 .. Len(files) /\ cmd = "x"
         /\ \A i \in 1 .. Len(files) : i # ent => PathOf(i) # Dest
         /\ Finished \subseteq DOMAIN fs \ {Dest}
<1>1. Dest = PathOf(ent) /\ ent \in 1 .. Len(files) /\ cmd = "x"
  BY EntryInHand DEF PathOf
<1>2. \A i \in 1 .. Len(files) : i # ent => PathOf(i) # Dest
  BY <1>1, NamesApart
<1>3. ASSUME NEW p \in Finished PROVE p \in DOMAIN fs /\ p # Dest
  <2>1. p \in DOMAIN fs
    BY <1>1 DEF DataInv, Holds
  <2>2. PICK i \in 1 .. Len(files) : i < ent /\ p = PathOf(i)
    BY <1>1 DEF PromiseInv
  <2>3. i # ent
    BY <1>1, <2>2
  <2> QED
    BY <1>2, <2>1, <2>2, <2>3
<1> QED
  BY <1>1, <1>2, <1>3

\* The ids of the file in hand are in order if all are.
LEMMA EntInOrder ==
  ASSUME UseInv, Led, AllOrdered, rpc \in {"chunks", "write", "mode"}
  PROVE  EntOrdered
<1>1. ent \in DOMAIN entries
  <2>1. DOMAIN entries = 1 .. Len(entries) /\ Len(entries) = Len(files)
    <3>2. Len(entries) = Len(files)
      BY EntryLeads
    <3>3. DOMAIN entries = 1 .. Len(entries)
      BY DEF UseInv, CreatorInv, TypeInv, TypeOK
    <3> QED
      BY <3>2, <3>3
  <2> QED
    BY <2>1, EntryLeads
<1> QED
  BY <1>1 DEF AllOrdered, EntOrdered

LEMMA PromiseInit == SystemInit => PromiseInv
  BY DEF SystemInit, ReadInit, PromiseInv

LEMMA PromiseStep ==
  ASSUME SafeInv, DataInv, KeepInv, Guarded, AllOrdered, PathsApart, PromiseInv,
         {"drop", "chmod"} \cap ReadFaults = {}, [SystemNext]_systemVars
  PROVE  PromiseInv'
<1>u. UseInv /\ TornInv
  BY DEF SafeInv
<1>f. files' = files
  BY <1>u, SystemSteps DEF UseInv
<1> USE DEF PathOf, GivenFile
<1>1. CASE UNCHANGED systemVars
  <2>1. UNCHANGED <<img, fs, dirs, cmd, overwrite, rpc, ent, extracted, before, files>>
    BY <1>f, <1>1 DEF systemVars, readerVars, outdir, options, locals, results
  <2>2. UNCHANGED <<Dest, Finished, Occupied>> /\ \A i : Returned(i)' <=> Returned(i)
    BY <2>1 DEF Dest, Entry, Entries, Finished, Occupied, Returned, FileAt
  <2> QED
    BY <2>1, <2>2 DEF PromiseInv
<1>2. CASE ReaderIdles
  BY <1>2 DEF ReaderIdles, readerVars, locals, PromiseInv
<1>3. CASE ReaderStep
  <2> USE DEF Finish, Continue, ResetLocals, locals, outdir, options, results
  <2>1. img' = img /\ phase = "use" /\ Entries' = Entries
    BY <1>3 DEF ReaderStep, Entries
  <2>2. ASSUME rpc' = "idle", ent' = 1 PROVE PromiseInv'
    BY <2>2 DEF PromiseInv
  <2>3. CASE Command
    <3>1. /\ rpc = "idle" /\ rpc' = "open" /\ ent' = ent /\ extracted' = <<>>
          /\ before' = [fs |-> fs, dirs |-> dirs] /\ UNCHANGED <<fs, dirs>>
      BY <2>3 DEF Command, ExtractCommand, ListCommand, TestCommand, Start
    <3>2. Finished' = {} /\ ent' = 1
      BY <3>1 DEF Finished, Range, PromiseInv
    <3> QED
      BY <1>f, <3>1, <3>2, GivenFiles, <1>u DEF PromiseInv
  <2>4. CASE OpenRefused \/ OpenList \/ TestEnd \/ EndExtract \/ RefuseEntry \/ IoError \/ Die
    <3>1. rpc' = "idle" /\ ent' = 1
      BY <2>4 DEF OpenRefused, OpenList, TestEnd, EndExtract, RefuseEntry, IoError, Die
    <3> QED
      BY <2>2, <3>1
  \* Steps that leave the output directory alone.
  <2>5. ASSUME UNCHANGED <<fs, dirs, extracted, before, overwrite, cmd, ent>>,
               rpc \in {"open", "scan", "entry", "chunks"}, rpc' \in {"scan", "entry", "chunks"},
               rpc' = "chunks" => rpc = "chunks"
        PROVE  PromiseInv'
    <3>1. UNCHANGED <<Dest, Finished, Occupied>> /\ \A i : Returned(i)' <=> Returned(i)
      BY <1>f, <2>1, <2>5 DEF Dest, Entry, Finished, Occupied, Returned, FileAt
    <3> QED
      BY <1>f, <2>5, <3>1 DEF PromiseInv
  <2>6. CASE OpenExtract \/ OpenTest \/ ScanRecord \/ TestRecord \/ ScanEnd \/ ReadChunk
    <3>1. \/ rpc' = "idle" /\ ent' = 1
          \/ /\ UNCHANGED <<fs, dirs, extracted, before, overwrite, cmd, ent>>
             /\ rpc \in {"open", "scan", "entry", "chunks"} /\ rpc' \in {"scan", "entry", "chunks"}
             /\ rpc' = "chunks" => rpc = "chunks"
      BY <2>6 DEF OpenExtract, OpenTest, StartScan, ScanRecord, TestRecord, ScanEnd, ReadChunk
    <3> QED
      BY <2>2, <2>5, <3>1
  \* An entry is taken up: directories are made on the way to it.
  <2>7. CASE EntryReady /\ (SkipEntry \/ StartEntry)
    <3>1. /\ rpc = "entry" /\ ent <= Len(Entries) /\ dirs' = dirs \cup Parents(Dest)
          /\ UNCHANGED <<fs, extracted, before, overwrite, cmd>>
      BY <2>7 DEF EntryReady, SkipEntry, StartEntry
    <3>2. cmd = "x" /\ ent \in Nat \ {0}
      BY <3>1, <1>u DEF UseInv, OpenInv
    <3>3. ent \in 1 .. Len(files)
      BY <3>1, <3>2, <1>u, EntrySeen, GivenFiles
    <3>4. PICK first_chunk : Entry = EntryOf(ent, first_chunk)
      BY <3>1, <3>2, <3>3, <1>u, EntrySeen DEF Entry
    <3>5. Dest = PathOf(ent)
      BY <3>4 DEF Dest, EntryOf
    <3>6. \A p \in dirs' \ before.dirs : \E i \in 1 .. Len(files) : p \in Parents(PathOf(i))
      BY <3>1, <3>2, <3>3, <3>5 DEF PromiseInv
    <3>7. UNCHANGED <<Finished, Occupied>> /\ \A i : Returned(i)' <=> Returned(i)
      BY <1>f, <3>1 DEF Finished, Occupied, Returned, FileAt
    <3>8. CASE SkipEntry
      <4>1. /\ ent' = ent + 1 /\ rpc' = "entry" /\ ~ overwrite
            /\ Dest \in DOMAIN fs \cup dirs
        BY <3>8 DEF SkipEntry, Exists
      <4>2. Dest \in Occupied
        <5>1. CASE Dest \in DOMAIN fs
          <6> SUFFICES ASSUME Dest \notin DOMAIN before.fs PROVE FALSE
            BY <4>1 DEF Occupied
          <6>1. PICK i \in 1 .. Len(files) : Dest = PathOf(i) /\ i < ent
            BY <3>1, <3>2, <5>1 DEF PromiseInv
          <6>2. i = ent
            BY <3>3, <3>5, <6>1, <1>u, NamesApart
          <6> QED
            BY <3>3, <6>1, <6>2
        <5>2. CASE Dest \in dirs
          <6> SUFFICES ASSUME Dest \notin before.dirs PROVE FALSE
            BY <4>1 DEF Occupied
          <6>1. PICK i \in 1 .. Len(files) : Dest \in Parents(PathOf(i))
            BY <3>1, <3>2, <5>2 DEF PromiseInv
          <6> QED
            BY <3>3, <3>5, <6>1, <1>u, NamesApart
        <5> QED
          BY <4>1, <5>1, <5>2
      <4>3. \A i \in 1 .. Len(files) : i < ent + 1 => Returned(i) \/ PathOf(i) \in Occupied
        <5>1. \A i \in 1 .. Len(files) : i < ent + 1 => i < ent \/ i = ent
          BY <3>3
        <5> QED
          BY <3>1, <3>2, <3>5, <4>2, <5>1 DEF PromiseInv
      <4>4. \A i \in 1 .. Len(files) : i < ent => i < ent + 1
        BY <3>3
      <4> QED
        BY <1>f, <3>1, <3>2, <3>6, <3>7, <4>1, <4>3, <4>4 DEF PromiseInv
    <3>9. CASE StartEntry
      <4>1. ent' = ent /\ rpc' = "chunks" /\ (overwrite \/ Dest \notin DOMAIN fs \cup dirs)
        BY <3>9 DEF StartEntry, Exists
      <4>2. Dest' = Dest
        BY <2>1, <4>1 DEF Dest, Entry
      <4>3. Dest \notin Occupied
        BY <3>1, <3>2, <4>1 DEF Occupied, KeepInv, KeepsFiles, PromiseInv
      <4> QED
        BY <1>f, <3>1, <3>2, <3>6, <3>7, <4>1, <4>2, <4>3 DEF PromiseInv
    <3> QED
      BY <2>7, <3>8, <3>9
  \* The file in hand changes.
  <2>8. ASSUME rpc \in {"chunks", "write", "mode"}, UNCHANGED <<dirs, before, overwrite, cmd>>,
               rpc' \in {"write", "mode", "entry"},
               DOMAIN fs' = DOMAIN fs \cup {Dest},
               \A p \in DOMAIN fs : p # Dest => fs'[p] = fs[p]
        PROVE  /\ Occupied' = Occupied
               /\ \A i \in 1 .. Len(files) : i < ent =>
                    /\ Returned(i) => FileAt(PathOf(i))' = GivenFile(i)
                    /\ Returned(i) \/ PathOf(i) \in Occupied
               /\ \A p \in DOMAIN fs' \ DOMAIN before.fs : \E i \in 1 .. Len(files) :
                    p = PathOf(i) /\ i <= ent
    <3>1. /\ Dest = PathOf(ent) /\ ent \in 1 .. Len(files) /\ cmd = "x"
          /\ \A i \in 1 .. Len(files) : i # ent => PathOf(i) # Dest
          /\ Finished \subseteq DOMAIN fs \ {Dest}
      BY <2>8, <1>u, NotInHand
    <3>2. ASSUME NEW p \in DOMAIN fs' \ DOMAIN before.fs
          PROVE  \E i \in 1 .. Len(files) : p = PathOf(i) /\ i <= ent
      <4>1. CASE p = Dest
        BY <3>1, <4>1
      <4>2. CASE p # Dest
        <5>1. PICK i \in 1 .. Len(files) : p = PathOf(i) /\ (i < ent \/ i = ent)
          BY <2>8, <3>1, <4>2 DEF PromiseInv
        <5> QED
          BY <3>1, <5>1
      <4> QED
        BY <4>1, <4>2
    <3>3. ASSUME NEW i \in 1 .. Len(files), i < ent
          PROVE  /\ Returned(i) => FileAt(PathOf(i))' = GivenFile(i)
                 /\ Returned(i) \/ PathOf(i) \in Occupied
      <4>1. Returned(i) => PathOf(i) \in DOMAIN fs /\ PathOf(i) # Dest
        BY <3>1 DEF Returned
      <4> QED
        BY <1>f, <2>8, <3>1, <3>3, <4>1 DEF Returned, FileAt, PromiseInv
    <3> QED
      BY <2>8, <3>2, <3>3 DEF Occupied
  <2>9. CASE CreateFile \/ WriteFile
    <3>1. CASE rpc' = "idle"
      BY <2>2, <2>9, <3>1 DEF CreateFile, WriteFile
    <3>2. CASE rpc' # "idle"
      <4>1. /\ rpc \in {"chunks", "write"} /\ rpc' \in {"write", "mode"}
            /\ UNCHANGED <<dirs, before, overwrite, cmd, ent, extracted>>
            /\ \E data, mode : SetFile(Dest, data, mode) /\ (rpc' = "mode" => data = file_data)
            /\ (rpc' = "mode" => rpc = "write")
        BY <2>9, <3>2 DEF CreateFile, WriteFile
      <4>2. PICK data, mode : SetFile(Dest, data, mode) /\ (rpc' = "mode" => data = file_data)
        BY <4>1
      <4>3. /\ DOMAIN fs' = DOMAIN fs \cup {Dest}
            /\ \A p \in DOMAIN fs : p # Dest => fs'[p] = fs[p]
            /\ fs'[Dest].data = data
        BY <4>2 DEF SetFile
      <4>4. /\ Occupied' = Occupied
            /\ \A i \in 1 .. Len(files) : i < ent =>
                 /\ Returned(i) => FileAt(PathOf(i))' = GivenFile(i)
                 /\ Returned(i) \/ PathOf(i) \in Occupied
            /\ \A p \in DOMAIN fs' \ DOMAIN before.fs : \E i \in 1 .. Len(files) :
                 p = PathOf(i) /\ i <= ent
        BY <2>8, <4>1, <4>3
      <4>5. ent \in 1 .. Len(files) /\ cmd = "x"
        BY <4>1, <1>u, NotInHand
      <4>6. Finished' = Finished /\ Dest' = Dest
        BY <2>1, <4>1 DEF Finished, Dest, Entry
      <4>7. rpc' = "mode" => fs'[Dest].data = files[ent].data
        BY <4>1, <4>2, <4>3, <1>u, EntInOrder DEF DataInv, Guarded, Led
      <4>8. \A i \in 1 .. Len(files) : i < ent =>
              Returned(i)' \/ PathOf(i) \in Occupied
        BY <1>f, <4>4, <4>6 DEF Returned
      <4>9. \A p \in DOMAIN fs' \ DOMAIN before.fs : \E i \in 1 .. Len(files) :
              p = PathOf(i) /\ (i < ent \/ i = ent)
        BY <4>4, <4>5
      <4>10. /\ \A p \in Finished : \E i \in 1 .. Len(files) : i < ent /\ p = PathOf(i)
             /\ \A p \in dirs \ before.dirs : \E i \in 1 .. Len(files) : p \in Parents(PathOf(i))
             /\ before.dirs \subseteq dirs /\ Dest \notin Occupied
        BY <4>1, <4>5 DEF PromiseInv
      <4> QED
        BY <1>f, <4>1, <4>4, <4>5, <4>6, <4>7, <4>8, <4>9, <4>10 DEF PromiseInv
    <3> QED
      BY <3>1, <3>2
  <2>10. CASE SetMode
    <3>1. /\ rpc = "mode" /\ rpc' = "entry" /\ ent' = ent + 1
          /\ UNCHANGED <<dirs, before, overwrite, cmd>>
          /\ extracted' = Append(extracted, Dest) /\ SetFile(Dest, fs[Dest].data, Entry.mode)
      BY <2>10 DEF SetMode
    <3>3. /\ DOMAIN fs' = DOMAIN fs \cup {Dest}
          /\ \A p \in DOMAIN fs : p # Dest => fs'[p] = fs[p]
          /\ fs'[Dest].data = fs[Dest].data /\ fs'[Dest].mode = Entry.mode
      BY <3>1 DEF SetFile
    <3>4. /\ Occupied' = Occupied
          /\ \A i \in 1 .. Len(files) : i < ent =>
               /\ Returned(i) => FileAt(PathOf(i))' = GivenFile(i)
               /\ Returned(i) \/ PathOf(i) \in Occupied
          /\ \A p \in DOMAIN fs' \ DOMAIN before.fs : \E i \in 1 .. Len(files) :
               p = PathOf(i) /\ i <= ent
      BY <2>8, <3>1, <3>3
    <3>5. /\ ent \in 1 .. Len(files) /\ cmd = "x" /\ Dest = PathOf(ent)
          /\ Entry.mode = files[ent].mode
      BY <3>1, <1>u, NotInHand, EntryInHand
    <3>6. Finished' = Finished \cup {Dest}
      BY <3>1, <1>u, FinishedAppend
    <3>7. PICK i0 : i0 = ent
      OBVIOUS
    <3>8. Returned(i0)'
      <4>1. fs'[Dest].data = files[ent].data
        BY <3>1, <3>3, <3>5 DEF PromiseInv
      <4> QED
        BY <1>f, <3>3, <3>5, <3>6, <3>7, <4>1 DEF Returned, FileAt
    <3>9. \A i \in 1 .. Len(files) : i < ent + 1 => i < ent \/ i = i0
      BY <3>5, <3>7
    <3>10. \A i \in 1 .. Len(files) : i < ent + 1 => Returned(i)' \/ PathOf(i) \in Occupied
      BY <1>f, <3>4, <3>6, <3>8, <3>9 DEF Returned
    <3>11. \A i \in 1 .. Len(files) : i <= ent => i < ent + 1
      BY <3>5
    <3>12. \A p \in Finished' : \E i \in 1 .. Len(files) : i < ent + 1 /\ p = PathOf(i)
      <4>1. \A p \in Finished : \E i \in 1 .. Len(files) : i < ent /\ p = PathOf(i)
        BY <3>1, <3>5 DEF PromiseInv
      <4>2. \A i \in 1 .. Len(files) : i < ent => i < ent + 1
        BY <3>5
      <4> QED
        BY <3>5, <3>6, <4>1, <4>2
    <3>13. /\ \A p \in dirs \ before.dirs : \E i \in 1 .. Len(files) : p \in Parents(PathOf(i))
           /\ before.dirs \subseteq dirs
      BY <3>1, <3>5 DEF PromiseInv
    <3>14. \A p \in DOMAIN fs' \ DOMAIN before.fs : \E i \in 1 .. Len(files) :
               p = PathOf(i) /\ i < ent + 1
      BY <3>4, <3>11
    <3> QED
      BY <1>f, <3>1, <3>4, <3>10, <3>12, <3>13, <3>14 DEF PromiseInv
  <2> QED
    BY <1>3, <2>3, <2>4, <2>6, <2>7, <2>9, <2>10 DEF ReaderStep, ReadStep, SkipEntry, StartEntry
<1> QED
  BY <1>1, <1>2, <1>3, <1>u, SystemSteps DEF UseInv
\* What the abstract store sees of the system.
Asked == cmd = "x" /\ rpc # "idle"
Back  == {FileAt(path) : path \in Finished}
Told  == CASE cmd # "x" \/ res = "none" -> "none"
           [] cmd = "x" /\ res = "ok" -> "ok"
           [] OTHER -> "error"

LEMMA PromiseWaits ==
  ASSUME UNCHANGED <<Given, Asked, Occupied, Back, Told>>
  PROVE  UNCHANGED P!promiseVars
  BY DEF P!promiseVars, Asked, Occupied, Back, Told

LEMMA PromiseAsk ==
  ASSUME ~ Asked, Asked', Back' = {}, Told' = "none", Given' = Given
  PROVE  P!Next
  BY DEF P!Next, P!Ask, Asked, Back, Told

LEMMA PromiseLeave ==
  ASSUME ~ Asked, ~ Asked', Back' = {}, Told' = "none", Given' = Given
  PROVE  P!Next
  BY DEF P!Next, P!Leave, Asked, Back, Told

LEMMA PromiseGive ==
  ASSUME Asked, NEW f \in Given, f.path \notin Occupied, Back' = Back \cup {f},
         UNCHANGED <<Given, Asked, Occupied, Told>>
  PROVE  P!Next
  BY DEF P!Next, P!GiveBack, Asked, Back, Occupied, Told

LEMMA PromiseAnswer ==
  ASSUME Asked, ~ Asked', UNCHANGED <<Given, Occupied, Back>>,
         \/ Told' = "error"
         \/ Told' = "ok" /\ \A f \in Given : f \in Back \/ f.path \in Occupied
  PROVE  P!Next
  BY DEF P!Next, P!Answer, P!Restored, Asked, Back, Occupied, Told

\* What was given back is safe when another file is in hand.
LEMMA BackStays ==
  ASSUME UseInv, Guarded, PathsApart, PromiseInv, DataInv,
         rpc \in {"chunks", "write", "mode"},
         \A p \in DOMAIN fs : p # Dest => fs'[p] = fs[p]
  PROVE  \A p \in Finished : FileAt(p)' = FileAt(p)
  BY NotInHand DEF FileAt

LEMMA PromiseMaps ==
  ASSUME SafeInv, DataInv, KeepInv, Guarded, PathsApart, PromiseInv,
         {"drop", "chmod"} \cap ReadFaults = {}, [SystemNext]_systemVars
  PROVE  [P!Next]_(P!promiseVars)
<1>u. UseInv /\ TornInv
  BY DEF SafeInv
<1>f. Given' = Given
  BY <1>u, SystemSteps DEF UseInv, Given, Stored
<1>1. CASE UNCHANGED systemVars \/ ReaderIdles
  <2>1. UNCHANGED <<fs, cmd, overwrite, rpc, res, extracted, before>>
    BY <1>1 DEF systemVars, ReaderIdles, readerVars, outdir, options, results
  <2>2. UNCHANGED <<Asked, Occupied, Back, Told>>
    BY <2>1 DEF Asked, Occupied, Back, Told, Finished, FileAt
  <2> QED
    BY <1>f, <2>2, PromiseWaits
<1>3. CASE ReaderStep
  <2> USE DEF Finish, Continue, ResetLocals, locals, outdir, options, results
  <2>1. img' = img /\ phase = "use" /\ Entries' = Entries
    BY <1>3 DEF ReaderStep, Entries
  <2>2. CASE Command
    <3>1. /\ rpc = "idle" /\ rpc' = "open" /\ extracted' = <<>> /\ res' = "none"
      BY <2>2 DEF Command, ExtractCommand, ListCommand, TestCommand, Start
    <3>2. Back' = {} /\ Told' = "none" /\ ~ Asked
      BY <3>1 DEF Back, Told, Asked, Finished, Range
    <3> QED
      BY <1>f, <3>2, PromiseAsk, PromiseLeave
  \* A step that neither ends the command nor finishes a file.
  <2>3. ASSUME UNCHANGED <<cmd, overwrite, before, extracted, res>>, rpc # "idle", rpc' # "idle",
               UNCHANGED fs \/ (rpc \in {"chunks", "write"} /\ (CreateFile \/ WriteFile))
        PROVE  UNCHANGED P!promiseVars
    <3>1. UNCHANGED <<Asked, Occupied, Told, Finished>>
      BY <2>3 DEF Asked, Occupied, Told, Finished
    <3>2. \A p \in Finished : FileAt(p)' = FileAt(p)
      <4>1. CASE UNCHANGED fs
        BY <4>1 DEF FileAt
      <4>2. CASE rpc \in {"chunks", "write"} /\ (CreateFile \/ WriteFile)
        BY <1>u, <4>2, FileStep, BackStays DEF FileAt
      <4> QED
        BY <2>3, <4>1, <4>2
    <3>3. Back' = Back
      BY <3>1, <3>2 DEF Back
    <3> QED
      BY <1>f, <3>1, <3>3, PromiseWaits
  \* A step that ends the command: of an extraction it is the answer.
  <2>4. ASSUME UNCHANGED <<cmd, overwrite, before, extracted>>, rpc # "idle", rpc' = "idle",
               res' # "none", res' = "ok" /\ cmd = "x" => EndExtract,
               UNCHANGED fs \/ (rpc = "write" /\ (WriteFile \/ Die))
        PROVE  [P!Next]_(P!promiseVars)
    <3>1. UNCHANGED <<Occupied, Finished>> /\ ~ Asked'
      BY <2>4 DEF Asked, Occupied, Finished
    <3>2. \A p \in Finished : FileAt(p)' = FileAt(p)
      <4>1. CASE UNCHANGED fs
        BY <4>1 DEF FileAt
      <4>2. CASE rpc = "write" /\ (WriteFile \/ Die)
        BY <1>u, <4>2, FileStep, BackStays DEF FileAt
      <4> QED
        BY <2>4, <4>1, <4>2
    <3>3. Back' = Back
      BY <3>1, <3>2 DEF Back
    <3>4. CASE cmd # "x"
      <4>1. UNCHANGED <<Asked, Told>>
        BY <2>4, <3>4 DEF Asked, Told
      <4> QED
        BY <1>f, <3>1, <3>3, <4>1, PromiseWaits
    <3>5. CASE cmd = "x" /\ res' # "ok"
      <4>1. Asked /\ Told' = "error"
        BY <2>4, <3>5 DEF Asked, Told
      <4> QED
        BY <1>f, <3>1, <3>3, <4>1, PromiseAnswer
    <3>6. CASE cmd = "x" /\ res' = "ok"
      <4>1. Asked /\ Told' = "ok"
        BY <2>4, <3>6 DEF Asked, Told
      <4>2. rpc = "entry" /\ ent > Len(Entries)
        BY <2>4, <3>6 DEF EndExtract
      <4>3. Len(Entries) = Len(files) /\ Given = {GivenFile(i) : i \in 1 .. Len(files)}
        BY <1>u, <3>6, <4>2, EntrySeen, GivenFiles
      <4>4. ASSUME NEW i \in 1 .. Len(files)
            PROVE  GivenFile(i) \in Back \/ GivenFile(i).path \in Occupied
        <5>1. i < ent
          BY <1>u, <4>2, <4>3, GivenFiles DEF UseInv, OpenInv
        <5>2. Returned(i) \/ PathOf(i) \in Occupied
          BY <3>6, <4>2, <5>1 DEF PromiseInv
        <5> QED
          BY <5>2 DEF Returned, Back, PathOf, GivenFile
      <4>5. \A f \in Given : f \in Back \/ f.path \in Occupied
        BY <4>3, <4>4
      <4> QED
        BY <1>f, <3>1, <3>3, <4>1, <4>5, PromiseAnswer
    <3> QED
      BY <3>4, <3>5, <3>6
  <2>5. CASE OpenRefused \/ OpenList \/ TestEnd \/ EndExtract \/ RefuseEntry \/ IoError \/ Die
    <3>1. /\ UNCHANGED <<cmd, overwrite, before, extracted>> /\ rpc # "idle" /\ rpc' = "idle"
          /\ res' # "none" /\ (res' = "ok" /\ cmd = "x" => EndExtract)
          /\ UNCHANGED fs \/ (rpc = "write" /\ Die)
      BY <2>5 DEF OpenRefused, OpenList, TestEnd, EndExtract, RefuseEntry, BlockedError,
                  IoError, Die, OpenError, ReadHeader, ReadFooter, ReadIndex
    <3> QED
      BY <2>4, <3>1
  <2>6. CASE OpenExtract \/ OpenTest \/ ScanEnd \/ SkipEntry \/ StartEntry
    <3>1. /\ UNCHANGED <<cmd, overwrite, before, extracted, res, fs>>
          /\ rpc # "idle" /\ rpc' # "idle"
      BY <2>6 DEF OpenExtract, OpenTest, StartScan, ScanEnd, SkipEntry, StartEntry, EntryReady
    <3> QED
      BY <2>3, <3>1
  <2>7. CASE ScanRecord \/ TestRecord \/ ReadChunk
    <3>1. /\ UNCHANGED <<cmd, overwrite, before, extracted, fs>> /\ rpc # "idle"
          /\ \/ rpc' # "idle" /\ res' = res
             \/ rpc' = "idle" /\ res' \notin {"ok", "none"}
      BY <2>7 DEF ScanRecord, TestRecord, ReadChunk, ChunkError
    <3> QED
      BY <2>3, <2>4, <3>1
  <2>8. CASE CreateFile \/ WriteFile
    <3>1. /\ UNCHANGED <<cmd, overwrite, before, extracted>> /\ rpc \in {"chunks", "write"}
          /\ \/ rpc' # "idle" /\ res' = res
             \/ /\ rpc' = "idle" /\ res' \notin {"ok", "none"}
                /\ UNCHANGED fs \/ (rpc = "write" /\ WriteFile)
      BY <2>8 DEF CreateFile, WriteFile
    <3> QED
      BY <2>3, <2>4, <2>8, <3>1
  <2>9. CASE SetMode
    <3>1. /\ rpc = "mode" /\ rpc' = "entry" /\ UNCHANGED <<before, overwrite, cmd, res>>
          /\ extracted' = Append(extracted, Dest) /\ SetFile(Dest, fs[Dest].data, Entry.mode)
      BY <2>9 DEF SetMode
    <3>2. /\ \A p \in DOMAIN fs : p # Dest => fs'[p] = fs[p]
          /\ fs'[Dest].data = fs[Dest].data /\ fs'[Dest].mode = Entry.mode
      BY <3>1 DEF SetFile
    <3>3. /\ GivenFile(ent) \in Given /\ cmd = "x" /\ Dest = PathOf(ent)
          /\ Entry.mode = files[ent].mode
      BY <3>1, <1>u, NotInHand, EntryInHand
    <3>4. fs[Dest].data = files[ent].data /\ Dest \notin Occupied
      BY <3>1, <3>3 DEF PromiseInv
    <3>5. Finished' = Finished \cup {Dest} /\ \A p \in Finished : FileAt(p)' = FileAt(p)
      BY <3>1, <3>2, <1>u, FinishedAppend, BackStays
    <3>6. PICK dest : dest = Dest
      OBVIOUS
    <3>7. FileAt(dest)' = GivenFile(ent)
      BY <3>2, <3>3, <3>4, <3>6 DEF FileAt, GivenFile, PathOf
    <3>8. Back' = Back \cup {GivenFile(ent)}
      BY <3>5, <3>6, <3>7 DEF Back
    <3>9. Asked /\ UNCHANGED <<Asked, Occupied, Told>> /\ GivenFile(ent).path \notin Occupied
      BY <3>1, <3>3, <3>4 DEF Asked, Occupied, Told, GivenFile, PathOf
    <3> QED
      BY <1>f, <3>3, <3>8, <3>9, PromiseGive
  <2> QED
    BY <1>3, <2>2, <2>5, <2>6, <2>7, <2>8, <2>9 DEF ReaderStep, ReadStep
<1> QED
  BY <1>1, <1>3, <1>u, SystemSteps DEF UseInv

\* Creating, storing and extracting keep the promise of an archive, also through
\* crashes, write errors and every damage that a checksum covers: where the ids
\* of every file are in order (see finding 2), the names of the files are apart,
\* and the environment does not lose the flush or the mode that extraction does
\* not check.
THEOREM OrderedIsKept ==
  ASSUME Covered, PathsApart, {"drop", "chmod"} \cap ReadFaults = {}
  PROVE  SystemSpec /\ []AllOrdered => PromiseKept
<1> DEFINE Inv == SafeInv /\ DataInv /\ KeepInv /\ PromiseInv
<1>1. SystemInit => Inv
  BY SafeInit, DataInit, KeepInit, PromiseInit
<1>2. Inv /\ AllOrdered /\ [SystemNext]_systemVars => Inv'
  <2> SUFFICES ASSUME Inv, AllOrdered, [SystemNext]_systemVars PROVE Inv'
    OBVIOUS
  <2>1. Guarded
    BY CoveredGuarded DEF SafeInv
  <2> QED
    BY <2>1, SafeStep, DataStep, KeepStep, PromiseStep DEF SafeInv
<1>3. SystemInit => P!Init
  <2> SUFFICES ASSUME SystemInit PROVE P!Init
    OBVIOUS
  <2>1. files \in Inputs /\ cmd = "none" /\ extracted = <<>>
    BY DEF SystemInit, ReadInit, Init
  <2>2. Given \in {Stored(list) : list \in Inputs} /\ Back = {}
    BY <2>1 DEF Given, Back, Finished, Range
  <2> QED
    BY <2>1, <2>2 DEF P!Init, Back
<1>4. Inv /\ [SystemNext]_systemVars => [P!Next]_(P!promiseVars)
  BY CoveredGuarded, PromiseMaps DEF SafeInv
<1> HIDE DEF Inv
<1>5. SystemSpec /\ []AllOrdered => P!Spec
  BY <1>1, <1>2, <1>3, <1>4, PTL DEF SystemSpec, P!Spec
<1> QED
  BY <1>5 DEF PromiseKept

\* With one worker nothing can be out of order, and the promise is kept.
THEOREM PromiseIsKept ==
  ASSUME NEW w, Workers = {w}, Covered, PathsApart,
         {"drop", "chmod"} \cap ReadFaults = {}
  PROVE  SystemSpec => PromiseKept
<1>1. SystemSpec => []AllOrdered
  BY OneWorkerOrders
<1>2. SystemSpec /\ []AllOrdered => PromiseKept
  BY OrderedIsKept
<1> QED
  BY <1>1, <1>2, PTL
-----------------------------------------------------------------------------
(* The walk over the records.  Where every record passes the checks, it goes *)
(* from record to record and comes to the index.                             *)

GoodAt(j) ==
  LET p == RecordAt(j)
  IN p \in DOMAIN img /\ IsChunk(img[p]) /\ ChunkError(p, img[p]) = "none"

AllGood == \A j \in 0 .. counter - 1 : GoodAt(j)

\* The walk of an extraction looks at the headers only.
HeadAt(j) ==
  LET p == RecordAt(j)
  IN p \in DOMAIN img /\ IsChunk(img[p]) /\ img[p].compressed_len = 2

AllHeads == \A j \in 0 .. counter - 1 : HeadAt(j)

\* An extraction has noted all the records that it has passed, a test has checked
\* them, and what was tested is good.
Noted(v) == \A j \in 0 .. v - 1 : out[RecordAt(j)].id \in DOMAIN chunk_map

ScanInv ==
  /\ rpc = "scan" /\ cmd = "x" /\ AllHeads =>
       \E v \in 0 .. counter : pos = 1 + 3 * v /\ Noted(v)
  /\ rpc \in {"entry", "chunks", "write", "mode"} /\ AllHeads => Noted(counter)
  /\ rpc = "scan" /\ cmd = "t" =>
       \E v \in 0 .. counter : pos = 1 + 3 * v /\ \A j \in 0 .. v - 1 : GoodAt(j)
  /\ tested => phase = "use" /\ AllGood

\* Where the j-th record is, and what is seen of it.
LEMMA RecordSeen ==
  ASSUME UseInv, Led, phase = "use", ReadFooter(img) = "ok",
         NEW j \in 0 .. counter - 1, NEW p, p = RecordAt(j)
  PROVE  /\ p \in DOMAIN img /\ p \in Nat /\ p <= index_offset /\ index_offset < Len(img)
         /\ IsChunk(img[p]) => img[p].id = out[p].id
         /\ damage # "tag" => IsChunk(img[p])
         /\ GoodAt(j) => img[p].compressed_len = 2
<1>1. /\ Len(img) = Len(out) /\ Whole /\ counter \in Nat
      /\ index_offset = 1 + 3 * counter /\ AllRecords(counter)
  BY FooterSeen DEF UseInv
<1>2. /\ out \in Seq(Cells) /\ Len(out) \in Nat /\ DOMAIN out = 1 .. Len(out)
      /\ DOMAIN img = 1 .. Len(img) /\ Len(entries) \in Nat
      /\ damage \in Damages \cup {"none"} /\ damage # "id"
      /\ \A q \in DOMAIN img : img[q] = out[q] \/ img[q] \in DamagedCells(out[q], damage)
  BY OutType DEF UseInv, CreatorInv, TypeInv, TypeOK, ImgInv, Led
<1>3. p \in DOMAIN out /\ IsChunk(out[p])
  BY <1>1 DEF AllRecords
<1>4. p \in DOMAIN img /\ p \in Nat /\ p <= index_offset /\ index_offset < Len(img)
  <2>1. p = 2 + 3 * j
    BY DEF RecordAt
  <2>2. Len(out) = index_offset + Len(entries) + 1
    BY <1>1 DEF Whole
  <2> QED
    BY <1>1, <1>2, <1>3, <2>1, <2>2
<1>5. ASSUME IsChunk(img[p]) PROVE img[p].id = out[p].id
  BY <1>2, <1>4, <1>5, SeenLength
<1>6. ASSUME damage # "tag" PROVE IsChunk(img[p])
  <2>1. CASE img[p] = out[p]
    BY <1>3, <2>1
  <2>2. CASE img[p] \in DamagedCells(out[p], damage)
    <3>1. out[p] \in ChunkHeads /\ damage # "tag"
      BY <1>2, <1>3, <1>6, CellKinds DEF IsChunk
    <3>2. PICK cell, seen : cell = out[p] /\ seen = img[p]
      OBVIOUS
    <3>3. cell \in ChunkHeads /\ seen \in DamagedCells(cell, damage)
      BY <2>2, <3>1, <3>2
    <3>4. seen.k = "chunk"
      BY <3>1, <3>3, StillChunk
    <3> QED
      BY <3>2, <3>4 DEF IsChunk
  <2> QED
    BY <1>2, <1>4, <2>1, <2>2
<1>7. ASSUME GoodAt(j) PROVE img[p].compressed_len = 2
  <2>1. IsChunk(img[p]) /\ ChunkError(p, img[p]) = "none"
    BY <1>7 DEF GoodAt
  <2>2. PICK chunk \in InputChunks : IsRecord(p, chunk)
    BY <1>4, <2>1, SeenChunk
  <2>3. chunk \in Seq(Bytes) /\ Len(chunk) \in 1 .. ChunkSize
    BY <2>2, InputChunkType
  <2>4. Len(chunk) > 0
    BY <2>3, ChunkSizeAssumption
  <2> QED
    BY <1>4, <2>1, <2>2, <2>3, <2>4, GoodChunk
<1> QED
  BY <1>4, <1>5, <1>6, <1>7

LEMMA GoodHeads ==
  ASSUME UseInv, Led, phase = "use", ReadFooter(img) = "ok", AllGood
  PROVE  AllHeads
<1>1. ASSUME NEW j \in 0 .. counter - 1 PROVE HeadAt(j)
  <2>1. PICK p : p = RecordAt(j)
    OBVIOUS
  <2>2. GoodAt(j) /\ p \in DOMAIN img /\ IsChunk(img[p])
    BY <1>1, <2>1 DEF AllGood, GoodAt
  <2>3. img[p].compressed_len = 2
    BY <1>1, <2>1, <2>2, RecordSeen
  <2> QED
    BY <2>1, <2>2, <2>3 DEF HeadAt
<1> QED
  BY <1>1 DEF AllHeads

\* In step with the records, the walk stops at the index or at a foreign tag.
LEMMA InStep ==
  ASSUME UseInv, Led, phase = "use", ReadFooter(img) = "ok",
         NEW v \in 0 .. counter, pos = 1 + 3 * v
  PROVE  /\ AtRecord => v < counter /\ pos + 1 = RecordAt(v) /\ IsChunk(img[pos + 1])
         /\ ~ AtRecord /\ v < counter => ~ IsChunk(img[RecordAt(v)])
<1>1. /\ counter \in Nat /\ index_offset = 1 + 3 * counter /\ Len(img) \in Nat
      /\ LastCell(img).index_offset = index_offset
  BY FooterSeen DEF UseInv, FooterCell, ImgInv
<1>2. pos + 1 = RecordAt(v)
  BY <1>1 DEF RecordAt
<1>3. ASSUME AtRecord PROVE v < counter /\ IsChunk(img[pos + 1])
  BY <1>1, <1>3 DEF AtRecord, IsChunk
<1>4. ASSUME v < counter PROVE pos < index_offset /\ pos < Len(img)
  <2>1. v \in 0 .. counter - 1
    BY <1>1, <1>4
  <2>2. RecordAt(v) <= index_offset /\ index_offset < Len(img)
    BY <2>1, RecordSeen
  <2> QED
    BY <1>1, <1>2, <2>2 DEF RecordAt
<1> QED
  BY <1>1, <1>2, <1>3, <1>4 DEF AtRecord, IsChunk

LEMMA ScanInit == SystemInit => ScanInv
  BY DEF SystemInit, ReadInit, ScanInv

\* Where the walk has noted every record, extraction finds each chunk of a file
\* whose ids are in order.
LEMMA GoodRead ==
  ASSUME UseInv, MapInv, ScanInv, Led, EntOrdered, AllHeads, rpc = "chunks",
         chunk_idx < Entry.chunk_count, NEW id, id = Entry.first_chunk + chunk_idx
  PROVE  id \in DOMAIN chunk_map
<1>1. PICK chunk : chunk = SplitIntoChunks(files[ent].data)[chunk_idx + 1]
  OBVIOUS
<1>2. PICK n \in 0 .. counter - 1 :
        /\ IdAt(RecordAt(n), id)
        /\ id \in DOMAIN chunk_map => chunk_map[id].at = RecordAt(n)
  BY <1>1, ChunkPlace DEF EntOrdered
<1> QED
  BY <1>2 DEF ScanInv, Noted, IdAt

LEMMA ScanStep ==
  ASSUME UseInv, MapInv, ScanInv, Led, damage # "tag", [SystemNext]_systemVars
  PROVE  ScanInv'
<1>1. CASE UNCHANGED systemVars
  <2>1. UNCHANGED <<img, rpc, cmd, pos, chunk_map, tested, counter, phase, out>>
    BY <1>1 DEF systemVars, createVars, createMemory, readerVars, options, locals
  <2>2. /\ AllGood' = AllGood /\ \A j : GoodAt(j)' = GoodAt(j)
        /\ AllHeads' = AllHeads
    BY <2>1 DEF AllGood, GoodAt, AllHeads, HeadAt, RecordAt, IsChunk, ChunkError
  <2>3. \A v : Noted(v)' <=> Noted(v)
    BY <2>1 DEF Noted, RecordAt
  <2>4. Noted(counter)' <=> Noted(counter)
    BY <2>1 DEF Noted, RecordAt
  <2> QED
    BY <2>1, <2>2, <2>3, <2>4 DEF ScanInv
<1>2. CASE ReaderIdles
  <2>1. rpc' = "idle" /\ tested' = FALSE
    BY <1>2 DEF ReaderIdles, readerVars
  <2> QED
    BY <2>1 DEF ScanInv
<1>3. CASE ReaderStep
  <2> USE DEF Finish, Continue, ResetLocals, locals, options
  <2>1. /\ UNCHANGED <<img, counter, phase, out>> /\ phase = "use"
        /\ tested' = (IF cmd' = "t" /\ rpc' = "idle" THEN res' = "ok" ELSE tested)
    BY <1>3 DEF ReaderStep, Using, createVars, createMemory
  <2>2. /\ AllGood' = AllGood /\ \A j : GoodAt(j)' = GoodAt(j)
        /\ AllHeads' = AllHeads
    BY <2>1 DEF AllGood, GoodAt, AllHeads, HeadAt, RecordAt, IsChunk, ChunkError
  <2>n. chunk_map' = chunk_map => (Noted(counter)' <=> Noted(counter))
    BY <2>1 DEF Noted, RecordAt
  \* Steps that end no test well and stay out of the walk.
  <2>3. ASSUME cmd' = "t" /\ rpc' = "idle" => res' # "ok",
               \/ rpc' \in {"idle", "open"}
               \/ /\ rpc \in {"entry", "chunks", "write", "mode"} /\ chunk_map' = chunk_map
                  /\ rpc' \in {"entry", "chunks", "write", "mode"}
        PROVE  ScanInv'
    BY <2>1, <2>2, <2>3, <2>n DEF ScanInv
  <2>4. CASE Command
    <3>1. rpc' = "open"
      BY <2>4 DEF Command, ExtractCommand, ListCommand, TestCommand, Start
    <3> QED
      BY <2>3, <3>1
  <2>5. CASE OpenRefused \/ OpenList \/ EndExtract \/ RefuseEntry \/ Die \/ IoError
    <3>1. rpc' = "idle" /\ (cmd' = "t" => res' # "ok")
      BY <2>5 DEF OpenRefused, OpenList, EndExtract, RefuseEntry, Die, IoError, UseInv, OpenInv
    <3> QED
      BY <2>3, <3>1
  <2>6. CASE OpenExtract \/ OpenTest
    <3>1. rpc' = "scan" /\ pos' = 1 /\ UNCHANGED cmd /\ cmd \in {"x", "t"}
          /\ ReadFooter(img) = "ok"
      BY <2>6 DEF OpenExtract, OpenTest, StartScan, OpenError
    <3>2. counter \in Nat
      BY <2>1, <3>1, FooterSeen DEF UseInv
    <3>3. 0 \in 0 .. counter /\ pos' = 1 + 3 * 0 /\ 0 .. 0 - 1 = {}
      BY <3>1, <3>2
    <3>4. PICK none : none = 0
      OBVIOUS
    <3>5. Noted(none)'
      BY <3>3, <3>4 DEF Noted
    <3> QED
      BY <2>1, <2>2, <3>1, <3>3, <3>4, <3>5 DEF ScanInv
  <2>7. CASE ScanRecord \/ ScanEnd \/ TestRecord \/ TestEnd
    <3>1. rpc = "scan" /\ UNCHANGED cmd
      BY <2>7 DEF ScanRecord, ScanEnd, TestRecord, TestEnd
    <3>2. ReadFooter(img) = "ok"
      BY <3>1 DEF UseInv, OpenInv, Opens, OpensIndex, OpenError
    <3>3. counter \in Nat
      BY <2>1, <3>2, FooterSeen DEF UseInv
    <3>8. CASE ScanRecord /\ rpc' = "idle"
      <4>1. cmd' # "t"
        BY <3>8 DEF ScanRecord
      <4> QED
        BY <2>3, <3>8, <4>1
    <3>4. CASE ScanRecord /\ rpc' # "idle"
      <4>1. /\ rpc' = "scan" /\ cmd = "x" /\ AtRecord
            /\ pos' = pos + 1 + AsI64(img[pos + 1].compressed_len)
            /\ DOMAIN chunk_map' = DOMAIN chunk_map \cup {img[pos + 1].id}
        BY <3>4 DEF ScanRecord
      <4>2. ASSUME AllHeads
            PROVE  \E v \in 0 .. counter : pos' = 1 + 3 * v /\ Noted(v)'
        <5>1. PICK v \in 0 .. counter : pos = 1 + 3 * v /\ Noted(v)
          BY <3>1, <4>1, <4>2 DEF ScanInv
        <5>2. v < counter /\ pos + 1 = RecordAt(v) /\ IsChunk(img[pos + 1])
          BY <2>1, <3>2, <4>1, <5>1, InStep
        <5>3. v \in 0 .. counter - 1
          BY <3>3, <5>2
        <5>4. img[pos + 1].compressed_len = 2 /\ AsI64(2) = 2
          BY <4>2, <5>2, <5>3, SmallLength DEF AllHeads, HeadAt
        <5>5. img[pos + 1].id = out[RecordAt(v)].id /\ AsI64(img[pos + 1].compressed_len) = 2
          BY <2>1, <3>2, <5>2, <5>3, <5>4, RecordSeen
        <5>6. v + 1 \in 0 .. counter /\ pos' = 1 + 3 * (v + 1)
          BY <3>3, <4>1, <5>1, <5>3, <5>5
        <5>7. PICK u : u = v + 1
          OBVIOUS
        <5>8. \A j \in 0 .. u - 1 : j \in 0 .. v - 1 \/ j = v
          BY <5>3, <5>7
        <5>9. Noted(u)'
          BY <2>1, <4>1, <5>1, <5>5, <5>8 DEF Noted, RecordAt
        <5> QED
          BY <5>6, <5>7, <5>9
      <4> QED
        BY <2>1, <2>2, <3>1, <4>1, <4>2 DEF ScanInv
    <3>5. CASE ScanEnd
      <4>1. rpc' = "entry" /\ cmd = "x" /\ ~ AtRecord /\ UNCHANGED chunk_map
        BY <3>5 DEF ScanEnd
      <4>2. ASSUME AllHeads PROVE Noted(counter)
        <5>1. PICK v \in 0 .. counter : pos = 1 + 3 * v /\ Noted(v)
          BY <3>1, <4>1, <4>2 DEF ScanInv
        <5>2. v < counter => ~ IsChunk(img[RecordAt(v)])
          BY <2>1, <3>2, <4>1, <5>1, InStep
        <5>3. v < counter => v \in 0 .. counter - 1
          BY <3>3
        <5>4. ~ (v < counter)
          BY <4>2, <5>2, <5>3 DEF AllHeads, HeadAt
        <5>5. v = counter
          BY <3>3, <5>4
        <5> QED
          BY <5>1, <5>5
      <4> QED
        BY <2>1, <2>2, <2>n, <3>1, <4>1, <4>2 DEF ScanInv
    <3>6. CASE TestRecord
      <4>1. /\ cmd = "t" /\ AtRecord
            /\ \/ rpc' = "idle" /\ res' # "ok"
               \/ /\ ChunkError(pos + 1, img[pos + 1]) = "none" /\ rpc' = "scan"
                  /\ pos' = pos + 1 + img[pos + 1].compressed_len
        BY <3>6 DEF TestRecord, ChunkError
      <4>2. CASE rpc' = "idle" /\ res' # "ok"
        BY <2>3, <4>2
      <4>3. CASE /\ ChunkError(pos + 1, img[pos + 1]) = "none" /\ rpc' = "scan"
                 /\ pos' = pos + 1 + img[pos + 1].compressed_len
        <5>1. PICK v \in 0 .. counter : pos = 1 + 3 * v /\ \A j \in 0 .. v - 1 : GoodAt(j)
          BY <3>1, <4>1 DEF ScanInv
        <5>2. v < counter /\ pos + 1 = RecordAt(v) /\ IsChunk(img[pos + 1])
          BY <2>1, <3>2, <4>1, <5>1, InStep
        <5>3. v \in 0 .. counter - 1
          BY <3>3, <5>2
        <5>4. RecordAt(v) \in DOMAIN img
          BY <2>1, <3>2, <5>3, RecordSeen
        <5>5. GoodAt(v)
          BY <4>3, <5>2, <5>4 DEF GoodAt
        <5>6. img[pos + 1].compressed_len = 2
          BY <2>1, <3>2, <5>2, <5>3, <5>5, RecordSeen
        <5>7. v + 1 \in 0 .. counter /\ pos' = 1 + 3 * (v + 1)
          BY <3>3, <4>3, <5>1, <5>3, <5>6
        <5>8. \A j \in 0 .. (v + 1) - 1 : j \in 0 .. v - 1 \/ j = v
          BY <5>3
        <5>9. \A j \in 0 .. (v + 1) - 1 : GoodAt(j)
          BY <5>1, <5>5, <5>8
        <5> QED
          BY <2>1, <2>2, <3>1, <4>1, <4>3, <5>7, <5>9 DEF ScanInv
      <4> QED
        BY <4>1, <4>2, <4>3
    <3>7. CASE TestEnd
      <4>1. cmd = "t" /\ rpc' = "idle" /\ ~ AtRecord
        BY <3>7 DEF TestEnd
      <4>2. PICK v \in 0 .. counter : pos = 1 + 3 * v /\ \A j \in 0 .. v - 1 : GoodAt(j)
        BY <3>1, <4>1 DEF ScanInv
      <4>3. v < counter => ~ IsChunk(img[RecordAt(v)])
        BY <2>1, <3>2, <4>1, <4>2, InStep
      <4>4. v < counter => v \in 0 .. counter - 1
        BY <3>3
      <4>5. ~ (v < counter)
        BY <2>1, <3>2, <4>3, <4>4, RecordSeen
      <4>6. v = counter
        BY <3>3, <4>5
      <4>7. AllGood
        BY <4>2, <4>6 DEF AllGood
      <4> QED
        BY <2>1, <2>2, <4>1, <4>7 DEF ScanInv
    <3> QED
      BY <2>7, <3>4, <3>5, <3>6, <3>7, <3>8
  <2>8. CASE SkipEntry \/ StartEntry \/ SetMode \/ CreateFile \/ WriteFile \/ ReadChunk
    <3>1. /\ rpc \in {"entry", "chunks", "write", "mode"} /\ cmd = "x" /\ UNCHANGED cmd
          /\ \/ rpc' = "idle"
             \/ rpc' \in {"entry", "chunks", "write", "mode"} /\ UNCHANGED chunk_map
      BY <2>8 DEF SkipEntry, StartEntry, EntryReady, SetMode, CreateFile, WriteFile, ReadChunk,
                  UseInv, OpenInv
    <3> QED
      BY <2>3, <3>1
  <2> QED
    BY <1>3, <2>4, <2>5, <2>6, <2>7, <2>8 DEF ReaderStep, ReadStep
<1> QED
  BY <1>1, <1>2, <1>3, SystemSteps DEF UseInv

-----------------------------------------------------------------------------
(* What `axc t` called OK.  Its walk may have ended early, and other ids may *)
(* lead to the records; but `axc x` walks the same way, and every record on  *)
(* it has passed the checks.                                                 *)

HasRecord(p) ==
  /\ p < LastCell(img).index_offset
  /\ p < Len(img)
  /\ img[p + 1].k = "chunk"

\* The way of a walk from the first record to an end.
Trail(S, end) ==
  /\ 1 \in S \cup {end}
  /\ \A p \in S : /\ HasRecord(p) /\ ChunkError(p + 1, img[p + 1]) = "none"
                  /\ p + 1 + img[p + 1].compressed_len \in S \cup {end}

TrailInv ==
  /\ rpc = "scan" /\ cmd = "t" => \E S : Trail(S, pos)
  /\ tested =>
       /\ phase = "use" /\ Opens
       /\ \E S, end : /\ Trail(S, end) /\ ~ HasRecord(end)
                      /\ rpc = "scan" /\ cmd = "x" => pos \in S \cup {end}
  /\ tested /\ cmd = "x" =>
       \A id \in DOMAIN chunk_map :
         ChunkError(chunk_map[id].at, chunk_map[id].record) = "none"

LEMMA TrailInit == SystemInit => TrailInv
  BY DEF SystemInit, ReadInit, TrailInv

\* A record that passes the checks has a length that the cast keeps.
LEMMA GoodLength ==
  ASSUME UseInv, phase = "use", NEW p \in Nat, HasRecord(p),
         ChunkError(p + 1, img[p + 1]) = "none"
  PROVE  AsI64(img[p + 1].compressed_len) = img[p + 1].compressed_len
         /\ img[p + 1].compressed_len \in Nat
<1>1. p + 1 \in DOMAIN img /\ IsChunk(img[p + 1])
  BY DEF HasRecord, IsChunk, UseInv, ImgInv
<1>2. /\ img[p + 1].compressed_len \in Nat
      /\ \/ img[p + 1].compressed_len \in 1 .. 3
         \/ AsI64(img[p + 1].compressed_len) \in -4 .. -1
  BY <1>1, SeenLength
<1>3. ~ (AsI64(img[p + 1].compressed_len) < 0)
  BY DEF ChunkError
<1> QED
  BY <1>2, <1>3, SmallLength

LEMMA TrailStep ==
  ASSUME UseInv, MapInv, TrailInv, [SystemNext]_systemVars
  PROVE  TrailInv'
<1>1. CASE UNCHANGED systemVars
  <2>1. UNCHANGED <<img, rpc, cmd, pos, chunk_map, tested, phase>>
    BY <1>1 DEF systemVars, createVars, createMemory, readerVars, options, locals
  <2>2. \A S, end : (Trail(S, end)' <=> Trail(S, end)) /\ (HasRecord(end)' <=> HasRecord(end))
    BY <2>1 DEF Trail, HasRecord, ChunkError
  <2>3. \A at, record : ChunkError(at, record)' = ChunkError(at, record)
    BY <2>1 DEF ChunkError
  <2>4. rpc = "scan" /\ cmd = "t" => \E S : Trail(S, pos)'
    <3> SUFFICES ASSUME rpc = "scan", cmd = "t" PROVE \E S : Trail(S, pos)'
      OBVIOUS
    <3>1. PICK S : Trail(S, pos)
      BY DEF TrailInv
    <3>2. PICK end : end = pos
      OBVIOUS
    <3>3. Trail(S, end)'
      BY <2>2, <3>1, <3>2
    <3> QED
      BY <2>1, <3>2, <3>3
  <2>5. tested => Opens' /\ Opens
    BY <2>1 DEF TrailInv, Opens, OpenError
  <2> QED
    BY <2>1, <2>2, <2>3, <2>4, <2>5 DEF TrailInv
<1>2. CASE ReaderIdles
  <2>1. rpc' = "idle" /\ tested' = FALSE
    BY <1>2 DEF ReaderIdles, readerVars
  <2> QED
    BY <2>1 DEF TrailInv
<1>3. CASE ReaderStep
  <2> USE DEF Finish, Continue, ResetLocals, locals, options
  <2>1. /\ UNCHANGED <<img, phase>> /\ phase = "use"
        /\ tested' = (IF cmd' = "t" /\ rpc' = "idle" THEN res' = "ok" ELSE tested)
    BY <1>3 DEF ReaderStep, Using
  <2>2. \A S, end : (Trail(S, end)' <=> Trail(S, end)) /\ (HasRecord(end)' <=> HasRecord(end))
    BY <2>1 DEF Trail, HasRecord, ChunkError
  <2>3. \A at, record : ChunkError(at, record)' = ChunkError(at, record)
    BY <2>1 DEF ChunkError
  <2>4. Opens' <=> Opens
    BY <2>1 DEF Opens, OpenError
  <2>5. AtRecord <=> HasRecord(pos)
    BY DEF AtRecord, HasRecord
  \* What was tested is, but for the walk.
  <2>6. ASSUME tested PROVE \E S, end : Trail(S, end)' /\ ~ HasRecord(end)'
    BY <2>2, <2>6 DEF TrailInv
  \* A step out of the walk, to an end that is no good end of a test or on.
  <2>7. ASSUME rpc' # "scan", cmd' = "t" /\ rpc' = "idle" => res' # "ok",
               \/ chunk_map' = <<>>
               \/ chunk_map' = chunk_map /\ (cmd' = "x" => cmd = "x")
        PROVE  TrailInv'
    <3>1. tested' => tested
      BY <2>1, <2>7
    <3>2. tested' => phase' = "use" /\ Opens'
      BY <2>1, <2>4, <3>1 DEF TrailInv
    <3>3. tested' /\ cmd' = "x" => \A id \in DOMAIN chunk_map' :
             ChunkError(chunk_map'[id].at, chunk_map'[id].record) = "none"
      BY <2>7, <3>1 DEF TrailInv
    <3>4. tested' /\ cmd' = "x" => \A id \in DOMAIN chunk_map' :
             ChunkError(chunk_map[id].at, chunk_map[id].record)' = "none"
      BY <2>1, <3>3 DEF ChunkError
    <3> QED
      BY <2>6, <2>7, <3>1, <3>2, <3>4 DEF TrailInv
  <2>8. CASE Command
    <3>1. /\ rpc = "idle" /\ rpc' = "open" /\ UNCHANGED locals
      BY <2>8 DEF Command, ExtractCommand, ListCommand, TestCommand, Start
    <3> QED
      BY <2>7, <3>1 DEF MapInv
  <2>9. CASE OpenRefused \/ OpenList \/ EndExtract \/ RefuseEntry \/ Die \/ IoError
    <3>1. rpc' = "idle" /\ (cmd' = "t" => res' # "ok") /\ chunk_map' = <<>>
      BY <2>9 DEF OpenRefused, OpenList, EndExtract, RefuseEntry, Die, IoError, UseInv, OpenInv
    <3> QED
      BY <2>7, <3>1
  <2>10. CASE OpenExtract \/ OpenTest
    <3>1. /\ rpc = "open" /\ rpc' = "scan" /\ pos' = 1 /\ UNCHANGED <<cmd, chunk_map>>
      BY <2>10 DEF OpenExtract, OpenTest, StartScan
    <3>2. chunk_map' = <<>> /\ tested' = tested
      BY <2>1, <3>1 DEF MapInv
    <3>3. \E S : Trail(S, pos)'
      <4>1. PICK one : one = pos' /\ one = 1
        BY <3>1
      <4>2. Trail({}, one)
        BY <4>1 DEF Trail
      <4>3. Trail({}, one)'
        BY <2>2, <4>2
      <4> QED
        BY <4>1, <4>3
    <3>4. ASSUME tested
          PROVE  \E S, end : /\ Trail(S, end)' /\ ~ HasRecord(end)'
                             /\ pos' \in S \cup {end}
      <4>1. PICK S, end : Trail(S, end) /\ ~ HasRecord(end)
        BY <3>4 DEF TrailInv
      <4>2. 1 \in S \cup {end}
        BY <4>1 DEF Trail
      <4> QED
        BY <2>2, <3>1, <4>1, <4>2
    <3>5. tested => phase' = "use" /\ Opens'
      BY <2>1, <2>4 DEF TrailInv
    <3> QED
      BY <3>1, <3>2, <3>3, <3>4, <3>5 DEF TrailInv
  <2>11. CASE ScanRecord
    <3>1. /\ rpc = "scan" /\ cmd = "x" /\ UNCHANGED cmd /\ AtRecord
          /\ \/ rpc' = "idle" /\ chunk_map' = <<>>
             \/ /\ rpc' = "scan" /\ pos' = pos + 1 + AsI64(img[pos + 1].compressed_len)
                /\ chunk_map' = [id \in DOMAIN chunk_map \cup {img[pos + 1].id} |->
                     IF id = img[pos + 1].id THEN [at |-> pos + 1, record |-> img[pos + 1]]
                     ELSE chunk_map[id]]
      BY <2>11 DEF ScanRecord
    <3>2. CASE rpc' = "idle"
      BY <2>7, <3>1, <3>2
    <3>3. CASE rpc' # "idle" /\ ~ tested
      BY <2>1, <3>1, <3>3 DEF TrailInv
    <3>4. CASE rpc' # "idle" /\ tested
      <4>1. PICK S, end : Trail(S, end) /\ ~ HasRecord(end) /\ pos \in S \cup {end}
        BY <3>1, <3>4 DEF TrailInv
      <4>2. pos \in S /\ HasRecord(pos)
        BY <2>5, <3>1, <4>1
      <4>3. /\ ChunkError(pos + 1, img[pos + 1]) = "none"
            /\ pos + 1 + img[pos + 1].compressed_len \in S \cup {end}
        BY <4>1, <4>2 DEF Trail
      <4>4. pos' \in S \cup {end}
        BY <2>1, <3>1, <3>4, <4>2, <4>3, GoodLength DEF MapInv
      <4>5. ASSUME NEW id \in DOMAIN chunk_map'
            PROVE  ChunkError(chunk_map[id].at, chunk_map[id].record)' = "none"
        <5>1. PICK at, record : at = chunk_map'[id].at /\ record = chunk_map'[id].record
          OBVIOUS
        <5>2. ChunkError(at, record) = "none"
          BY <3>1, <3>4, <4>3, <4>5, <5>1 DEF TrailInv
        <5>3. ChunkError(at, record)' = "none"
          BY <2>3, <5>2
        <5> QED
          BY <5>1, <5>3 DEF ChunkError
      <4>6. tested' = tested /\ rpc' = "scan" /\ Opens' /\ phase' = "use"
        BY <2>1, <2>4, <3>1, <3>4 DEF TrailInv
      <4>7. Trail(S, end)' /\ ~ HasRecord(end)'
        BY <2>2, <4>1
      <4> QED
        BY <3>1, <4>4, <4>5, <4>6, <4>7 DEF TrailInv
    <3> QED
      BY <3>2, <3>3, <3>4
  <2>12. CASE TestRecord
    <3>1. /\ rpc = "scan" /\ cmd = "t" /\ UNCHANGED cmd /\ AtRecord
          /\ \/ rpc' = "idle" /\ chunk_map' = <<>> /\ res' # "ok"
             \/ /\ rpc' = "scan" /\ ChunkError(pos + 1, img[pos + 1]) = "none"
                /\ pos' = pos + 1 + img[pos + 1].compressed_len
      BY <2>12 DEF TestRecord, ChunkError
    <3>2. CASE rpc' = "idle"
      BY <2>7, <3>1, <3>2
    <3>3. CASE rpc' # "idle"
      <4>1. PICK S : Trail(S, pos)
        BY <3>1 DEF TrailInv
      <4>2. PICK here, next : here = pos /\ next = pos'
        OBVIOUS
      <4>3. Trail(S \cup {here}, next)
        BY <2>5, <3>1, <3>3, <4>1, <4>2 DEF Trail
      <4>4. Trail(S \cup {here}, next)'
        BY <2>2, <4>3
      <4>5. \E T : Trail(T, pos)'
        BY <4>2, <4>4
      <4>6. tested' = tested /\ rpc' = "scan" /\ cmd' = "t"
        BY <2>1, <3>1, <3>3
      <4>7. tested => Opens' /\ phase' = "use"
        BY <2>1, <2>4 DEF TrailInv
      <4> QED
        BY <2>6, <4>5, <4>6, <4>7 DEF TrailInv
    <3> QED
      BY <3>2, <3>3
  <2>13. CASE TestEnd
    <3>1. rpc = "scan" /\ cmd = "t" /\ cmd' = "t" /\ ~ AtRecord /\ rpc' = "idle"
      BY <2>13 DEF TestEnd
    <3>2. PICK S : Trail(S, pos)
      BY <3>1 DEF TrailInv
    <3>3. PICK end : end = pos
      OBVIOUS
    <3>4. Trail(S, end)' /\ ~ HasRecord(end)'
      BY <2>2, <2>5, <3>1, <3>2, <3>3
    <3>5. Opens
      BY <3>1 DEF UseInv, OpenInv, Opens, OpensIndex, OpenError
    <3> QED
      BY <2>1, <2>4, <3>1, <3>4, <3>5 DEF TrailInv
  <2>14. CASE ScanEnd \/ SkipEntry \/ StartEntry \/ SetMode
    <3>1. rpc' \in {"entry", "chunks"} /\ UNCHANGED <<cmd, chunk_map>>
      BY <2>14 DEF ScanEnd, SkipEntry, StartEntry, EntryReady, SetMode
    <3> QED
      BY <2>7, <3>1
  <2>15. CASE CreateFile \/ WriteFile \/ ReadChunk
    <3>1. /\ cmd = "x" /\ UNCHANGED cmd /\ rpc' \in {"idle", "chunks", "write", "mode"}
          /\ \/ chunk_map' = <<>>
             \/ chunk_map' = chunk_map
      BY <2>15 DEF CreateFile, WriteFile, ReadChunk, UseInv, OpenInv
    <3> QED
      BY <2>7, <3>1
  <2> QED
    BY <1>3, <2>8, <2>9, <2>10, <2>11, <2>12, <2>13, <2>14, <2>15 DEF ReaderStep, ReadStep
<1> QED
  BY <1>1, <1>2, <1>3, SystemSteps DEF UseInv

\* An index that is refused behind a footer that is not was damaged there.
LEMMA IndexDamaged ==
  ASSUME UseInv, phase = "use", Opens, ~ OpensIndex
  PROVE  OpenError(TRUE) = "InvalidHeader" /\ damage = "frame"
<1>1. ReadHeader(img) = "ok" /\ ReadFooter(img) = "ok" /\ OpenError(TRUE) = ReadIndex(img)
  BY DEF Opens, OpenError
<1>2. /\ Len(img) = Len(out) /\ Whole
      /\ LastCell(img) = FooterCell(index_offset, Len(entries))
  BY <1>1, FooterSeen DEF UseInv
<1>t. /\ Len(out) \in Nat /\ DOMAIN out = 1 .. Len(out) /\ index_offset \in Nat
      /\ entries \in Seq(EntryRecords)
      /\ DOMAIN img = 1 .. Len(img)
      /\ \A p \in DOMAIN img : img[p] = out[p] \/ img[p] \in DamagedCells(out[p], damage)
  BY OutType DEF UseInv, CreatorInv, TypeInv, TypeOK, ImgInv
<1>n. PICK n \in Nat : n = Len(entries)
  BY <1>t
<1>3. /\ LastCell(img).index_offset = index_offset /\ LastCell(img).index_count = n
      /\ Len(out) = index_offset + n + 1
      /\ \A i \in 1 .. n : out[index_offset + i] = EntryCell(entries[i])
  BY <1>2, <1>n DEF FooterCell, Whole
<1>4. ~ (index_offset + n > Len(img))
  BY <1>t, <1>2, <1>3
<1>5. /\ ReadIndex(img) = "InvalidHeader"
      /\ \E i \in DOMAIN IndexCells(img) : IndexCells(img)[i].k # "entry"
  BY <1>1, <1>3, <1>4 DEF ReadIndex, OpensIndex
<1>6. /\ DOMAIN IndexCells(img) = 1 .. n
      /\ \A i \in 1 .. n : IndexCells(img)[i] = img[index_offset + i]
  <2>1. IndexCells(img) = SubSeq(img, index_offset + 1, index_offset + n)
    BY <1>3 DEF IndexCells
  <2>2. n \in Nat /\ index_offset \in Int
    BY <1>t
  <2>3. PICK cells : cells = SubSeq(img, index_offset + 1, index_offset + n)
    OBVIOUS
  <2>4. DOMAIN cells = 1 .. n /\ \A i \in 1 .. n : cells[i] = img[index_offset + i]
    BY <2>2, <2>3, Slice
  <2> QED
    BY <2>1, <2>3, <2>4
<1>7. PICK i \in 1 .. n : img[index_offset + i].k # "entry"
  BY <1>5, <1>6
<1>8. PICK cell, seen : cell = EntryCell(entries[i]) /\ seen = img[index_offset + i]
  OBVIOUS
<1>9. cell.k = "entry" /\ seen \in DamagedCells(cell, damage) /\ cell \in EntryCells
  <2>1. index_offset + i \in DOMAIN img /\ out[index_offset + i] = cell
    BY <1>t, <1>2, <1>3, <1>8
  <2>2. entries[i] \in EntryRecords
    BY <1>t, <1>n
  <2>3. cell.k = "entry" /\ cell \in EntryCells
    BY <1>8, <2>2 DEF EntryCell, EntryCells
  <2> QED
    BY <1>t, <1>7, <1>8, <2>1, <2>3
<1>10. damage \in {"frame", "entry", "name"}
  BY <1>9 DEF DamagedCells
<1>11. damage \in {"entry", "name"} => seen.k = "entry"
  <2>1. cell = [k |-> "entry", e |-> entries[i]]
    BY <1>8 DEF EntryCell
  <2>2. ASSUME damage = "entry" PROVE seen.k = "entry"
    BY <1>9, <2>2 DEF DamagedCells, EntryCells
  <2>3. ASSUME damage = "name" PROVE seen.k = "entry"
    BY <1>9, <2>3 DEF DamagedCells, EntryCells
  <2> QED
    BY <2>2, <2>3
<1> QED
  BY <1>1, <1>5, <1>7, <1>8, <1>10, <1>11

\* No name that was put in leads outside, so one that does was damaged.
LEMMA NameDamaged ==
  ASSUME UseInv, rpc = "entry", ent <= Len(Entries), Dest = <<>>
  PROVE  damage = "name"
<1>1. ReadFooter(img) = "ok" /\ ReadIndex(img) = "ok" /\ phase = "use" /\ ent \in Nat \ {0}
  BY Opened DEF UseInv, OpenInv, ImgInv
<1>2. Len(Entries) = Len(files) /\ Len(entries) = Len(files) /\ Len(files) \in Nat
  BY <1>1, IndexSeen, GivenFiles DEF UseInv
<1>3. ent \in 1 .. Len(files)
  BY <1>1, <1>2
<1>4. /\ entries[ent] \in EntryRecords
      /\ \/ Entry = entries[ent]
         \/ \E seen \in DamagedCells(EntryCell(entries[ent]), damage) :
              seen.k = "entry" /\ Entry = seen.e
  BY <1>1, <1>3, IndexSeen DEF UseInv, Entry
<1>5. damage # "name" => Entry.name = entries[ent].name
  <2>1. EntryCell(entries[ent]) \in EntryCells /\ EntryCell(entries[ent]).e = entries[ent]
    BY <1>4 DEF EntryCell, EntryCells
  <2> QED
    BY <1>4, <2>1, DamagedEntry
<1>6. SanitisePath(files[ent].name) # <<>>
      /\ \E first_chunk : entries[ent] = EntryOf(ent, first_chunk)
  BY <1>2, <1>3 DEF UseInv, CreatorInv, StreamInv, EntriesMatch
<1>7. entries[ent].name = files[ent].name
  BY <1>6 DEF EntryOf
<1> QED
  BY <1>5, <1>6, <1>7 DEF Dest

\* The walks keep in step where neither a tag nor an id was damaged.
Leads == damage \notin {"tag", "id", "entry"}

TestInv == TrailInv /\ (Leads => ScanInv)

LEMMA TestInvStep ==
  ASSUME UseInv, MapInv, TestInv, [SystemNext]_systemVars
  PROVE  TestInv'
<1>1. TrailInv'
  BY TrailStep DEF TestInv
<1>2. CASE UNCHANGED systemVars \/ ReaderStep
  <2>1. damage' = damage
    BY <1>2 DEF systemVars, ReaderStep
  <2> QED
    BY <1>1, <2>1, ScanStep DEF TestInv, Leads, Led
<1>3. CASE ReaderIdles
  <2>1. rpc' = "idle" /\ tested' = FALSE
    BY <1>3 DEF ReaderIdles, readerVars
  <2>2. ScanInv'
    BY <2>1 DEF ScanInv
  <2> QED
    BY <1>1, <2>2 DEF TestInv
<1> QED
  BY <1>2, <1>3, SystemSteps DEF UseInv

LEMMA TestedStep ==
  ASSUME UseInv, MapInv, TestInv, TestPredictsExtract, [SystemNext]_systemVars
  PROVE  TestPredictsExtract'
<1> DEFINE Fine == {"none", "ok", "killed", "DecompressionBomb"} \cup OutputErrors
<1>1. CASE UNCHANGED systemVars
  <2>1. UNCHANGED <<tested, cmd, res, damage>> /\ UNCHANGED <<entries, out>>
    BY <1>1 DEF systemVars, createVars, createMemory, readerVars, options
  <2>2. AllOrdered' <=> AllOrdered
    BY <2>1, ShuffleStays
  <2> QED
    BY <2>1, <2>2 DEF TestPredictsExtract, OutputErrors
<1>2. CASE ReaderIdles
  BY <1>2 DEF ReaderIdles, TestPredictsExtract
<1>3. CASE ReaderStep
  <2> USE DEF Finish, Continue, ResetLocals, locals, options
  <2>1. /\ UNCHANGED damage /\ phase = "use" /\ (cmd' = "x" /\ tested' => tested)
    BY <1>3 DEF ReaderStep, Using
  <2>o. AllOrdered' <=> AllOrdered
    <3>1. UNCHANGED <<entries, out>>
      BY <1>3 DEF ReaderStep, createVars, createMemory
    <3> QED
      BY <3>1, ShuffleStays
  <2>2. ASSUME res' \in Fine PROVE TestPredictsExtract'
    BY <2>2 DEF TestPredictsExtract, OutputErrors
  <2>3. ASSUME UNCHANGED <<cmd, res>> PROVE TestPredictsExtract'
    BY <2>1, <2>3, <2>o DEF TestPredictsExtract, OutputErrors
  <2>4. ASSUME cmd' # "x" \/ ~ tested PROVE TestPredictsExtract'
    BY <2>1, <2>4 DEF TestPredictsExtract
  <2>5. CASE Command
    <3>1. res' = "none"
      BY <2>5 DEF Command, ExtractCommand, ListCommand, TestCommand, Start
    <3> QED
      BY <2>2, <3>1
  <2>6. CASE OpenRefused
    <3>1. cmd' = cmd /\ res' = OpenError(cmd # "t") /\ OpenError(cmd # "t") # "ok"
      BY <2>6 DEF OpenRefused
    <3>2. CASE cmd = "x" /\ tested
      <4>1. res' = OpenError(TRUE) /\ OpenError(TRUE) # "ok"
        <5>1. (cmd # "t") = TRUE
          BY <3>2
        <5> QED
          BY <3>1, <5>1
      <4>2. res' = "InvalidHeader" /\ damage = "frame"
        BY <2>1, <3>2, <4>1, IndexDamaged DEF TestInv, TrailInv, OpensIndex
      <4> QED
        BY <2>1, <4>2 DEF TestPredictsExtract
    <3> QED
      BY <2>4, <3>1, <3>2
  <2>7. CASE OpenList \/ EndExtract \/ Die \/ IoError \/ TestEnd
    <3>1. res' \in Fine
      BY <2>7 DEF OpenList, EndExtract, Die, IoError, TestEnd, OutputErrors
    <3> QED
      BY <2>2, <3>1
  <2>8. CASE RefuseEntry
    <3>1. CASE Dest = <<>>
      <4>1. res' = "PathTraversal" /\ damage = "name"
        BY <2>8, <3>1, NameDamaged DEF RefuseEntry
      <4> QED
        BY <2>1, <4>1 DEF TestPredictsExtract
    <3>2. CASE Dest # <<>>
      <4>1. res' \in Fine
        BY <2>8, <3>2 DEF RefuseEntry, BlockedError, OutputErrors
      <4> QED
        BY <2>2, <4>1
    <3> QED
      BY <3>1, <3>2
  <2>9. CASE OpenExtract \/ OpenTest \/ ScanEnd \/ SkipEntry \/ StartEntry \/ SetMode
    <3>1. UNCHANGED <<cmd, res>>
      BY <2>9 DEF OpenExtract, OpenTest, StartScan, ScanEnd, SkipEntry, StartEntry,
                  EntryReady, SetMode
    <3> QED
      BY <2>3, <3>1
  <2>10. CASE ScanRecord
    <3>1. /\ rpc = "scan" /\ cmd = "x" /\ AtRecord /\ UNCHANGED cmd
          /\ \/ pos + 1 + AsI64(img[pos + 1].compressed_len) < 0
             \/ res' = res
      BY <2>10 DEF ScanRecord
    <3>2. ASSUME tested PROVE res' = res
      <4>1. PICK S, end : Trail(S, end) /\ ~ HasRecord(end) /\ pos \in S \cup {end}
        BY <3>1, <3>2 DEF TestInv, TrailInv
      <4>2. pos \in S /\ HasRecord(pos) /\ pos \in Nat
        BY <3>1, <4>1 DEF AtRecord, HasRecord, MapInv
      <4>3. ChunkError(pos + 1, img[pos + 1]) = "none"
        BY <4>1, <4>2 DEF Trail
      <4>4. AsI64(img[pos + 1].compressed_len) \in Nat
        BY <2>1, <4>2, <4>3, GoodLength
      <4> QED
        BY <3>1, <4>2, <4>4
    <3> QED
      BY <2>3, <2>4, <3>1, <3>2
  <2>11. CASE CreateFile \/ WriteFile
    <3>1. UNCHANGED cmd /\ (res' = res \/ res' \in OutputErrors)
      BY <2>11 DEF CreateFile, WriteFile, OutputErrors
    <3> QED
      BY <2>2, <2>3, <3>1
  <2>12. CASE TestRecord
    <3>1. cmd' = "t"
      BY <2>12 DEF TestRecord
    <3> QED
      BY <2>4, <3>1
  <2>13. CASE ReadChunk
    <3>1. PICK id : id = Entry.first_chunk + chunk_idx
      OBVIOUS
    <3>2. /\ rpc = "chunks" /\ chunk_idx < Entry.chunk_count /\ UNCHANGED cmd
          /\ \/ res' \in {res, "DecompressionBomb"}
             \/ id \notin DOMAIN chunk_map /\ res' = "InvalidChunk"
             \/ id \in DOMAIN chunk_map
                  /\ ChunkError(chunk_map[id].at, chunk_map[id].record) # "none"
      BY <2>13, <3>1 DEF ReadChunk
    <3>3. cmd = "x" /\ ReadFooter(img) = "ok"
      BY <3>2, Opened DEF UseInv, OpenInv
    <3>4. ASSUME tested, id \notin DOMAIN chunk_map, Leads PROVE ~ AllOrdered
      <4>1. Led /\ ScanInv
        BY <3>4 DEF Leads, Led, TestInv
      <4>2. AllHeads
        BY <2>1, <3>3, <3>4, <4>1, GoodHeads DEF ScanInv
      <4> QED
        BY <3>1, <3>2, <3>4, <4>1, <4>2, GoodRead, EntInOrder
    <3>5. ASSUME tested, id \in DOMAIN chunk_map
          PROVE  ChunkError(chunk_map[id].at, chunk_map[id].record) = "none"
      BY <3>3, <3>5 DEF TestInv, TrailInv
    <3>6. ASSUME tested, id \notin DOMAIN chunk_map, res' = "InvalidChunk"
          PROVE  TestPredictsExtract'
      BY <2>1, <2>o, <3>4, <3>6 DEF TestPredictsExtract, Leads
    <3> QED
      BY <2>2, <2>3, <2>4, <3>2, <3>5, <3>6
  <2> QED
    BY <1>3, <2>5, <2>6, <2>7, <2>8, <2>9, <2>10, <2>11, <2>12, <2>13 DEF ReaderStep, ReadStep
<1> QED
  BY <1>1, <1>2, <1>3, SystemSteps DEF UseInv

\* What `axc t` called OK, `axc x` extracts without finding fault with the bytes
\* of a chunk, whatever was damaged before: the two walk over the same records,
\* also where the walk ends early.  Each of the errors that remain has a cause of
\* its own, which `axc t` does not look at (archive.rs:404-425).
THEOREM TestedIsExtractable == SystemSpec => []TestPredictsExtract
<1> DEFINE Inv == SafeInv /\ TestInv /\ TestPredictsExtract
<1>1. SystemInit => Inv
  BY SafeInit, ScanInit, TrailInit DEF SystemInit, TestInv, TestPredictsExtract
<1>2. Inv /\ [SystemNext]_systemVars => Inv'
  BY SafeStep, TestInvStep, TestedStep DEF SafeInv
<1>3. Inv => TestPredictsExtract
  OBVIOUS
<1> HIDE DEF Inv
<1> QED
  BY <1>1, <1>2, <1>3, PTL DEF SystemSpec

\* What a chunk that is read adds: it is one that was put in.
LEMMA ReadsChunk ==
  ASSUME SafeInv, ReadChunk
  PROVE  /\ UNCHANGED <<outdir, extracted, verified, options, before, runs>>
         /\ rpc = "chunks"
         /\ \/ rpc' = "idle" /\ ResetLocals /\ total' = total
            \/ \E chunk \in InputChunks :
                 /\ total' = total + Len(chunk)
                 /\ \/ rpc' = "idle" /\ ResetLocals
                    \/ /\ rpc' = "chunks" /\ total' <= limit
                       /\ file_data' = file_data \o chunk /\ UNCHANGED <<ent, pos, chunk_map>>
                       /\ chunk_idx' = chunk_idx + 1
<1> DEFINE id == Entry.first_chunk + chunk_idx
           at == chunk_map[id].at
           record == chunk_map[id].record
           error == IF id \notin DOMAIN chunk_map THEN "InvalidChunk" ELSE ChunkError(at, record)
           decompressed == Decompress(PayloadOf(at, record), record.original_len)
<1>1. /\ UNCHANGED <<outdir, extracted, verified, options, before, runs>>
      /\ rpc = "chunks"
      /\ \/ error # "none" /\ rpc' = "idle" /\ ResetLocals /\ total' = total
         \/ /\ error = "none"
            /\ total' = total + Len(decompressed)
            /\ \/ rpc' = "idle" /\ ResetLocals
               \/ /\ rpc' = "chunks" /\ total' <= limit
                  /\ file_data' = file_data \o decompressed /\ UNCHANGED <<ent, pos, chunk_map>>
                  /\ chunk_idx' = chunk_idx + 1
  BY DEF ReadChunk, Finish, Continue, PayloadOf
<1>2. ASSUME error = "none" PROVE decompressed \in InputChunks
  <2>1. id \in DOMAIN chunk_map /\ ChunkError(at, record) = "none" /\ phase = "use"
    BY <1>1, <1>2 DEF SafeInv, UseInv, ImgInv
  <2>2. at \in DOMAIN img /\ record = img[at] /\ IsChunk(img[at])
    BY <2>1 DEF SafeInv, MapInv
  <2>3. PICK p : p = at
    OBVIOUS
  <2>4. PICK chunk \in InputChunks : IsRecord(p, chunk)
    BY <2>1, <2>2, <2>3, SeenChunk DEF SafeInv
  <2>5. chunk \in Seq(Bytes) /\ Len(chunk) > 0
    BY <2>4, InputChunkType, ChunkSizeAssumption DEF SafeInv
  <2>6. Decompress(PayloadOf(p, img[p]), img[p].original_len) = chunk
    BY <2>1, <2>2, <2>3, <2>4, <2>5, GoodChunk DEF SafeInv
  <2> QED
    BY <2>2, <2>3, <2>4, <2>6
<1> HIDE DEF error, decompressed
<1> QED
  BY <1>1, <1>2

-----------------------------------------------------------------------------
(* The types of the reader, and where it may write. *)

\* A path that leads to something below the output directory.
Inside(path) == path # <<>> /\ \A i \in DOMAIN path : Normal(path[i])

PlaceInv ==
  /\ DOMAIN fs \cap dirs = {}
  /\ \A path \in DOMAIN fs \cup dirs : Inside(path)
  /\ rpc \in {"chunks", "write", "mode"} => Dest # <<>>
  /\ rpc \in {"write", "mode"} => Dest \in DOMAIN fs

\* Whatever the storage made of it, the name of an entry is a list of components,
\* and its path and the directories on the way are below the output directory.
LEMMA EntryInside ==
  ASSUME UseInv, rpc \in {"entry", "chunks", "write", "mode"}, ent <= Len(Entries),
         Dest # <<>>
  PROVE  /\ Len(Dest) \in Nat /\ Inside(Dest)
         /\ \A path \in Parents(Dest) : Inside(path)
<1>1. ReadFooter(img) = "ok" /\ ReadIndex(img) = "ok" /\ phase = "use" /\ ent \in Nat \ {0}
  BY Opened DEF UseInv, OpenInv, ImgInv
<1>2. Len(Entries) = Len(files) /\ Len(files) \in Nat
  BY <1>1, IndexSeen, GivenFiles DEF UseInv
<1>3. ent \in 1 .. Len(files)
  BY <1>1, <1>2
<1>4. /\ entries[ent] \in EntryRecords
      /\ \/ Entry = entries[ent]
         \/ \E seen \in DamagedCells(EntryCell(entries[ent]), damage) :
              seen.k = "entry" /\ Entry = seen.e
  BY <1>1, <1>3, IndexSeen DEF UseInv, Entry
<1>5. Entry.name \in {entries[ent].name, <<ParentDir, "a">>, <<RootDir, "a">>, <<"e", CurDir, "a">>}
  <2>1. EntryCell(entries[ent]) \in EntryCells /\ EntryCell(entries[ent]).e = entries[ent]
    BY <1>4 DEF EntryCell, EntryCells
  <2> QED
    BY <1>4, <2>1, DamagedEntry
<1>6. Len(Entry.name) \in Nat
  BY <1>4, <1>5 DEF EntryRecords
<1>7. PICK S : Dest \in Seq(S)
  BY <1>6, SanitiseNormal DEF Dest
<1>8. \A i \in DOMAIN Dest : Normal(Dest[i])
  BY <1>6, SanitiseNormal DEF Dest
<1>n. Len(Dest) \in Nat
  BY <1>7
<1>9. ASSUME NEW path \in Parents(Dest) PROVE Inside(path)
  <2>1. PICK n \in 1 .. Len(Dest) - 1 : path = SubSeq(Dest, 1, n)
    BY <1>9 DEF Parents
  <2>2. n \in 0 .. Len(Dest) /\ n # 0
    BY <1>7, <2>1
  <2>3. Len(path) = n /\ DOMAIN path = 1 .. n /\ \A i \in 1 .. n : path[i] = Dest[i]
    BY <1>7, <2>1, <2>2, SubSeqProperties
  <2>4. DOMAIN Dest = 1 .. Len(Dest) /\ Len(Dest) \in Nat
    BY <1>7
  <2>5. path # <<>>
    BY <2>2, <2>3
  <2> QED
    BY <1>8, <2>2, <2>3, <2>4, <2>5 DEF Inside
<1> QED
  BY <1>8, <1>9, <1>n DEF Inside

LEMMA PlaceInit == SystemInit => PlaceInv
<1> SUFFICES ASSUME SystemInit PROVE PlaceInv
  OBVIOUS
<1>1. PICK place \in Places : fs = place.fs /\ dirs = place.dirs
  BY DEF SystemInit, ReadInit
<1> QED
  BY <1>1, PlacesAssumption DEF SystemInit, ReadInit, PlaceInv, Inside

LEMMA PlaceStep == SafeInv /\ PlaceInv /\ [SystemNext]_systemVars => PlaceInv'
<1> SUFFICES ASSUME SafeInv, PlaceInv, [SystemNext]_systemVars PROVE PlaceInv'
  OBVIOUS
<1> USE DEF Finish, Continue, ResetLocals, locals, outdir, options, results
<1>1. CASE UNCHANGED systemVars
  <2>1. UNCHANGED <<rpc, fs, dirs, ent, img>>
    BY <1>1 DEF systemVars, readerVars
  <2> QED
    BY <2>1 DEF PlaceInv, Dest, Entry, Entries, Inside
<1>2. CASE ReaderIdles
  BY <1>2 DEF ReaderIdles, readerVars, PlaceInv
<1>3. CASE ReaderStep
  <2>1. img' = img /\ Entries' = Entries
    BY <1>3 DEF ReaderStep, Entries
  <2>2. ASSUME rpc' \in {"idle", "open", "scan", "entry"}, UNCHANGED <<fs, dirs>>
        PROVE  PlaceInv'
    BY <2>2 DEF PlaceInv, Inside
  <2>3. CASE Command
    <3>1. rpc' = "open" /\ UNCHANGED <<fs, dirs>>
      BY <2>3 DEF Command, ExtractCommand, ListCommand, TestCommand, Start
    <3> QED
      BY <2>2, <3>1
  <2>4. CASE OpenRefused \/ OpenList \/ TestEnd \/ EndExtract \/ RefuseEntry
    <3>1. rpc' = "idle" /\ UNCHANGED <<fs, dirs>>
      BY <2>4 DEF OpenRefused, OpenList, TestEnd, EndExtract, RefuseEntry
    <3> QED
      BY <2>2, <3>1
  \* Directories that are made on the way to an entry, by a step that leaves the
  \* files as they are.
  <2>d. ASSUME rpc = "entry", ent <= Len(Entries), Dest # <<>>, ~ Blocked(Dest), fs' = fs,
               NEW made \in SUBSET Parents(Dest), dirs' = dirs \cup made,
               rpc' \in {"idle", "entry"} \/ (rpc' = "chunks" /\ ent' = ent)
        PROVE  PlaceInv'
    <3>1. \A path \in made : Inside(path) /\ path \notin DOMAIN fs
      BY <2>d, EntryInside DEF SafeInv, Blocked
    <3>2. rpc' = "chunks" => Dest' = Dest
      BY <2>1, <2>d DEF Dest, Entry
    <3> QED
      BY <2>d, <3>1, <3>2 DEF PlaceInv, Inside
  <2>5. CASE OpenExtract \/ OpenTest \/ ScanRecord \/ TestRecord \/ ScanEnd
    <3>1. rpc' \in {"idle", "scan", "entry"} /\ UNCHANGED <<fs, dirs>>
      BY <2>5 DEF OpenExtract, OpenTest, StartScan, ScanRecord, TestRecord, ScanEnd
    <3> QED
      BY <2>2, <3>1
  <2>6. CASE SkipEntry \/ StartEntry
    <3>1. /\ rpc = "entry" /\ ent <= Len(Entries) /\ Dest # <<>> /\ ~ Blocked(Dest)
          /\ fs' = fs /\ dirs' = dirs \cup Parents(Dest)
          /\ rpc' = "entry" \/ (rpc' = "chunks" /\ ent' = ent)
      BY <2>6 DEF SkipEntry, StartEntry, EntryReady
    <3> QED
      BY <2>d, <3>1
  <2>7. CASE ReadChunk
    <3>1. /\ rpc = "chunks" /\ UNCHANGED <<fs, dirs>>
          /\ rpc' = "idle" \/ (rpc' = "chunks" /\ ent' = ent)
      BY <2>7 DEF ReadChunk
    <3>2. rpc' = "chunks" => Dest' = Dest
      BY <2>1, <3>1 DEF Dest, Entry
    <3> QED
      BY <3>1, <3>2 DEF PlaceInv, Inside
  <2>9. CASE (IoError \/ Die) /\ SomeParents
    <3>1. /\ rpc = "entry" /\ rpc' = "idle" /\ ent <= Len(Entries) /\ Dest # <<>>
          /\ ~ Blocked(Dest) /\ fs' = fs
          /\ \E n \in 0 .. Len(Dest) - 1 :
               dirs' = dirs \cup {SubSeq(Dest, 1, i) : i \in 1 .. n}
      BY <2>9 DEF SomeParents, IoError, Die
    <3>2. PICK n \in 0 .. Len(Dest) - 1 :
            dirs' = dirs \cup {SubSeq(Dest, 1, i) : i \in 1 .. n}
      BY <3>1
    <3>3. Len(Dest) \in Nat
      BY <3>1, EntryInside DEF SafeInv
    <3>4. {SubSeq(Dest, 1, i) : i \in 1 .. n} \subseteq Parents(Dest)
      BY <3>2, <3>3 DEF Parents
    <3> QED
      BY <2>d, <3>1, <3>2, <3>4
  <2>8. CASE CreateFile \/ WriteFile \/ SetMode \/ ((IoError \/ Die) /\ UNCHANGED dirs)
    <3>1. \/ UNCHANGED <<fs, dirs>> /\ rpc' \in {"idle", "entry"}
          \/ /\ rpc \in {"chunks", "write", "mode"} /\ dirs' = dirs
             /\ \E data, mode : SetFile(Dest, data, mode)
             /\ rpc = "chunks" => Dest \notin dirs
             /\ rpc' \in {"idle", "entry"} \/ (rpc' \in {"write", "mode"} /\ ent' = ent)
      BY <2>8 DEF CreateFile, WriteFile, SetMode, IoError, Die, TornWrite, Creatable
    <3>2. CASE UNCHANGED <<fs, dirs>> /\ rpc' \in {"idle", "entry"}
      BY <2>2, <3>2
    <3>3. CASE /\ rpc \in {"chunks", "write", "mode"} /\ dirs' = dirs
               /\ \E data, mode : SetFile(Dest, data, mode)
               /\ rpc = "chunks" => Dest \notin dirs
               /\ rpc' \in {"idle", "entry"} \/ (rpc' \in {"write", "mode"} /\ ent' = ent)
      <4>1. DOMAIN fs' = DOMAIN fs \cup {Dest}
        BY <3>3 DEF SetFile
      <4>2. Inside(Dest) /\ Dest \notin dirs
        BY <3>3, EntryInside DEF SafeInv, UseInv, OpenInv, PlaceInv
      <4>3. rpc' \in {"write", "mode"} => Dest' = Dest
        BY <2>1, <3>3 DEF Dest, Entry
      <4> QED
        BY <3>3, <4>1, <4>2, <4>3 DEF PlaceInv, Inside
    <3> QED
      BY <3>1, <3>2, <3>3
  <2>10. IoError \/ Die => SomeParents \/ UNCHANGED dirs
    BY DEF IoError, Die
  <2> QED
    BY <1>3, <2>3, <2>4, <2>5, <2>6, <2>7, <2>8, <2>9, <2>10 DEF ReaderStep, ReadStep
<1> QED
  BY <1>1, <1>2, <1>3, SystemSteps DEF SafeInv, UseInv

\* Whatever name an entry has got, every path that extraction makes stays below
\* the output directory, that of a directory on the way included: every archive,
\* every damage, every fault and every number of workers (archive.rs:27-60).
THEOREM ExtractsInside == SystemSpec => []StaysInside
<1>1. SystemInit => SafeInv /\ PlaceInv
  BY SafeInit, PlaceInit
<1>2. SafeInv /\ PlaceInv /\ [SystemNext]_systemVars => (SafeInv /\ PlaceInv)'
  BY SafeStep, PlaceStep
<1>3. PlaceInv => StaysInside
  BY DEF PlaceInv, Inside, StaysInside
<1> QED
  BY <1>1, <1>2, <1>3, PTL DEF SystemSpec

\* The counters and the options of a command, and where what it reports is.
CountInv ==
  /\ overwrite \in BOOLEAN /\ limit \in Limits \cup {0}
  /\ total \in Nat /\ verified \in Nat /\ runs \in 0 .. MaxRuns
  /\ \A i \in DOMAIN extracted : extracted[i] \in DOMAIN fs

LEMMA CountInit == SystemInit => CountInv
<1> SUFFICES ASSUME SystemInit PROVE CountInv
  OBVIOUS
<1>1. /\ overwrite = FALSE /\ limit = 0 /\ total = 0 /\ verified = 0 /\ runs = 0
      /\ extracted = <<>>
  BY DEF SystemInit, ReadInit
<1>2. DOMAIN extracted = {}
  BY <1>1
<1>4. overwrite \in BOOLEAN
  BY <1>1
<1>3. total \in Nat /\ verified \in Nat /\ runs \in 0 .. MaxRuns /\ limit \in Limits \cup {0}
  BY <1>1, MaxRunsAssumption
<1> QED
  BY <1>2, <1>3, <1>4 DEF CountInv

LEMMA CountStep ==
  SafeInv /\ PlaceInv /\ CountInv /\ [SystemNext]_systemVars => CountInv'
<1> SUFFICES ASSUME SafeInv, PlaceInv, CountInv, [SystemNext]_systemVars PROVE CountInv'
  OBVIOUS
<1> USE DEF Finish, Continue, ResetLocals, locals, outdir, options, results
<1>1. CASE UNCHANGED systemVars \/ ReaderIdles
  BY <1>1 DEF systemVars, ReaderIdles, readerVars, CountInv
<1>2. CASE ReaderStep
  <2>1. ASSUME UNCHANGED <<overwrite, limit, runs, extracted>>, DOMAIN fs \subseteq DOMAIN fs',
               total' \in Nat, verified' \in Nat
        PROVE  CountInv'
    BY <2>1 DEF CountInv
  <2>2. CASE Command
    <3>1. /\ overwrite' \in BOOLEAN /\ limit' \in Limits \cup {0}
          /\ runs < MaxRuns /\ runs' = runs + 1
          /\ total' = 0 /\ verified' = 0 /\ extracted' = <<>>
      BY <2>2 DEF Command, ExtractCommand, ListCommand, TestCommand, Start
    <3> QED
      BY <3>1, MaxRunsAssumption DEF CountInv
  <2>3. CASE \/ OpenRefused \/ OpenList \/ OpenExtract \/ OpenTest \/ ScanRecord \/ ScanEnd
             \/ TestEnd \/ RefuseEntry \/ SkipEntry \/ StartEntry \/ EndExtract \/ IoError
    <3>1. UNCHANGED <<overwrite, limit, runs, extracted, fs, total, verified>>
      BY <2>3 DEF OpenRefused, OpenList, OpenExtract, OpenTest, StartScan, ScanRecord, ScanEnd,
                  TestEnd, RefuseEntry, SkipEntry, StartEntry, EntryReady, EndExtract, IoError
    <3> QED
      BY <2>1, <3>1 DEF CountInv
  <2>4. CASE TestRecord
    <3>1. UNCHANGED <<overwrite, limit, runs, extracted, fs, total>>
          /\ verified' \in {verified, verified + 1}
      BY <2>4 DEF TestRecord
    <3> QED
      BY <2>1, <3>1 DEF CountInv
  <2>5. CASE ReadChunk
    <3>1. /\ UNCHANGED <<overwrite, limit, runs, extracted, fs, verified>>
          /\ total' = total \/ \E chunk \in InputChunks : total' = total + Len(chunk)
      BY <2>5, ReadsChunk
    <3>2. total' \in Nat
      <4>1. \A chunk \in InputChunks : Len(chunk) \in Nat
        BY InputChunkType DEF SafeInv
      <4> QED
        BY <3>1, <4>1 DEF CountInv
    <3> QED
      BY <2>1, <3>1, <3>2 DEF CountInv
  <2>6. CASE CreateFile \/ WriteFile \/ Die
    <3>1. UNCHANGED <<overwrite, limit, runs, extracted, total, verified>>
          /\ (fs' = fs \/ \E data, mode : SetFile(Dest, data, mode))
      BY <2>6 DEF CreateFile, WriteFile, Die, TornWrite
    <3>2. DOMAIN fs \subseteq DOMAIN fs'
      BY <3>1 DEF SetFile
    <3> QED
      BY <2>1, <3>1, <3>2 DEF CountInv
  <2>7. CASE SetMode
    <3>1. /\ UNCHANGED <<overwrite, limit, runs, total, verified>>
          /\ extracted' = Append(extracted, Dest) /\ rpc = "mode"
          /\ (fs' = fs \/ \E data, mode : SetFile(Dest, data, mode))
      BY <2>7 DEF SetMode
    <3>2. DOMAIN fs \subseteq DOMAIN fs' /\ Dest \in DOMAIN fs'
      BY <3>1 DEF SetFile, PlaceInv
    <3>3. \A i \in DOMAIN extracted' : extracted'[i] \in DOMAIN fs'
      <4>1. Finished' = Finished \cup {Dest}
        BY <3>1, FinishedAppend DEF SafeInv
      <4>2. Finished \subseteq DOMAIN fs
        BY DEF CountInv, Finished, Range
      <4> QED
        BY <3>2, <4>1, <4>2 DEF Finished, Range
    <3> QED
      BY <3>1, <3>3 DEF CountInv
  <2> QED
    BY <1>2, <2>2, <2>3, <2>4, <2>5, <2>6, <2>7 DEF ReaderStep, ReadStep
<1> QED
  BY <1>1, <1>2, SystemSteps DEF SafeInv, UseInv

\* The reader keeps its variables in their types, never makes a file of a
\* directory and reports only files that are there.
THEOREM ReaderTypes == SystemSpec => []ReadTypeOK
<1> DEFINE Inv == SafeInv /\ PlaceInv /\ CountInv
<1>1. SystemInit => Inv
  BY SafeInit, PlaceInit, CountInit
<1>2. Inv /\ [SystemNext]_systemVars => Inv'
  BY SafeStep, PlaceStep, CountStep
<1>3. Inv => ReadTypeOK
  <2> SUFFICES ASSUME Inv PROVE ReadTypeOK
    OBVIOUS
  <2>1. \A path \in DOMAIN fs : path # <<>> /\ path \notin dirs
    BY DEF PlaceInv, Inside
  <2>2. /\ pos \in Nat /\ ent \in Nat /\ chunk_idx \in Nat
        /\ cmd \in {"none", "x", "l", "t"}
        /\ rpc \in {"idle", "open", "scan", "entry", "chunks", "write", "mode"}
        /\ rpc \in {"entry", "chunks", "write", "mode"} => cmd = "x"
        /\ res = "none" \/ rpc = "idle"
    BY DEF SafeInv, UseInv, OpenInv, MapInv, TornInv
  <2>3. ASSUME NEW id \in DOMAIN chunk_map PROVE chunk_map[id].at \in 0 .. Len(img)
    <3>1. phase = "use"
      BY DEF SafeInv, UseInv, ImgInv, MapInv
    <3> QED
      BY <3>1 DEF SafeInv, UseInv, ImgInv, MapInv
  <2> QED
    BY <2>1, <2>2, <2>3 DEF CountInv, ReadTypeOK
<1> HIDE DEF Inv
<1> QED
  BY <1>1, <1>2, <1>3, PTL DEF SystemSpec


-----------------------------------------------------------------------------
(* Sums. *)

\* h is such a function, up to n.
AddsUp(h, lens, n) ==
  h = [i \in 0 .. n |-> IF i = 0 THEN 0 ELSE h[i - 1] + lens[i]]

LEMMA SumsUnfold ==
  ASSUME NEW lens, Len(lens) \in Nat, \A i \in 1 .. Len(lens) : lens[i] \in Nat
  PROVE  /\ Sums(lens) \in [0 .. Len(lens) -> Nat]
         /\ Sums(lens)[0] = 0
         /\ \A i \in 1 .. Len(lens) : Sums(lens)[i] = Sums(lens)[i - 1] + lens[i]
<1> DEFINE n == Len(lens)
           K == {m \in 0 .. n : \E h : AddsUp(h, lens, m)}
<1>1. \A i \in 0 .. n : i \in K
  <2>1. 0 \in K
    <3> DEFINE h == [i \in 0 .. 0 |-> 0]
    <3>1. AddsUp(h, lens, 0)
      BY DEF AddsUp
    <3> QED
      BY <3>1
  <2>2. ASSUME NEW m \in 1 .. n, m - 1 \in K PROVE m \in K
    <3>1. PICK g : AddsUp(g, lens, m - 1)
      BY <2>2
    <3> DEFINE h == [i \in 0 .. m |-> IF i = m THEN g[m - 1] + lens[m] ELSE g[i]]
    <3>2. AddsUp(h, lens, m)
      <4>1. ASSUME NEW i \in 0 .. m
            PROVE  h[i] = IF i = 0 THEN 0 ELSE h[i - 1] + lens[i]
        <5>1. CASE i = m
          BY <5>1
        <5>2. CASE i # m
          <6>1. i \in 0 .. m - 1 /\ h[i] = g[i] /\ (i # 0 => h[i - 1] = g[i - 1])
            BY <5>2
          <6>2. g[i] = IF i = 0 THEN 0 ELSE g[i - 1] + lens[i]
            BY <3>1, <6>1 DEF AddsUp
          <6> QED
            BY <6>1, <6>2
        <5> QED
          BY <5>1, <5>2
      <4> QED
        BY <4>1 DEF AddsUp
    <3> QED
      BY <3>2
  <2> HIDE DEF K
  <2> QED
    BY <2>1, <2>2, Climb
<1>2. \E h : AddsUp(h, lens, n)
  BY <1>1
<1>3. AddsUp(Sums(lens), lens, n)
  BY <1>2 DEF Sums, AddsUp
<1>4. /\ Sums(lens)[0] = 0
      /\ \A i \in 1 .. n : Sums(lens)[i] = Sums(lens)[i - 1] + lens[i]
  BY <1>3 DEF AddsUp
<1>5. \A i \in 0 .. n : Sums(lens)[i] \in Nat
  <2> DEFINE J == {m \in 0 .. n : Sums(lens)[m] \in Nat}
  <2>1. 0 \in J
    BY <1>4
  <2>2. ASSUME NEW m \in 1 .. n, m - 1 \in J PROVE m \in J
    BY <1>4, <2>2
  <2> HIDE DEF J
  <2>3. \A i \in 0 .. n : i \in J
    BY <2>1, <2>2, Climb
  <2> QED
    BY <2>3 DEF J
<1> QED
  BY <1>3, <1>4, <1>5 DEF AddsUp

Numbers(list) == Len(list) \in Nat /\ \A i \in 1 .. Len(list) : list[i] \in Nat

LEMMA MoreAndMore ==
  ASSUME NEW p \in Nat, NEW q \in Nat, NEW c \in Nat, NEW d \in Nat, NEW x \in Nat
  PROVE  /\ p <= q /\ c <= d => p + c <= q + d
         /\ p <= q /\ c <= d + x => p + c <= q + d + x
         /\ p <= q + x /\ c <= d => p + c <= q + d + x
  OBVIOUS

\* Sums grow with their parts: by x, where one part is larger by x.
LEMMA SumsGrow ==
  ASSUME NEW a, NEW b, Numbers(a), Numbers(b), NEW n \in Nat, n <= Len(a), n <= Len(b),
         NEW j, NEW x \in Nat,
         \A i \in 1 .. n : IF i = j THEN a[i] <= b[i] + x ELSE a[i] <= b[i]
  PROVE  /\ Sums(a)[n] <= Sums(b)[n] + x
         /\ j \notin 1 .. n => Sums(a)[n] <= Sums(b)[n]
<1> DEFINE K == {m \in 0 .. n : /\ Sums(a)[m] <= Sums(b)[m] + x
                                /\ j \notin 1 .. m => Sums(a)[m] <= Sums(b)[m]}
<1>1. /\ Len(a) \in Nat /\ \A i \in 1 .. Len(a) : a[i] \in Nat
      /\ Len(b) \in Nat /\ \A i \in 1 .. Len(b) : b[i] \in Nat
  BY DEF Numbers
<1>2. /\ \A m \in 0 .. n : Sums(a)[m] \in Nat
      /\ Sums(a)[0] = 0
      /\ \A m \in 1 .. n : Sums(a)[m] = Sums(a)[m - 1] + a[m]
  <2>1. /\ Sums(a) \in [0 .. Len(a) -> Nat] /\ Sums(a)[0] = 0
        /\ \A m \in 1 .. Len(a) : Sums(a)[m] = Sums(a)[m - 1] + a[m]
    BY <1>1, SumsUnfold
  <2>2. \A m \in 0 .. n : m \in 0 .. Len(a)
    BY <1>1
  <2>3. \A m \in 1 .. n : m \in 1 .. Len(a)
    BY <1>1
  <2> QED
    BY <2>1, <2>2, <2>3
<1>3. /\ \A m \in 0 .. n : Sums(b)[m] \in Nat
      /\ Sums(b)[0] = 0
      /\ \A m \in 1 .. n : Sums(b)[m] = Sums(b)[m - 1] + b[m]
  <2>1. /\ Sums(b) \in [0 .. Len(b) -> Nat] /\ Sums(b)[0] = 0
        /\ \A m \in 1 .. Len(b) : Sums(b)[m] = Sums(b)[m - 1] + b[m]
    BY <1>1, SumsUnfold
  <2>2. \A m \in 0 .. n : m \in 0 .. Len(b)
    BY <1>1
  <2>3. \A m \in 1 .. n : m \in 1 .. Len(b)
    BY <1>1
  <2> QED
    BY <2>1, <2>2, <2>3
<1>4. 0 \in K
  BY <1>2, <1>3
<1>5. ASSUME NEW m \in 1 .. n, m - 1 \in K PROVE m \in K
  <2>1. /\ Sums(a)[m - 1] \in Nat /\ Sums(b)[m - 1] \in Nat /\ a[m] \in Nat /\ b[m] \in Nat
        /\ Sums(a)[m] = Sums(a)[m - 1] + a[m] /\ Sums(b)[m] = Sums(b)[m - 1] + b[m]
    BY <1>1, <1>2, <1>3
  <2>2. /\ Sums(a)[m - 1] <= Sums(b)[m - 1] + x
        /\ j \notin 1 .. m - 1 => Sums(a)[m - 1] <= Sums(b)[m - 1]
    BY <1>5
  <2>3. /\ Sums(a)[m] <= Sums(b)[m] + x
        /\ j \notin 1 .. m => Sums(a)[m] <= Sums(b)[m]
    <3>1. CASE m = j
      <4>1. j \in 1 .. m /\ Sums(a)[m - 1] <= Sums(b)[m - 1]
        BY <2>2, <3>1
      <4>2. a[m] <= b[m] + x
        BY <3>1
      <4>3. Sums(a)[m - 1] + a[m] <= Sums(b)[m - 1] + b[m] + x
        BY <2>1, <4>1, <4>2, MoreAndMore
      <4> QED
        BY <2>1, <4>1, <4>3
    <3>2. CASE m # j
      <4>1. a[m] <= b[m] /\ (j \notin 1 .. m => j \notin 1 .. m - 1)
        BY <3>2
      <4>2. Sums(a)[m - 1] + a[m] <= Sums(b)[m - 1] + b[m] + x
        BY <2>1, <2>2, <4>1, MoreAndMore
      <4>3. Sums(a)[m - 1] <= Sums(b)[m - 1] => Sums(a)[m - 1] + a[m] <= Sums(b)[m - 1] + b[m]
        BY <2>1, <4>1, MoreAndMore
      <4> QED
        BY <2>1, <2>2, <4>1, <4>2, <4>3
    <3> QED
      BY <3>1, <3>2
  <2>4. m \in 0 .. n
    OBVIOUS
  <2> QED
    BY <2>3, <2>4
<1> HIDE DEF K
<1>6. n \in K
  <2>1. \A i \in 0 .. n : i \in K
    BY <1>4, <1>5, Climb
  <2> QED
    BY <2>1
<1> QED
  BY <1>6 DEF K

\* A sum counts only the parts up to n.
LEMMA SumsBelow ==
  ASSUME NEW a, NEW b, Numbers(a), Numbers(b), NEW n \in Nat, n <= Len(a), n <= Len(b),
         \A i \in 1 .. n : a[i] <= b[i]
  PROVE  Sums(a)[n] <= Sums(b)[n]
<1>1. \A i \in 1 .. n : IF i = 0 THEN a[i] <= b[i] + 0 ELSE a[i] <= b[i]
  OBVIOUS
<1>2. 0 \notin 1 .. n /\ 0 \in Nat
  OBVIOUS
<1> QED
  BY <1>1, <1>2, SumsGrow

LEMMA TotalNat ==
  ASSUME NEW a, Numbers(a)
  PROVE  Total(a) \in Nat
  BY SumsUnfold DEF Numbers, Total

-----------------------------------------------------------------------------
(* What an extraction has left in files, counted. *)

\* As Held, but for any files and any list of paths, and without some paths.
HeldOf(f, list, S) ==
  [i \in DOMAIN list |->
     IF (\A j \in i + 1 .. Len(list) : list[j] # list[i]) /\ list[i] \notin S
     THEN Len(f[list[i]].data) ELSE 0]

HeldBut(S) == HeldOf(fs, extracted, S)

InHand == IF rpc \in {"write", "mode"} THEN {Dest} ELSE {}
Loaded == IF rpc \in {"chunks", "write", "mode"} THEN Len(file_data) ELSE 0

SizeInv ==
  /\ file_data \in Seq(Bytes)
  /\ \A path \in Finished : fs[path].data \in Seq(Bytes)
  /\ rpc \in {"write", "mode"} =>
       fs[Dest].data \in Seq(Bytes) /\ Len(fs[Dest].data) <= Len(file_data)
  /\ cmd = "x" => Total(Held) <= limit
  /\ cmd = "x" /\ rpc # "idle" => total <= limit /\ Total(HeldBut(InHand)) + Loaded <= total


\* The files of a list of paths hold bytes.
FilesOf(f, list) ==
  /\ Len(list) \in Nat /\ DOMAIN list = 1 .. Len(list)
  /\ \A i \in 1 .. Len(list) : f[list[i]].data \in Seq(Bytes)

LastIn(list, i) == \A j \in i + 1 .. Len(list) : list[j] # list[i]

\* What is counted is a list of numbers.
LEMMA HeldNumbers ==
  ASSUME NEW f, NEW list, FilesOf(f, list), NEW S
  PROVE  /\ Numbers(HeldOf(f, list, S)) /\ Len(HeldOf(f, list, S)) = Len(list)
         /\ \A i \in 1 .. Len(list) :
              HeldOf(f, list, S)[i] = IF LastIn(list, i) /\ list[i] \notin S
                                      THEN Len(f[list[i]].data) ELSE 0
<1>1. /\ Len(list) \in Nat /\ DOMAIN list = 1 .. Len(list)
      /\ \A i \in 1 .. Len(list) : Len(f[list[i]].data) \in Nat
  BY DEF FilesOf
<1>2. HeldOf(f, list, S) = [i \in 1 .. Len(list) |->
                      IF LastIn(list, i) /\ list[i] \notin S THEN Len(f[list[i]].data) ELSE 0]
  BY <1>1 DEF HeldOf, LastIn
<1>3. Len(HeldOf(f, list, S)) = Len(list)
  BY <1>1, <1>2
<1>4. \A i \in 1 .. Len(list) :
              HeldOf(f, list, S)[i] = IF LastIn(list, i) /\ list[i] \notin S
                              THEN Len(f[list[i]].data) ELSE 0
  BY <1>2
<1>5. \A i \in 1 .. Len(list) : HeldOf(f, list, S)[i] \in Nat
  BY <1>1, <1>4
<1> QED
  BY <1>1, <1>3, <1>4, <1>5 DEF Numbers

LEMMA AllHeld ==
  ASSUME NEW f, NEW list, FilesOf(f, list)
  PROVE  /\ Numbers(HeldOf(f, list, {})) /\ Len(HeldOf(f, list, {})) = Len(list)
         /\ \A i \in 1 .. Len(list) :
              HeldOf(f, list, {})[i] = IF LastIn(list, i) THEN Len(f[list[i]].data) ELSE 0
<1> DEFINE h == HeldOf(f, list, {})
<1>1. /\ Numbers(h) /\ Len(h) = Len(list)
      /\ \A i \in 1 .. Len(list) :
              h[i] = IF LastIn(list, i) /\ list[i] \notin {} THEN Len(f[list[i]].data) ELSE 0
  BY HeldNumbers
<1> HIDE DEF h
<1>2. \A i \in 1 .. Len(list) : h[i] = IF LastIn(list, i) THEN Len(f[list[i]].data) ELSE 0
  BY <1>1
<1> QED
  BY <1>1, <1>2 DEF h

\* A file that holds x bytes adds x at most.
LEMMA CountedOnce ==
  ASSUME NEW f, NEW list, FilesOf(f, list),
         NEW dest, NEW x \in Nat,
         \A i \in 1 .. Len(list) : list[i] = dest => Len(f[dest].data) <= x
  PROVE  /\ Total(HeldOf(f, list, {})) <= Total(HeldOf(f, list, {dest})) + x
         /\ Total(HeldOf(f, list, {dest})) <= Total(HeldOf(f, list, {}))
         /\ Total(HeldOf(f, list, {})) \in Nat /\ Total(HeldOf(f, list, {dest})) \in Nat
<1> DEFINE a == HeldOf(f, list, {})
           b == HeldOf(f, list, {dest})
<1>0. PICK n : n = Len(list)
  OBVIOUS
<1>1. /\ Numbers(a) /\ Len(a) = n /\ n \in Nat
      /\ \A i \in 1 .. n : a[i] = IF LastIn(list, i) THEN Len(f[list[i]].data) ELSE 0
  BY <1>0, AllHeld DEF FilesOf
<1>2. /\ Numbers(b) /\ Len(b) = n
      /\ \A i \in 1 .. n : b[i] = IF LastIn(list, i) /\ list[i] # dest
                                  THEN Len(f[list[i]].data) ELSE 0
  BY <1>0, HeldNumbers
<1>3. /\ \A i \in 1 .. n : a[i] \in Nat /\ b[i] \in Nat
      /\ Total(a) \in Nat /\ Total(b) \in Nat
      /\ Total(a) = Sums(a)[n] /\ Total(b) = Sums(b)[n]
  BY <1>1, <1>2, TotalNat DEF Numbers, Total
<1> HIDE DEF a, b
<1>4. \A i \in 1 .. n : b[i] <= a[i]
  <2> SUFFICES ASSUME NEW i \in 1 .. n PROVE b[i] <= a[i]
    OBVIOUS
  <2>1. b[i] = a[i] \/ b[i] = 0
    BY <1>1, <1>2
  <2> QED
    BY <1>3, <2>1
<1>5. Sums(b)[n] <= Sums(a)[n]
  BY <1>1, <1>2, <1>4, SumsBelow
<1>6. Sums(a)[n] <= Sums(b)[n] + x
  <2>1. CASE \E i \in 1 .. n : LastIn(list, i) /\ list[i] = dest
    <3>1. PICK k \in 1 .. n : LastIn(list, k) /\ list[k] = dest
      BY <2>1
    <3>2. ASSUME NEW i \in 1 .. n
          PROVE  IF i = k THEN a[i] <= b[i] + x ELSE a[i] <= b[i]
      <4>1. CASE i = k
        <5>1. a[i] = Len(f[dest].data) /\ b[i] = 0 /\ Len(f[dest].data) <= x
          BY <1>0, <1>1, <1>2, <3>1, <4>1
        <5> QED
          BY <4>1, <5>1
      <4>2. CASE i # k
        <5>1. ~ (LastIn(list, i) /\ list[i] = dest)
          <6>1. CASE i < k
            <7>1. k \in i + 1 .. Len(list)
              BY <1>0, <1>1, <6>1
            <7> QED
              BY <3>1, <7>1 DEF LastIn
          <6>2. CASE k < i
            <7>1. i \in k + 1 .. Len(list)
              BY <1>0, <1>1, <6>2
            <7> QED
              BY <3>1, <7>1 DEF LastIn
          <6> QED
            BY <4>2, <6>1, <6>2
        <5>2. a[i] = b[i]
          BY <1>1, <1>2, <5>1
        <5> QED
          BY <1>3, <4>2, <5>2
      <4> QED
        BY <4>1, <4>2
    <3>3. Numbers(a) /\ Numbers(b) /\ n \in Nat /\ n <= Len(a) /\ n <= Len(b)
      BY <1>1, <1>2
    <3> QED
      BY <3>2, <3>3, SumsGrow
  <2>2. CASE ~ \E i \in 1 .. n : LastIn(list, i) /\ list[i] = dest
    <3>1. \A i \in 1 .. n : a[i] <= b[i]
      <4>1. \A i \in 1 .. n : a[i] = b[i]
        BY <1>1, <1>2, <2>2
      <4> QED
        BY <1>3, <4>1
    <3>2. Sums(a)[n] <= Sums(b)[n]
      BY <1>1, <1>2, <3>1, SumsBelow
    <3> QED
      BY <1>3, <3>2
  <2> QED
    BY <2>1, <2>2
<1> QED
  BY <1>3, <1>5, <1>6 DEF a, b

\* A change of the file at dest alone is not seen by the others.
LEMMA OthersKeep ==
  ASSUME NEW f, NEW g, NEW list, FilesOf(f, list), NEW dest,
         \A i \in 1 .. Len(list) : list[i] # dest => g[list[i]] = f[list[i]]
  PROVE  HeldOf(g, list, {dest}) = HeldOf(f, list, {dest})
  BY DEF FilesOf, HeldOf

\* A file that is finished is counted from now on, and what was extracted to its
\* path before no more.
LEMMA HeldAppend ==
  ASSUME NEW f, NEW g, NEW list, NEW S, list \in Seq(S), FilesOf(f, list), NEW dest,
         \A i \in 1 .. Len(list) : list[i] # dest => g[list[i]] = f[list[i]],
         g[dest].data \in Seq(Bytes)
  PROVE  Total(HeldOf(g, Append(list, dest), {}))
           = Total(HeldOf(f, list, {dest})) + Len(g[dest].data)
<1>0. PICK n, more : n = Len(list) /\ more = Append(list, dest)
  OBVIOUS
<1> DEFINE b == HeldOf(f, list, {dest})
           h == HeldOf(g, more, {})
<1>1. /\ n \in Nat /\ DOMAIN list = 1 .. n
  BY <1>0
<1>2. /\ Len(more) = n + 1 /\ DOMAIN more = 1 .. n + 1
      /\ more[n + 1] = dest /\ \A i \in 1 .. n : more[i] = list[i]
  <2>1. list \in Seq(S \cup {dest}) /\ dest \in S \cup {dest}
    OBVIOUS
  <2> QED
    BY <1>0, <2>1
<1>3. /\ Numbers(b) /\ Len(b) = n
      /\ \A i \in 1 .. n : b[i] = IF LastIn(list, i) /\ list[i] # dest
                                  THEN Len(f[list[i]].data) ELSE 0
  BY <1>0, HeldNumbers
<1>4. FilesOf(g, more)
  <2>1. \A i \in 1 .. n + 1 : i = n + 1 \/ i \in 1 .. n
    BY <1>1
  <2> QED
    BY <1>0, <1>1, <1>2, <2>1 DEF FilesOf
<1>5. /\ Numbers(h) /\ Len(h) = n + 1
      /\ \A i \in 1 .. n + 1 : h[i] = IF LastIn(more, i) THEN Len(g[more[i]].data) ELSE 0
  BY <1>2, <1>4, AllHeld
<1> HIDE DEF b, h
<1>7. ASSUME NEW i \in 1 .. n PROVE h[i] = b[i]
  <2>1. LastIn(more, i) <=> (LastIn(list, i) /\ list[i] # dest)
    <3>1. LastIn(more, i) <=> \A j \in i + 1 .. n + 1 : more[j] # more[i]
      BY <1>2 DEF LastIn
    <3>2. LastIn(list, i) <=> \A j \in i + 1 .. n : list[j] # list[i]
      BY <1>0 DEF LastIn
    <3>3. /\ n + 1 \in i + 1 .. n + 1
          /\ \A j \in i + 1 .. n + 1 : j = n + 1 \/ (j \in 1 .. n /\ j \in i + 1 .. n)
          /\ \A j \in i + 1 .. n : j \in i + 1 .. n + 1 /\ j \in 1 .. n
      BY <1>1
    <3> QED
      BY <1>2, <3>1, <3>2, <3>3
  <2>2. i \in 1 .. n + 1 /\ more[i] = list[i]
    BY <1>1, <1>2
  <2>3. list[i] # dest => g[list[i]] = f[list[i]]
    BY <1>0
  <2> QED
    BY <1>3, <1>5, <2>1, <2>2, <2>3
<1>8. h[n + 1] = Len(g[dest].data)
  <2>1. LastIn(more, n + 1)
    BY <1>1, <1>2 DEF LastIn
  <2>2. n + 1 \in 1 .. n + 1
    BY <1>1
  <2> QED
    BY <1>2, <1>5, <2>1, <2>2
<1>10. Sums(h)[n] = Sums(b)[n]
  <2>1. \A i \in 1 .. n : h[i] <= b[i] /\ b[i] <= h[i]
    <3>1. \A i \in 1 .. n : b[i] \in Nat
      BY <1>3 DEF Numbers
    <3> QED
      BY <1>7, <3>1
  <2>2. n <= Len(h) /\ n <= Len(b)
    BY <1>1, <1>3, <1>5
  <2>3. Sums(h)[n] <= Sums(b)[n] /\ Sums(b)[n] <= Sums(h)[n]
    BY <1>1, <1>3, <1>5, <2>1, <2>2, SumsBelow
  <2>4. Sums(h)[n] \in Nat /\ Sums(b)[n] \in Nat
    <3>1. n \in 0 .. Len(h) /\ n \in 0 .. Len(b)
      BY <1>1, <1>3, <1>5
    <3>2. /\ Sums(h) \in [0 .. Len(h) -> Nat]
          /\ Sums(b) \in [0 .. Len(b) -> Nat]
      BY <1>3, <1>5, SumsUnfold DEF Numbers
    <3> QED
      BY <3>1, <3>2
  <2> QED
    BY <2>3, <2>4
<1>11. Sums(h)[n + 1] = Sums(h)[n] + h[n + 1]
  <2>1. PICK m : m = n + 1 /\ m - 1 = n /\ m \in 1 .. Len(h)
    BY <1>1, <1>5
  <2>2. \A i \in 1 .. Len(h) : Sums(h)[i] = Sums(h)[i - 1] + h[i]
    BY <1>5, SumsUnfold DEF Numbers
  <2>3. Sums(h)[m] = Sums(h)[m - 1] + h[m]
    BY <2>1, <2>2
  <2> QED
    BY <2>1, <2>3
<1>12. Total(h) = Sums(h)[n + 1]
  BY <1>5 DEF Total
<1>13. Total(b) = Sums(b)[n]
  BY <1>3 DEF Total
<1> QED
  BY <1>0, <1>8, <1>10, <1>11, <1>12, <1>13 DEF b, h

LEMMA HeldIs ==
  Held = HeldOf(fs, extracted, {})
  BY DEF Held, HeldOf, LastOf

LEMMA FinishedFiles ==
  ASSUME TornInv, \A path \in Finished : fs[path].data \in Seq(Bytes)
  PROVE  /\ FilesOf(fs, extracted) /\ \E S : extracted \in Seq(S)
         /\ \A i \in 1 .. Len(extracted) : extracted[i] \in Finished
<1>1. PICK S : extracted \in Seq(S)
  BY DEF TornInv
<1> QED
  BY <1>1 DEF Finished, Range, FilesOf


LEMMA SizeInit == SystemInit => SizeInv
<1> SUFFICES ASSUME SystemInit PROVE SizeInv
  OBVIOUS
<1>1. rpc = "idle" /\ cmd = "none" /\ extracted = <<>> /\ file_data = <<>>
  BY DEF SystemInit, ReadInit
<1>2. Finished = {}
  BY <1>1 DEF Finished, Range
<1>3. file_data \in Seq(Bytes)
  BY <1>1
<1> QED
  BY <1>1, <1>2, <1>3 DEF SizeInv

LEMMA SizeStep ==
  SafeInv /\ CountInv /\ PlaceInv /\ SizeInv /\ [SystemNext]_systemVars => SizeInv'
<1> SUFFICES ASSUME SafeInv, CountInv, PlaceInv, SizeInv, [SystemNext]_systemVars PROVE SizeInv'
  OBVIOUS
<1> USE DEF Finish, Continue, ResetLocals, locals, outdir, options, results
<1>e. <<>> \in Seq(Bytes) /\ Len(<<>>) = 0
  OBVIOUS
<1>1. CASE UNCHANGED systemVars \/ ReaderIdles
  <2>1. UNCHANGED <<rpc, cmd, limit, total, fs, extracted, file_data>>
        /\ (rpc # "idle" => UNCHANGED <<ent, img>>)
    BY <1>1 DEF systemVars, ReaderIdles, readerVars
  <2>2. Finished' = Finished /\ Held' = Held /\ (rpc # "idle" => Dest' = Dest)
    BY <2>1 DEF Finished, Held, LastOf, Dest, Entry, Entries
  <2>3. rpc # "idle" => HeldBut(InHand)' = HeldBut(InHand) /\ Loaded' = Loaded
    BY <2>1, <2>2 DEF HeldBut, InHand, Loaded
  <2> QED
    BY <2>1, <2>2, <2>3 DEF SizeInv
<1>2. CASE ReaderStep
  <2>1. img' = img /\ Entries' = Entries
    BY <1>2 DEF ReaderStep, Entries
  \* Ends of a command, and steps between the entries.
  <2>2. ASSUME UNCHANGED <<cmd, limit, fs, extracted>>, rpc' \in {"idle", "scan", "entry"},
               rpc \notin {"idle", "write", "mode"}, rpc' # "idle" => total' = total,
               file_data' \in {file_data, <<>>}
        PROVE  SizeInv'
    <3>1. Finished' = Finished /\ Held' = Held
      BY <2>2 DEF Finished, Held, LastOf
    <3>2. HeldBut(InHand) = Held /\ HeldBut(InHand)' = Held'
      BY <2>2 DEF InHand, HeldBut, Held, HeldOf, LastOf
    <3>3. Loaded' = 0 /\ Loaded \in Nat
      BY <2>2 DEF Loaded, SizeInv
    <3>4. Total(Held) \in Nat
      BY HeldIs, FinishedFiles, AllHeld, TotalNat DEF SafeInv, SizeInv
    <3>5. cmd = "x" /\ rpc' # "idle" => Total(Held) + 0 <= total
      BY <2>2, <3>2, <3>3, <3>4 DEF SizeInv, CountInv
    <3>6. Total(Held)' = Total(Held) /\ Total(HeldBut(InHand))' = Total(Held)
      BY <3>1, <3>2
    <3>7. file_data' \in Seq(Bytes)
      BY <1>e, <2>2 DEF SizeInv
    <3> QED
      BY <2>2, <3>1, <3>3, <3>5, <3>6, <3>7 DEF SizeInv
  <2>3. CASE Command
    <3>1. /\ rpc' = "open" /\ extracted' = <<>> /\ total' = 0 /\ file_data' = file_data
          /\ limit' \in Limits \cup {0}
      BY <2>3 DEF Command, ExtractCommand, ListCommand, TestCommand, Start
    <3>2. Finished' = {} /\ Held' = <<>> /\ HeldBut(InHand)' = <<>> /\ Loaded' = 0
      BY <3>1 DEF Finished, Range, Held, HeldBut, HeldOf, Loaded
    <3>3. Total(<<>>) = 0
      BY <1>e, SumsUnfold DEF Total
    <3>4. Total(Held)' = 0 /\ Total(HeldBut(InHand))' = 0
      BY <3>2, <3>3 DEF Total
    <3> QED
      BY <3>1, <3>2, <3>4, LimitsAssumption DEF SizeInv
  <2>4. CASE OpenRefused \/ OpenList \/ OpenExtract \/ OpenTest \/ ScanEnd \/ TestEnd \/ EndExtract
              \/ RefuseEntry \/ SkipEntry \/ IoError
    BY <2>2, <2>4 DEF OpenRefused, OpenList, OpenExtract, OpenTest, StartScan, ScanEnd, TestEnd,
                      EndExtract, RefuseEntry, SkipEntry, EntryReady, IoError
  <2>5. CASE ScanRecord \/ TestRecord
    BY <2>2, <2>5 DEF ScanRecord, TestRecord
  <2>6. CASE StartEntry
    <3>1. /\ rpc = "entry" /\ rpc' = "chunks" /\ file_data' = <<>>
          /\ UNCHANGED <<cmd, limit, fs, extracted, total>>
      BY <2>6 DEF StartEntry, EntryReady
    <3>2. Finished' = Finished /\ Held' = Held
      BY <3>1 DEF Finished, Held, LastOf
    <3>3. HeldBut(InHand) = Held /\ HeldBut(InHand)' = Held'
      BY <3>1 DEF InHand, HeldBut, Held, HeldOf, LastOf
    <3>4. Loaded' = 0 /\ Loaded = 0
      BY <1>e, <3>1 DEF Loaded
    <3> QED
      BY <1>e, <3>1, <3>2, <3>3, <3>4 DEF SizeInv
  <2>7. CASE ReadChunk
    <3>1. CASE rpc' = "idle"
      <4>1. /\ UNCHANGED <<cmd, limit, fs, extracted>> /\ rpc = "chunks" /\ file_data' = <<>>
        BY <2>7, <3>1, ReadsChunk
      <4> QED
        BY <2>2, <3>1, <4>1
    <3>2. CASE rpc' # "idle"
      <4>1. /\ UNCHANGED <<cmd, limit, fs, extracted>> /\ rpc = "chunks"
            /\ \E chunk \in InputChunks :
                 /\ total' = total + Len(chunk) /\ total' <= limit /\ rpc' = "chunks"
                 /\ file_data' = file_data \o chunk
        BY <2>7, <3>2, ReadsChunk
      <4>2. PICK chunk \in InputChunks :
                 /\ total' = total + Len(chunk) /\ total' <= limit /\ rpc' = "chunks"
                 /\ file_data' = file_data \o chunk
        BY <4>1
      <4>3. chunk \in Seq(Bytes) /\ file_data \in Seq(Bytes) /\ Len(chunk) \in Nat
            /\ Len(file_data) \in Nat
        BY InputChunkType DEF SafeInv, SizeInv
      <4>4. file_data' \in Seq(Bytes) /\ Len(file_data') = Len(file_data) + Len(chunk)
        BY <4>2, <4>3, ConcatProperties
      <4>5. Finished' = Finished /\ Held' = Held
        BY <4>1 DEF Finished, Held, LastOf
      <4>6. HeldBut(InHand) = Held /\ HeldBut(InHand)' = Held'
        BY <4>1, <4>2 DEF InHand, HeldBut, Held, HeldOf, LastOf
      <4>7. Loaded' = Len(file_data) + Len(chunk) /\ Loaded = Len(file_data)
        BY <4>1, <4>2, <4>4 DEF Loaded
      <4>8. Total(Held) \in Nat
        BY HeldIs, FinishedFiles, AllHeld, TotalNat DEF SafeInv, SizeInv
      <4>9. cmd = "x" => Total(Held) + Loaded <= total
        BY <4>1, <4>6 DEF SizeInv
      <4>10. cmd = "x" => Total(Held) + Loaded' <= total'
        BY <4>2, <4>3, <4>7, <4>8, <4>9 DEF CountInv
      <4>11. Total(HeldBut(InHand))' = Total(Held) /\ Total(Held)' = Total(Held)
        BY <4>5, <4>6
      <4> QED
        BY <4>1, <4>2, <4>4, <4>5, <4>10, <4>11 DEF SizeInv
    <3> QED
      BY <3>1, <3>2
  <2>8. CASE Die /\ UNCHANGED fs
    <3>1. /\ UNCHANGED <<cmd, limit, fs, extracted>> /\ rpc' = "idle" /\ file_data' = <<>>
          /\ rpc # "idle"
      BY <2>8 DEF Die
    <3>2. Finished' = Finished /\ Held' = Held
      BY <3>1 DEF Finished, Held, LastOf
    <3> QED
      BY <1>e, <3>1, <3>2 DEF SizeInv
  <2>9. CASE CreateFile /\ rpc' = "idle"
    BY <2>2, <2>9 DEF CreateFile
  <2>10. CASE \/ CreateFile /\ rpc' # "idle"
              \/ WriteFile \/ (Die /\ ~ UNCHANGED fs)
    <3>1. PICK dest : dest = Dest
      OBVIOUS
    <3>2. /\ UNCHANGED <<cmd, limit, extracted, total>> /\ rpc \in {"chunks", "write"}
          /\ \/ rpc' \in {"write", "mode"} /\ UNCHANGED <<ent, file_data>>
             \/ rpc' = "idle" /\ file_data' = <<>>
          /\ \E n \in 0 .. Len(file_data) : \E mode : SetFile(dest, SubSeq(file_data, 1, n), mode)
      <4>1. Len(file_data) \in Nat /\ SubSeq(file_data, 1, 0) = <<>>
            /\ SubSeq(file_data, 1, Len(file_data)) = file_data
        BY SubSeqFull, SubSeqEmpty DEF SizeInv
      <4>2. CASE CreateFile /\ rpc' # "idle"
        <5>1. \E mode : SetFile(dest, <<>>, mode)
          BY <3>1, <4>2 DEF CreateFile
        <5>3. PICK m : SetFile(dest, <<>>, m)
          BY <5>1
        <5>4. SetFile(dest, SubSeq(file_data, 1, 0), m) /\ 0 \in 0 .. Len(file_data)
          BY <4>1, <5>3 DEF SetFile
        <5>2. \E n \in 0 .. Len(file_data) : \E mode : SetFile(dest, SubSeq(file_data, 1, n), mode)
          BY <5>4
        <5> QED
          BY <4>2, <5>2 DEF CreateFile
      <4>3. CASE WriteFile \/ (Die /\ ~ UNCHANGED fs)
        <5>1. \/ TornWrite
              \/ SetFile(dest, file_data, fs[dest].mode)
          BY <3>1, <4>3 DEF WriteFile, Die
        <5>3. PICK full : full = Len(file_data)
          OBVIOUS
        <5>4. SetFile(dest, file_data, fs[dest].mode) =>
                SetFile(dest, SubSeq(file_data, 1, full), fs[dest].mode) /\ full \in 0 .. Len(file_data)
          BY <4>1, <5>3 DEF SetFile
        <5>2. \E n \in 0 .. Len(file_data) : \E mode : SetFile(dest, SubSeq(file_data, 1, n), mode)
          BY <3>1, <5>1, <5>4 DEF TornWrite
        <5> QED
          BY <4>3, <5>2 DEF WriteFile, Die
      <4> QED
        BY <2>10, <4>2, <4>3
    <3>3. PICK n \in 0 .. Len(file_data) : \E mode : SetFile(dest, SubSeq(file_data, 1, n), mode)
      BY <3>2
    <3>4. /\ dest \in DOMAIN fs' /\ fs'[dest].data = SubSeq(file_data, 1, n)
          /\ \A p \in DOMAIN fs : p # dest => fs'[p] = fs[p]
      BY <3>3 DEF SetFile
    <3>5. /\ fs'[dest].data \in Seq(Bytes)
          /\ Len(fs'[dest].data) <= Len(file_data) /\ Len(file_data) \in Nat
      BY <3>3, <3>4, SubSeqProperties DEF SizeInv
    <3>6. /\ Finished \subseteq DOMAIN fs /\ Finished' = Finished
      BY <3>2 DEF CountInv, Finished, Range
    <3>7. \A path \in Finished' : fs'[path].data \in Seq(Bytes)
      BY <3>4, <3>5, <3>6 DEF SizeInv
    <3>8. /\ FilesOf(fs, extracted) /\ \A i \in 1 .. Len(extracted) : extracted[i] \in Finished
      BY FinishedFiles DEF SafeInv, SizeInv
    <3>9. FilesOf(fs', extracted)
      BY <3>4, <3>5, <3>6, <3>8 DEF FilesOf
    <3>10. HeldOf(fs', extracted, {dest}) = HeldOf(fs, extracted, {dest})
      BY <3>4, <3>6, <3>8, OthersKeep, SMTT(60)
    <3> DEFINE others == Total(HeldOf(fs, extracted, {dest}))
    <3>11. others \in Nat /\ (cmd = "x" => others + Len(file_data) <= total)
      <4>1. CASE rpc = "write"
        <5>1. InHand = {dest} /\ Loaded = Len(file_data)
          BY <3>1, <4>1 DEF InHand, Loaded
        <5>2. HeldBut(InHand) = HeldOf(fs, extracted, {dest})
          BY <5>1 DEF HeldBut
        <5>3. others \in Nat
          BY <3>8, HeldNumbers, TotalNat
        <5> QED
          BY <4>1, <5>1, <5>2, <5>3 DEF SizeInv
      <4>2. CASE rpc = "chunks"
        <5>1. InHand = {} /\ Loaded = Len(file_data)
          BY <4>2 DEF InHand, Loaded
        <5>2. HeldBut(InHand) = HeldOf(fs, extracted, {})
          BY <5>1 DEF HeldBut
        <5>3. PICK x \in Nat : dest \in Finished => Len(fs[dest].data) <= x
          BY DEF SizeInv
        <5>4. \A i \in 1 .. Len(extracted) : extracted[i] = dest => Len(fs[dest].data) <= x
          BY <3>8, <5>3
        <5>5. /\ others <= Total(HeldOf(fs, extracted, {}))
              /\ others \in Nat /\ Total(HeldOf(fs, extracted, {})) \in Nat
          BY <3>8, <5>4, CountedOnce
        <5>6. cmd = "x" => Total(HeldOf(fs, extracted, {})) + Len(file_data) <= total
          BY <4>2, <5>1, <5>2 DEF SizeInv
        <5> QED
          BY <3>5, <5>5, <5>6 DEF CountInv
      <4> QED
        BY <3>2, <4>1, <4>2
    <3>12. /\ Total(HeldOf(fs', extracted, {})) <= others + Len(file_data)
           /\ Total(HeldOf(fs', extracted, {})) \in Nat
      <4>1. \A i \in 1 .. Len(extracted) :
              extracted[i] = dest => Len(fs'[dest].data) <= Len(file_data)
        BY <3>5
      <4> QED
        BY <3>5, <3>9, <3>10, <4>1, CountedOnce
    <3>13. Held' = HeldOf(fs', extracted, {})
      BY <3>2 DEF Held, HeldOf, LastOf
    <3>14. cmd' = "x" => Total(Held') <= limit'
      <4>1. cmd = "x" => total <= limit
        BY <3>2 DEF SizeInv
      <4>2. total \in Nat /\ limit \in Nat
        <5>1. total \in Nat /\ limit \in Limits \cup {0}
          BY DEF CountInv
        <5> QED
          BY <5>1, LimitsAssumption
      <4> QED
        BY <3>2, <3>5, <3>11, <3>12, <3>13, <4>1, <4>2
    <3>15. CASE rpc' = "idle"
      <4>1. file_data' \in Seq(Bytes)
        BY <1>e, <3>2, <3>15
      <4>2. Total(Held)' = Total(Held')
        BY DEF Total
      <4> QED
        BY <3>7, <3>14, <3>15, <4>1, <4>2 DEF SizeInv
    <3>16. CASE rpc' # "idle"
      <4>1. Dest' = dest /\ file_data' = file_data /\ rpc' \in {"write", "mode"}
        BY <2>1, <3>1, <3>2, <3>16 DEF Dest, Entry
      <4>2. InHand' = {dest} /\ Loaded' = Len(file_data)
        BY <4>1 DEF InHand, Loaded
      <4>3. HeldBut(InHand)' = HeldOf(fs, extracted, {dest})
        BY <3>2, <3>10, <4>2 DEF HeldBut
      <4>4. cmd' = "x" => total' <= limit' /\ Total(HeldBut(InHand))' + Loaded' <= total'
        <5>1. cmd = "x" => total <= limit
          BY <3>2 DEF SizeInv
        <5>2. Total(HeldBut(InHand))' = others
          BY <4>3 DEF Total
        <5> QED
          BY <3>2, <3>11, <4>2, <5>1, <5>2
      <4>5. Total(Held)' = Total(Held')
        BY DEF Total
      <4> QED
        BY <3>5, <3>7, <3>14, <4>1, <4>4, <4>5 DEF SizeInv
    <3> QED
      BY <3>2, <3>15, <3>16
  <2>11. CASE SetMode
    <3>1. PICK dest : dest = Dest
      OBVIOUS
    <3>2. /\ UNCHANGED <<cmd, limit, total, file_data>> /\ rpc = "mode" /\ rpc' = "entry"
          /\ extracted' = Append(extracted, dest)
          /\ fs' = fs \/ \E mode : SetFile(dest, fs[dest].data, mode)
      BY <2>11, <3>1 DEF SetMode
    <3>3. /\ fs'[dest].data = fs[dest].data
          /\ \A p \in DOMAIN fs : p # dest => fs'[p] = fs[p]
      BY <3>2 DEF SetFile
    <3>4. /\ fs[dest].data \in Seq(Bytes) /\ Len(fs[dest].data) <= Len(file_data)
          /\ Len(file_data) \in Nat
      BY <3>1, <3>2 DEF SizeInv
    <3>5. /\ FilesOf(fs, extracted) /\ \A i \in 1 .. Len(extracted) : extracted[i] \in Finished
          /\ Finished \subseteq DOMAIN fs
      BY FinishedFiles DEF SafeInv, SizeInv, CountInv, Finished, Range
    <3>6. PICK S : extracted \in Seq(S)
      BY DEF SafeInv, TornInv
    <3>7. Total(HeldOf(fs', Append(extracted, dest), {}))
            = Total(HeldOf(fs, extracted, {dest})) + Len(fs'[dest].data)
      <4>1. \A i \in 1 .. Len(extracted) : extracted[i] # dest => fs'[extracted[i]] = fs[extracted[i]]
        BY <3>3, <3>5
      <4>2. fs'[dest].data \in Seq(Bytes)
        BY <3>3, <3>4
      <4>3. PICK f, g, list : f = fs /\ g = fs' /\ list = extracted
        OBVIOUS
      <4>5. /\ list \in Seq(S) /\ FilesOf(f, list) /\ g[dest].data \in Seq(Bytes)
            /\ \A i \in 1 .. Len(list) : list[i] # dest => g[list[i]] = f[list[i]]
        BY <3>5, <3>6, <4>1, <4>2, <4>3
      <4>4. Total(HeldOf(g, Append(list, dest), {}))
              = Total(HeldOf(f, list, {dest})) + Len(g[dest].data)
        BY <4>5, HeldAppend
      <4> QED
        BY <4>3, <4>4
    <3>8. Finished' = Finished \cup {dest}
      BY <3>2, FinishedAppend DEF SafeInv
    <3>9. \A path \in Finished' : fs'[path].data \in Seq(Bytes)
      BY <3>3, <3>4, <3>5, <3>8 DEF SizeInv
    <3>10. cmd = "x" => total <= limit /\ Total(HeldOf(fs, extracted, {dest})) + Len(file_data) <= total
      BY <3>1, <3>2 DEF SizeInv, InHand, Loaded, HeldBut
    <3>11. Total(HeldOf(fs, extracted, {dest})) \in Nat
      BY <3>5, HeldNumbers, TotalNat
    <3>12. cmd = "x" => total \in Nat /\ limit \in Nat
      BY LimitsAssumption DEF CountInv
    <3>13. Held' = HeldOf(fs', Append(extracted, dest), {})
      BY <3>2 DEF Held, HeldOf, LastOf
    <3>14. HeldBut(InHand)' = HeldOf(fs', Append(extracted, dest), {}) /\ Loaded' = 0
      BY <3>2 DEF HeldBut, InHand, Loaded
    <3>15. /\ Total(Held)' = Total(HeldOf(fs', Append(extracted, dest), {}))
           /\ Total(HeldBut(InHand))' = Total(HeldOf(fs', Append(extracted, dest), {}))
      BY <3>13, <3>14 DEF Total
    <3>16. cmd = "x" => Total(HeldOf(fs', Append(extracted, dest), {})) <= total
      BY <3>3, <3>4, <3>7, <3>10, <3>11, <3>12
    <3>17. Total(HeldOf(fs', Append(extracted, dest), {})) \in Nat
      BY <3>3, <3>4, <3>7, <3>11
    <3>18. cmd' = "x" => /\ Total(Held)' <= limit' /\ total' <= limit'
                         /\ Total(HeldBut(InHand))' + Loaded' <= total'
      BY <3>2, <3>10, <3>12, <3>14, <3>15, <3>16, <3>17
    <3> QED
      BY <3>2, <3>9, <3>18 DEF SizeInv
  <2> QED
    BY <1>2, <2>3, <2>4, <2>5, <2>6, <2>7, <2>8, <2>9, <2>10, <2>11 DEF ReaderStep, ReadStep
<1> QED
  BY <1>1, <1>2, SystemSteps DEF SafeInv, UseInv

\* The files of one extraction never hold more than its limit together, also
\* where a file is extracted again, a write is torn or a chunk was damaged: the
\* total is checked before a chunk is kept (archive.rs:365-376).
THEOREM LimitIsKept == SystemSpec => []LimitRespected
<1> DEFINE Inv == SafeInv /\ PlaceInv /\ CountInv /\ SizeInv
<1>1. SystemInit => Inv
  BY SafeInit, PlaceInit, CountInit, SizeInit
<1>2. Inv /\ [SystemNext]_systemVars => Inv'
  BY SafeStep, PlaceStep, CountStep, SizeStep
<1>3. Inv => LimitRespected
  BY DEF SizeInv, LimitRespected
<1> HIDE DEF Inv
<1> QED
  BY <1>1, <1>2, <1>3, PTL DEF SystemSpec


-----------------------------------------------------------------------------
(* Whole chunks, whatever the damage.  Two entries name one path only when  *)
(* two files do, or when one does that a damaged name leads to.             *)

\* The storage spoils one cell at most.
OneCell ==
  phase = "use" => \E q : \A p \in DOMAIN img : p # q => img[p] = out[p]

LEMMA OneInit == SystemInit => OneCell
  BY DEF SystemInit, OneCell

LEMMA OneStep == UseInv /\ OneCell /\ [SystemNext]_systemVars => OneCell'
<1> SUFFICES ASSUME UseInv, OneCell, [SystemNext]_systemVars PROVE OneCell'
  OBVIOUS
<1>t. TypeInv /\ ImgInv
  BY DEF UseInv, CreatorInv
<1>1. CASE CreateStep \/ CreateKill
  <2>1. phase = "create" /\ phase' = phase
    BY <1>1, <1>t, EndedStops DEF CreateStep, CreateKill, ImgInv
  <2> QED
    BY <2>1 DEF OneCell
<1>2. CASE Exit
  <2>1. img' = Disk /\ out' = out
    BY <1>2 DEF Exit, createMemory
  <2> QED
    BY <1>t, <2>1, DiskType DEF OneCell
<1>3. CASE Damage
  <2>1. PICK kind \in Damages : Spoil(kind)
    BY <1>3 DEF Damage
  <2>2. img = Disk /\ out' = out
    BY <1>3, <1>t DEF Damage, ImgInv, createVars, createMemory
  <2>3. DOMAIN img = 1 .. flushed /\ \A p \in 1 .. flushed : img[p] = out[p]
    BY <1>t, <2>2, DiskType
  <2>4. CASE \E i \in DOMAIN img : \E cell \in DamagedCells(img[i], kind) :
                img' = [img EXCEPT ![i] = cell]
    <3>1. PICK i \in DOMAIN img : \E cell : img' = [img EXCEPT ![i] = cell]
      BY <2>4
    <3>2. \A p \in DOMAIN img' : p # i => img'[p] = out'[p]
      BY <2>2, <2>3, <3>1
    <3> QED
      BY <3>2 DEF OneCell
  <2>5. CASE \E n \in 0 .. Len(img) - 1 : img' = SubSeq(img, 1, n)
    <3>1. PICK n \in 0 .. Len(img) - 1 : img' = SubSeq(img, 1, n)
      BY <2>5
    <3>2. img \in Seq(Cells) /\ Len(img) = flushed /\ flushed \in Nat
      BY <1>t, <2>2, DiskType
    <3>3. DOMAIN img' = 1 .. n /\ \A p \in 1 .. n : img'[p] = img[p]
      BY <3>1, <3>2, SubSeqProperties
    <3> QED
      BY <2>2, <2>3, <3>2, <3>3 DEF OneCell
  <2> QED
    BY <2>1, <2>4, <2>5 DEF Spoil
<1>4. CASE UseStart \/ UseStep \/ UseFault
  <2>1. img' = img
    BY <1>4, ReaderReads DEF UseStart, UseStep, UseFault
  <2>2. phase' = phase /\ out' = out
    BY <1>4 DEF UseStart, UseStep, UseFault, Using, createVars, createMemory
  <2> QED
    BY <2>1, <2>2 DEF OneCell
<1>5. CASE UNCHANGED systemVars
  BY <1>5 DEF systemVars, createVars, createMemory, OneCell
<1> QED
  BY <1>1, <1>2, <1>3, <1>4, <1>5 DEF SystemNext

\* The path that a damaged name may lead to, which no file has.
Stray == SanitisePath(<<"e", CurDir, "a">>)

StrayApart == \A list \in Inputs : \A i \in DOMAIN list : SanitisePath(list[i].name) # Stray

EntryPath(i) == SanitisePath(Entries[i].name)

LEMMA EntriesApart ==
  ASSUME UseInv, OneCell, PathsApart, StrayApart, rpc \notin {"idle", "open"}, cmd = "x",
         NEW i \in 1 .. Len(files), NEW j \in 1 .. Len(files),
         EntryPath(i) = EntryPath(j), EntryPath(i) # <<>>
  PROVE  i = j
<1>1. ReadFooter(img) = "ok" /\ ReadIndex(img) = "ok" /\ phase = "use"
  BY Opened DEF UseInv, OpenInv, ImgInv
<1>2. Len(entries) = Len(files) /\ index_offset \in Nat /\ Len(files) \in Nat
  BY <1>1, IndexSeen, GivenFiles DEF UseInv, CreatorInv, TypeInv, TypeOK
<1>3. ASSUME NEW k \in 1 .. Len(files) PROVE entries[k].name = files[k].name
  <2>1. entries[k] = EntryOf(k, entries[k].first_chunk)
    BY <1>2 DEF UseInv, CreatorInv, StreamInv, EntriesMatch
  <2>2. EntryOf(k, entries[k].first_chunk).name = files[k].name
    BY DEF EntryOf
  <2> QED
    BY <2>1, <2>2
<1>4. \A k \in 1 .. Len(files) : SanitisePath(files[k].name) # Stray
  BY FilesType DEF StrayApart, UseInv, CreatorInv, TypeInv, TypeOK
<1>5. ASSUME NEW k \in 1 .. Len(files), EntryPath(k) # <<>>
      PROVE  EntryPath(k) \in {PathOf(k), Stray}
  <2>1. /\ entries[k] \in EntryRecords
        /\ \/ Entries[k] = entries[k]
           \/ \E seen \in DamagedCells(EntryCell(entries[k]), damage) :
                seen.k = "entry" /\ Entries[k] = seen.e
    BY <1>1, IndexSeen DEF UseInv
  <2>2. EntryCell(entries[k]) \in EntryCells /\ EntryCell(entries[k]).e = entries[k]
    BY <2>1 DEF EntryCell, EntryCells
  <2>3. Entries[k].name \in {entries[k].name, <<ParentDir, "a">>, <<RootDir, "a">>, <<"e", CurDir, "a">>}
    BY <2>1, <2>2, DamagedEntry
  <2>4. SanitisePath(<<ParentDir, "a">>) = <<>> /\ SanitisePath(<<RootDir, "a">>) = <<>>
    BY DEF SanitisePath
  <2> QED
    BY <1>3, <1>5, <2>3, <2>4 DEF EntryPath, PathOf, Stray
<1>6. ASSUME NEW k \in 1 .. Len(files), img[index_offset + k] = out[index_offset + k]
      PROVE  EntryPath(k) = PathOf(k)
  BY <1>1, <1>3, <1>6, IndexSeen DEF UseInv, EntryPath, PathOf
<1>7. CASE i # j
  <2>1. index_offset + i # index_offset + j
    BY <1>2, <1>7
  <2>2. index_offset + i \in DOMAIN img /\ index_offset + j \in DOMAIN img
    BY <1>1, IndexSeen DEF UseInv
  <2>3. EntryPath(i) = PathOf(i) \/ EntryPath(j) = PathOf(j)
    BY <1>1, <1>6, <2>1, <2>2 DEF OneCell
  <2>4. EntryPath(i) = PathOf(i) /\ EntryPath(j) = PathOf(j)
    BY <1>4, <1>5, <2>3 DEF PathOf
  <2> QED
    BY <1>7, <2>4, NamesApart
<1> QED
  BY <1>7

\* Nothing is made of no pieces, and one more piece may follow.
LEMMA MadeOfNothing ==
  ASSUME NEW pieces
  PROVE  MadeOf(<<>>, pieces)
<1>1. {0} \in SUBSET (0 .. Len(<<>>)) /\ {0, Len(<<>>)} \subseteq {0} /\ {0} \ {Len(<<>>)} = {}
  OBVIOUS
<1> QED
  BY <1>1 DEF MadeOf

LEMMA MadeOfMore ==
  ASSUME NEW S, NEW data \in Seq(S), NEW piece \in Seq(S), NEW pieces,
         piece \in pieces, Len(piece) > 0, MadeOf(data, pieces)
  PROVE  MadeOf(data \o piece, pieces)
<1> DEFINE n == Len(data)
           m == Len(piece)
           all == data \o piece
<1>1. n \in Nat /\ m \in Nat /\ m > 0
  OBVIOUS
<1>2. all \in Seq(S) /\ Len(all) = n + m
  BY ConcatProperties
<1>3. PICK cuts \in SUBSET (0 .. n) :
        /\ {0, n} \subseteq cuts
        /\ \A a \in cuts \ {n} : \E b \in cuts : a < b /\ SubSeq(data, a + 1, b) \in pieces
  BY DEF MadeOf
<1>4. \A a \in 0 .. n : \A b \in 0 .. n : a < b => SubSeq(all, a + 1, b) = SubSeq(data, a + 1, b)
  <2> SUFFICES ASSUME NEW a \in 0 .. n, NEW b \in 0 .. n, a < b
               PROVE  SubSeq(all, a + 1, b) = SubSeq(data, a + 1, b)
    OBVIOUS
  <2>1. a + 1 \in 1 .. Len(data) /\ b \in 1 .. Len(data)
    BY <1>1
  <2> QED
    BY <2>1, SubSeqOfConcat1
<1>5. SubSeq(all, n + 1, n + m) = piece
  <2>1. n + 1 \in Len(data) + 1 .. Len(data) + Len(piece)
        /\ n + m \in Len(data) + 1 .. Len(data) + Len(piece)
        /\ n + 1 - Len(data) = 1 /\ n + m - Len(data) = Len(piece)
    BY <1>1
  <2>2. SubSeq(all, n + 1, n + m) = SubSeq(piece, 1, Len(piece))
    BY <2>1, SubSeqOfConcat2
  <2> QED
    BY <2>2, SubSeqFull
<1> DEFINE more == cuts \cup {n + m}
<1> HIDE DEF n, m, all
<1>6. more \in SUBSET (0 .. Len(all)) /\ {0, Len(all)} \subseteq more
  BY <1>1, <1>2, <1>3
<1>7. ASSUME NEW a \in more \ {Len(all)}
      PROVE  \E b \in more : a < b /\ SubSeq(all, a + 1, b) \in pieces
  <2>1. a \in cuts /\ a \in 0 .. n
    BY <1>2, <1>3, <1>7
  <2>2. CASE a = n
    <3>0. SubSeq(all, a + 1, n + m) = piece /\ piece \in pieces
      BY <1>5, <2>2
    <3>1. n + m \in more /\ a < n + m
      BY <1>1, <2>2
    <3> QED
      BY <3>0, <3>1
  <2>3. CASE a # n
    <3>1. PICK b \in cuts : a < b /\ SubSeq(data, a + 1, b) \in pieces
      BY <1>3, <2>1, <2>3
    <3>2. b \in 0 .. n /\ SubSeq(all, a + 1, b) \in pieces
      BY <1>3, <1>4, <2>1, <3>1
    <3> QED
      BY <3>1, <3>2
  <2> QED
    BY <2>2, <2>3
<1>8. MadeOf(all, pieces)
  BY <1>6, <1>7 DEF MadeOf
<1> QED
  BY <1>8 DEF all

LEMMA InputChunksGiven ==
  ASSUME UseInv, NEW chunk \in InputChunks
  PROVE  chunk \in GivenChunks
<1>1. PICK i \in 1 .. Len(files) :
        chunk \in {SplitIntoChunks(files[i].data)[k] : k \in 1 .. ChunkCount(files[i].data)}
  BY DEF InputChunks
<1>2. files[i].data \in Seq(Bytes) /\ GivenFile(i) \in Given
  BY GivenFiles
<1>3. DOMAIN SplitIntoChunks(files[i].data) = 1 .. ChunkCount(files[i].data)
  BY <1>2, SplitType DEF SplitIntoChunks
<1>4. chunk \in Range(SplitIntoChunks(GivenFile(i).data))
  BY <1>1, <1>3 DEF Range, GivenFile
<1> QED
  BY <1>2, <1>4 DEF GivenChunks

\* Bytes that can be cut into pieces.
Chunked(data, pieces) == data \in Seq(Bytes) /\ MadeOf(data, pieces)

WholeInv ==
  /\ rpc \in {"chunks", "write", "mode"} => Chunked(file_data, GivenChunks)
  /\ rpc = "mode" => Chunked(fs[Dest].data, GivenChunks)
  /\ rpc \in {"open", "scan"} => Finished = {}
  /\ rpc \in {"entry", "chunks", "write", "mode"} =>
       \A path \in Finished : \E j \in 1 .. ent - 1 : path = EntryPath(j)
  /\ cmd = "x" => \A path \in Finished : Chunked(fs[path].data, GivenChunks)

\* A write is not cut short, or where it is no finished file is written again.
WritesApart == ReadFaults \cap {"io", "kill"} = {} \/ (PathsApart /\ StrayApart)

LEMMA WholeNothing ==
  ASSUME NEW pieces
  PROVE  Chunked(<<>>, pieces)
<1>1. <<>> \in Seq(Bytes)
  OBVIOUS
<1> QED
  BY <1>1, MadeOfNothing DEF Chunked

LEMMA WholeInit == SystemInit => WholeInv
<1> SUFFICES ASSUME SystemInit PROVE WholeInv
  OBVIOUS
<1>1. rpc = "idle" /\ cmd = "none"
  BY DEF SystemInit, ReadInit
<1> QED
  BY <1>1 DEF WholeInv

\* The file in hand is none of the finished ones.
LEMMA InHandApart ==
  ASSUME SafeInv, OneCell, PlaceInv, WholeInv, PathsApart, StrayApart,
         rpc \in {"chunks", "write", "mode"}
  PROVE  Dest \notin Finished
<1> SUFFICES ASSUME Dest \in Finished PROVE FALSE
  OBVIOUS
<1>1. ent \in Nat \ {0} /\ ent <= Len(Entries) /\ cmd = "x" /\ UseInv
  BY DEF SafeInv, UseInv, OpenInv
<1>2. ReadFooter(img) = "ok" /\ ReadIndex(img) = "ok" /\ phase = "use"
  BY <1>1, Opened DEF UseInv, OpenInv, ImgInv
<1>3. Len(Entries) = Len(files) /\ Len(files) \in Nat
  BY <1>1, <1>2, IndexSeen, GivenFiles DEF UseInv
<1>4. PICK j \in 1 .. ent - 1 : Dest = EntryPath(j)
  BY DEF WholeInv
<1>5. ent \in 1 .. Len(files) /\ j \in 1 .. Len(files) /\ j # ent
  BY <1>1, <1>3, <1>4
<1>6. Dest = EntryPath(ent) /\ Dest # <<>>
  BY DEF Dest, Entry, EntryPath, PlaceInv
<1> QED
  BY <1>1, <1>4, <1>5, <1>6, EntriesApart

LEMMA WholeStep ==
  ASSUME SafeInv, OneCell, PlaceInv, CountInv, WholeInv, "drop" \notin ReadFaults, WritesApart,
         [SystemNext]_systemVars
  PROVE  WholeInv'
<1> USE DEF Finish, Continue, ResetLocals, locals, outdir, options, results
<1>g. GivenChunks' = GivenChunks
  BY SystemSteps DEF SafeInv, UseInv, GivenChunks, Given, Stored
<1>1. CASE UNCHANGED systemVars \/ ReaderIdles
  <2>1. UNCHANGED <<rpc, cmd, fs, extracted, file_data>>
        /\ (rpc # "idle" => UNCHANGED <<ent, img>>)
    BY <1>1 DEF systemVars, ReaderIdles, readerVars
  <2>2. Finished' = Finished
        /\ (rpc # "idle" => Dest' = Dest /\ Entries' = Entries)
    BY <2>1 DEF Finished, Dest, Entry, Entries
  <2> QED
    BY <1>g, <2>1, <2>2 DEF WholeInv, EntryPath
<1>2. CASE ReaderStep
  <2>1. img' = img /\ Entries' = Entries
    BY <1>2 DEF ReaderStep, Entries
  \* Ends of a command, and steps between the entries.
  <2>2. ASSUME UNCHANGED <<cmd, fs, extracted>>, rpc' \in {"idle", "scan", "entry"},
               rpc' = "scan" => rpc \in {"open", "scan"},
               rpc' = "entry" => \/ rpc = "scan"
                                 \/ rpc = "entry" /\ ent' \in {ent, ent + 1}
        PROVE  WholeInv'
    <3>1. Finished' = Finished
      BY <2>2 DEF Finished
    <3>2. ent \in Nat \ {0}
      BY DEF SafeInv, UseInv, OpenInv
    <3>3. rpc' = "entry" =>
            \A path \in Finished : \E j \in 1 .. ent' - 1 : path = EntryPath(j)
      <4>1. ASSUME rpc = "scan", rpc' = "entry"
            PROVE  \A path \in Finished : \E j \in 1 .. ent' - 1 : path = EntryPath(j)
        BY <4>1 DEF WholeInv
      <4>2. ASSUME rpc = "entry", ent' \in {ent, ent + 1}
            PROVE  \A path \in Finished : \E j \in 1 .. ent' - 1 : path = EntryPath(j)
        <5>1. \A path \in Finished : \E j \in 1 .. ent - 1 : path = EntryPath(j)
          BY <4>2 DEF WholeInv
        <5>2. ASSUME NEW path \in Finished PROVE \E j \in 1 .. ent' - 1 : path = EntryPath(j)
          <6>1. PICK j \in 1 .. ent - 1 : path = EntryPath(j)
            BY <5>1
          <6>2. PICK m, n : m = ent /\ n = ent'
            OBVIOUS
          <6>3. j \in 1 .. m - 1 /\ m \in Nat /\ (n = m \/ n = m + 1)
            BY <3>2, <4>2, <6>1, <6>2
          <6>4. j \in 1 .. n - 1
            BY <6>3
          <6> QED
            BY <6>1, <6>2, <6>4
        <5> QED
          BY <5>2
      <4> QED
        BY <2>2, <4>1, <4>2
    <3> QED
      BY <1>g, <2>1, <2>2, <3>1, <3>3 DEF WholeInv, EntryPath
  <2>3. CASE Command
    <3>1. rpc' = "open" /\ extracted' = <<>>
      BY <2>3 DEF Command, ExtractCommand, ListCommand, TestCommand, Start
    <3>2. Finished' = {}
      BY <3>1 DEF Finished, Range
    <3> QED
      BY <3>1, <3>2 DEF WholeInv
  <2>4. CASE OpenRefused \/ OpenList \/ OpenExtract \/ OpenTest \/ ScanEnd \/ TestEnd \/ EndExtract
              \/ RefuseEntry \/ SkipEntry \/ IoError \/ ScanRecord \/ TestRecord
    BY <2>2, <2>4 DEF OpenRefused, OpenList, OpenExtract, OpenTest, StartScan, ScanEnd, TestEnd,
                      EndExtract, RefuseEntry, SkipEntry, EntryReady, IoError, ScanRecord, TestRecord
  <2>5. CASE StartEntry
    <3>1. /\ rpc = "entry" /\ rpc' = "chunks" /\ file_data' = <<>>
          /\ UNCHANGED <<cmd, fs, extracted, ent>>
      BY <2>5 DEF StartEntry, EntryReady
    <3>2. Finished' = Finished
      BY <3>1 DEF Finished
    <3> QED
      BY <1>g, <2>1, <3>1, <3>2, WholeNothing DEF WholeInv, EntryPath
  <2>6. CASE ReadChunk
    <3>1. CASE rpc' = "idle"
      <4>1. UNCHANGED <<cmd, fs, extracted>>
        BY <2>6, ReadsChunk
      <4> QED
        BY <2>2, <3>1, <4>1
    <3>2. CASE rpc' # "idle"
      <4>1. /\ UNCHANGED <<cmd, fs, extracted, ent>> /\ rpc = "chunks" /\ rpc' = "chunks"
            /\ \E chunk \in InputChunks : file_data' = file_data \o chunk
        BY <2>6, <3>2, ReadsChunk
      <4>2. PICK chunk \in InputChunks : file_data' = file_data \o chunk
        BY <4>1
      <4>3. PICK data, pieces : data = file_data /\ pieces = GivenChunks
        OBVIOUS
      <4>4. /\ chunk \in Seq(Bytes) /\ Len(chunk) > 0 /\ chunk \in pieces
            /\ data \in Seq(Bytes) /\ MadeOf(data, pieces)
        BY <4>1, <4>3, InputChunkType, InputChunksGiven, ChunkSizeAssumption
           DEF SafeInv, WholeInv, Chunked
      <4>5. data \o chunk \in Seq(Bytes) /\ MadeOf(data \o chunk, pieces)
        BY <4>4, MadeOfMore, ConcatProperties
      <4>6. Chunked(file_data', GivenChunks')
        BY <1>g, <4>2, <4>3, <4>5 DEF Chunked
      <4>7. Finished' = Finished
        BY <4>1 DEF Finished
      <4> QED
        BY <1>g, <2>1, <4>1, <4>6, <4>7 DEF WholeInv, EntryPath
    <3> QED
      BY <3>1, <3>2
  <2>7. CASE (Die /\ UNCHANGED fs) \/ (CreateFile /\ rpc' = "idle")
    BY <2>2, <2>7 DEF Die, CreateFile
  <2>8. CASE \/ CreateFile /\ rpc' # "idle"
             \/ WriteFile /\ rpc' # "idle"
             \/ SetMode
    <3>1. PICK dest, data : dest = Dest /\ data = IF rpc = "chunks" THEN <<>>
                                                  ELSE IF rpc = "write" THEN file_data
                                                  ELSE fs[Dest].data
      OBVIOUS
    <3>2. Chunked(data, GivenChunks)
      <4>1. rpc \in {"chunks", "write", "mode"}
        BY <2>8 DEF CreateFile, WriteFile, SetMode
      <4> QED
        BY <3>1, <4>1, WholeNothing DEF WholeInv
    <3>3. /\ rpc \in {"chunks", "write", "mode"} /\ cmd' = cmd
          /\ rpc = "mode" => fs' = fs \/ \E mode : SetFile(dest, data, mode)
          /\ rpc # "mode" => \E mode : SetFile(dest, data, mode)
      <4>1. CASE CreateFile /\ rpc' # "idle"
        BY <3>1, <4>1 DEF CreateFile, SetFile
      <4>2. CASE WriteFile /\ rpc' # "idle"
        BY <3>1, <4>2 DEF WriteFile, SetFile
      <4>3. CASE SetMode
        <5>1. rpc = "mode" /\ cmd' = cmd
          BY <4>3 DEF SetMode
        <5>2. SetFile(Dest, fs[Dest].data, Entry.mode) \/ fs' = fs
          BY <4>3 DEF SetMode
        <5>3. dest = Dest /\ data = fs[Dest].data
          BY <3>1, <5>1
        <5> QED
          BY <5>1, <5>2, <5>3
      <4> QED
        BY <2>8, <4>1, <4>2, <4>3
    <3>4. /\ fs'[dest].data = data
          /\ \A p \in DOMAIN fs : p # dest => fs'[p] = fs[p]
      BY <3>1, <3>3 DEF SetFile
    <3>5. cmd = "x" => \A path \in Finished \cup {dest} : Chunked(fs'[path].data, GivenChunks)
      <4>1. Finished \subseteq DOMAIN fs
        BY DEF CountInv, Finished, Range
      <4> QED
        BY <3>2, <3>4, <4>1 DEF WholeInv
    <3>6. ent \in Nat \ {0} /\ cmd = "x"
      BY <3>3 DEF SafeInv, UseInv, OpenInv
    <3>7. CASE SetMode
      <4>1. /\ rpc' = "entry" /\ ent' = ent + 1 /\ extracted' = Append(extracted, dest)
        BY <3>1, <3>7 DEF SetMode
      <4>2. Finished' = Finished \cup {dest}
        BY <4>1, FinishedAppend DEF SafeInv
      <4>3. dest = EntryPath(ent) /\ ent \in 1 .. ent' - 1 /\ 1 .. ent - 1 \subseteq 1 .. ent' - 1
        BY <3>1, <3>6, <4>1 DEF Dest, Entry, EntryPath
      <4>4. \A path \in Finished : \E j \in 1 .. ent - 1 : path = EntryPath(j)
        BY <3>3 DEF WholeInv
      <4>5. \A path \in Finished' : \E j \in 1 .. ent' - 1 : path = EntryPath(j)
        BY <4>2, <4>3, <4>4
      <4>6. \A j : EntryPath(j)' = EntryPath(j)
        BY <2>1 DEF EntryPath
      <4> QED
        BY <1>g, <3>5, <3>6, <4>1, <4>2, <4>5, <4>6 DEF WholeInv
    <3>8. CASE ~ SetMode
      <4>1. /\ UNCHANGED <<ent, extracted, file_data>>
            /\ <<rpc, rpc'>> \in {<<"chunks", "write">>, <<"write", "mode">>}
        BY <2>8, <3>8 DEF CreateFile, WriteFile
      <4>2. Finished' = Finished
        BY <4>1 DEF Finished
      <4>3. Dest' = dest
        BY <2>1, <3>1, <4>1 DEF Dest, Entry
      <4>4. \A path \in Finished : \E j \in 1 .. ent - 1 : path = EntryPath(j)
        BY <3>3 DEF WholeInv
      <4>5. \A j : EntryPath(j)' = EntryPath(j)
        BY <2>1 DEF EntryPath
      <4>6. Chunked(file_data, GivenChunks) /\ Chunked(fs'[dest].data, GivenChunks)
        BY <3>2, <3>3, <3>4 DEF WholeInv
      <4> QED
        BY <1>g, <3>5, <3>6, <4>1, <4>2, <4>3, <4>4, <4>5, <4>6 DEF WholeInv
    <3> QED
      BY <3>7, <3>8
  <2>9. CASE \/ WriteFile /\ rpc' = "idle"
             \/ Die /\ ~ UNCHANGED fs
    <3>1. /\ rpc = "write" /\ TornWrite /\ UNCHANGED <<cmd, extracted>> /\ rpc' = "idle"
          /\ ReadFaults \cap {"io", "kill"} # {}
      BY <2>9 DEF WriteFile, Die
    <3>2. Dest \notin Finished
      BY <3>1, InHandApart DEF WritesApart
    <3>3. \A p \in DOMAIN fs : p # Dest => fs'[p] = fs[p]
      BY <3>1 DEF TornWrite, SetFile
    <3>4. Finished \subseteq DOMAIN fs /\ Finished' = Finished
      BY <3>1 DEF CountInv, Finished, Range
    <3> QED
      BY <1>g, <3>1, <3>2, <3>3, <3>4 DEF WholeInv
  <2> QED
    BY <1>2, <2>3, <2>4, <2>5, <2>6, <2>7, <2>8, <2>9 DEF ReaderStep, ReadStep
<1> QED
  BY <1>1, <1>2, SystemSteps DEF SafeInv, UseInv

\* Chunk ids and index entries are covered by no checksum (format.rs:124, 184),
\* and with more workers an entry may lead to the wrong chunks.  Every file that
\* extraction reports is nevertheless made of chunks that were put in, each of
\* them whole.  Writes are not lost (a flush whose error is dropped may cut the
\* file anywhere), and no finished file is written again while they may be torn.
THEOREM ChunksStayWhole ==
  ASSUME "drop" \notin ReadFaults, WritesApart
  PROVE  SystemSpec => []WholeChunksOnly
<1> DEFINE Inv == SafeInv /\ OneCell /\ PlaceInv /\ CountInv /\ WholeInv
<1>1. SystemInit => Inv
  BY SafeInit, OneInit, PlaceInit, CountInit, WholeInit
<1>2. Inv /\ [SystemNext]_systemVars => Inv'
  BY SafeStep, OneStep, PlaceStep, CountStep, WholeStep DEF SafeInv
<1>3. Inv => WholeChunksOnly
  BY DEF WholeInv, WholeChunksOnly, Chunked
<1> HIDE DEF Inv
<1> QED
  BY <1>1, <1>2, <1>3, PTL DEF SystemSpec


-----------------------------------------------------------------------------
(* No false alarm.  A creator that ran to its end has written all of it;    *)
(* whether the last flush brought it to the disk is the property's premise. *)

DoneInv == pc \in {"report", "drop", "done"} => HasFooter

LEMMA DoneInit == SystemInit => DoneInv
  BY DEF SystemInit, Init, DoneInv

LEMMA DoneStep ==
  ASSUME CreatorInv, ImgInv, DoneInv, [SystemNext]_systemVars
  PROVE  DoneInv'
<1>t. /\ out \in Seq(Cells) /\ Len(out) \in Nat /\ DOMAIN out = 1 .. Len(out)
      /\ index_offset \in Nat /\ Len(entries) \in Nat
  BY OutType DEF CreatorInv, TypeInv, TypeOK
<1>1. CASE CreateStep \/ CreateKill
  <2>1. CASE WriteFooter
    <3> DEFINE footer == FooterCell(index_offset, Len(entries))
    <3>1. footer \in Cells /\ footer.k = "footer"
      BY <1>t, FooterType DEF FooterCell
    <3>2. out' = out \o <<footer>> /\ pc' \in {"report", "failed"}
      BY <2>1 DEF WriteFooter, Emit, Written, WriteFailed
    <3> HIDE DEF footer
    <3>3. out' = Append(out, footer)
      BY <1>t, <3>1, <3>2, AppendIsConcat
    <3>4. Len(out) + 1 \in DOMAIN out' /\ out'[Len(out) + 1] = footer
      BY <1>t, <3>1, <3>3, AppendProperties
    <3>5. HasFooter'
      BY <3>1, <3>4 DEF HasFooter
    <3> QED
      BY <3>2, <3>5 DEF DoneInv
  <2>2. CASE Report \/ DropWriter
    <3>1. out' = out /\ pc \in {"report", "drop"}
      BY <2>2 DEF Report, DropWriter, outVars
    <3> QED
      BY <3>1 DEF DoneInv, HasFooter
  <2>3. CASE ~ (WriteFooter \/ Report \/ DropWriter)
    <3>1. pc' \notin {"report", "drop", "done"} \/ UNCHANGED <<pc, out>>
      BY <1>1, <2>3 DEF CreateStep, CreateKill, Step, MainStep, WorkerStep, Kill, WriteHeader,
         RefuseFile, StartFile, Collect, WriteRecord, PushEntry, StartIndex, WriteEntry,
         Emit, Written, WriteFailed, Split, FetchAdd, Compress, Pop, Steal, poolOnly, outVars
    <3> QED
      BY <3>1 DEF DoneInv, HasFooter
  <2> QED
    BY <2>1, <2>2, <2>3
<1>2. CASE ~ (CreateStep \/ CreateKill)
  <2>1. UNCHANGED <<pc, out>>
    BY <1>2 DEF SystemNext, Exit, Damage, UseStart, UseStep, UseFault, Using, createVars,
                createMemory, systemVars
  <2> QED
    BY <2>1 DEF DoneInv, HasFooter
<1> QED
  BY <1>1, <1>2

\* The archive is what was written, all of it.
Undamaged ==
  /\ phase = "use" /\ damage = "none"
  /\ pc = "done" /\ flushed = Len(out)

LEMMA WholeOpens ==
  ASSUME UseInv, DoneInv, Undamaged
  PROVE  /\ img = out /\ Opens /\ OpensIndex /\ ReadFooter(img) = "ok"
<1>t. /\ out \in Seq(Cells) /\ Len(out) \in Nat /\ DOMAIN out = 1 .. Len(out)
      /\ index_offset \in Nat /\ Len(entries) \in Nat
  BY OutType DEF UseInv, CreatorInv, TypeInv, TypeOK
<1>1. img = out
  BY <1>t, SubSeqFull DEF UseInv, ImgInv, Undamaged, Disk
<1>2. PICK p \in DOMAIN out : out[p].k = "footer"
  BY DEF DoneInv, Undamaged, HasFooter
<1>3. Whole /\ p = Len(out)
  BY <1>2 DEF UseInv, CreatorInv, FooterInv, FooterEnd
<1>4. img # <<>> /\ LastCell(img) = FooterCell(index_offset, Len(entries))
  BY <1>1, <1>2, <1>3 DEF Whole, LastCell
<1>5. ReadHeader(img) = "ok"
  BY <1>1, <1>4 DEF ReadHeader, HeaderCell, UseInv, CreatorInv, StreamInv, HeaderFirst
<1>6. ReadFooter(img) = "ok"
  BY <1>4 DEF ReadFooter, FooterCell
<1>7. ReadIndex(img) = "ok"
  <2>0. PICK n \in Nat : n = Len(entries)
    BY <1>t
  <2>1. /\ LastCell(img).index_offset = index_offset /\ LastCell(img).index_count = n
        /\ Len(img) = index_offset + n + 1
        /\ \A i \in 1 .. n : img[index_offset + i] = EntryCell(entries[i])
    BY <1>1, <1>3, <1>4, <2>0 DEF FooterCell, Whole
  <2>2. IndexCells(img) = SubSeq(img, index_offset + 1, index_offset + n)
    BY <2>1 DEF IndexCells
  <2>3. /\ DOMAIN IndexCells(img) = 1 .. n
        /\ \A i \in 1 .. n : IndexCells(img)[i] = img[index_offset + i]
    <3>1. n \in Nat /\ index_offset \in Int
      BY <1>t, <2>0
    <3>2. PICK cells : cells = SubSeq(img, index_offset + 1, index_offset + n)
      OBVIOUS
    <3>3. DOMAIN cells = 1 .. n /\ \A i \in 1 .. n : cells[i] = img[index_offset + i]
      BY <3>1, <3>2, Slice
    <3> QED
      BY <2>2, <3>2, <3>3
  <2>4. \A i \in DOMAIN IndexCells(img) : IndexCells(img)[i].k = "entry"
    <3>1. \A i \in 1 .. n : EntryCell(entries[i]).k = "entry"
      BY DEF EntryCell
    <3> QED
      BY <2>1, <2>3, <3>1
  <2>5. ~ (index_offset + n > Len(img))
    BY <1>t, <2>1
  <2> QED
    BY <2>1, <2>4, <2>5 DEF ReadIndex
<1> QED
  BY <1>1, <1>5, <1>6, <1>7 DEF Opens, OpensIndex, OpenError

\* Its records are where they belong, each with a payload of two cells.
LEMMA WholeHeads ==
  ASSUME UseInv, DoneInv, Undamaged
  PROVE  AllHeads
<1>1. img = out /\ ReadFooter(img) = "ok" /\ phase = "use" /\ damage = "none"
  BY WholeOpens DEF Undamaged
<1>2. AllRecords(counter)
  BY <1>1, FooterSeen DEF UseInv
<1>3. ASSUME NEW j \in 0 .. counter - 1 PROVE HeadAt(j)
  <2>1. PICK p : p = RecordAt(j)
    OBVIOUS
  <2>2. p \in DOMAIN img /\ IsChunk(img[p])
    BY <1>1, <1>2, <2>1 DEF AllRecords
  <2>3. img[p].compressed_len = 2
    BY <1>1, <2>2, SeenLength
  <2> QED
    BY <2>1, <2>2, <2>3 DEF HeadAt
<1> QED
  BY <1>3 DEF AllHeads

\* A record of it fails a check only if the chunk in it is one that the window
\* spoils, and panics only if it is one whose table overflows.
LEMMA WholeRecord ==
  ASSUME UseInv, DoneInv, Undamaged, NEW p \in DOMAIN img, IsChunk(img[p])
  PROVE  \/ ChunkError(p, img[p]) = "none"
         \/ ChunkError(p, img[p]) = "ChecksumMismatch" /\ GivenChunks \cap DOMAIN Short # {}
         \/ ChunkError(p, img[p]) = "panic" /\ GivenChunks \cap PanicChunks # {}
<1>1. img = out /\ ReadFooter(img) = "ok" /\ phase = "use"
  BY WholeOpens DEF Undamaged
<1>t. /\ out \in Seq(Cells) /\ Len(out) \in Nat /\ DOMAIN out = 1 .. Len(out)
  BY OutType DEF UseInv, CreatorInv, TypeInv, TypeOK
<1>2. p \in DOMAIN out /\ IsChunk(out[p]) /\ p \in Nat
  BY <1>1, <1>t
<1>3. PICK chunk \in InputChunks : IsRecord(p, chunk)
  BY <1>2 DEF UseInv, CreatorInv, StreamInv, RecordsWhole
<1>4. chunk \in Seq(Bytes) /\ Len(chunk) # 0 /\ chunk \in GivenChunks
  <2>1. Len(chunk) \in 1 .. ChunkSize
    BY InputChunkType
  <2>2. Len(chunk) # 0
    BY <2>1
  <2> QED
    BY <2>2, InputChunkType, InputChunksGiven
<1>5. PICK id, full : id = out[p].id /\ full = CompressFull(chunk)
  OBVIOUS
<1>6. id \in Int
  BY <1>t, <1>2, <1>5, ChunkIdType
<1>7. /\ p + 2 <= Len(out) /\ p + 1 - 1 = p /\ p + 2 - 1 = p + 1 /\ p + 3 - 1 = p + 2
      /\ \A d \in 1 .. 3 : out[p + d - 1] = ChunkRecord(id, chunk)[d]
  BY <1>2, <1>3, <1>5 DEF IsRecord
<1>8. /\ out[p + 1 - 1] = ChunkRecord(id, chunk)[1] /\ out[p + 2 - 1] = ChunkRecord(id, chunk)[2]
      /\ out[p + 3 - 1] = ChunkRecord(id, chunk)[3]
  BY <1>7
<1>9. /\ out[p] = [k |-> "chunk", id |-> id, original_len |-> Len(chunk), compressed_len |-> 2,
                   checksum_orig |-> Crc32(chunk), checksum_comp |-> Crc32(full)]
      /\ out[p + 1] = full[1] /\ out[p + 2] = full[2]
  BY <1>4, <1>5, <1>6, <1>7, <1>8, RecordHead, ChunkRecordType
<1>10. full \in Seq(PayloadCells) /\ Len(full) = 2
  BY <1>4, <1>5, PayloadType
<1> DEFINE payload == SubSeq(img, p + 1, p + 2)
<1>11. payload = full
  <2>1. /\ payload \in Seq(Cells) /\ Len(payload) = 2
        /\ \A d \in 1 .. 2 : payload[d] = out[p + d]
    <3>1. /\ p + 1 \in Int /\ p + 2 \in Int /\ p + 1 <= p + 2
          /\ (p + 2) - (p + 1) + 1 = 2 /\ \A d \in 1 .. 2 : p + 1 + d - 1 = p + d
      BY <1>2
    <3>2. \A i \in p + 1 .. p + 2 : img[i] \in Cells
      BY <1>1, <1>t, <1>2, <1>7
    <3> QED
      BY <1>1, <3>1, <3>2, SubSeqProperties
  <2> HIDE DEF payload
  <2>2. payload[1] = full[1] /\ payload[2] = full[2]
    BY <1>9, <2>1
  <2> QED
    BY <1>10, <2>1, <2>2
<1> HIDE DEF payload
<1>12. PICK record : record = img[p]
  OBVIOUS
<1>13. /\ record.compressed_len = 2 /\ record.original_len = Len(chunk)
       /\ record.checksum_comp = Crc32(full) /\ record.checksum_orig = Crc32(chunk)
  BY <1>1, <1>9, <1>12
<1>14. SubSeq(img, p + 1, p + record.compressed_len) = full
  BY <1>11, <1>13 DEF payload
<1>15. ~ (p + record.compressed_len > Len(img)) /\ ~ (AsI64(record.compressed_len) < 0)
  BY <1>1, <1>t, <1>2, <1>7, <1>13, SmallLength
<1>16. ChunkError(p, record) =
         IF DecoderPanics(full, Len(chunk)) THEN "panic"
         ELSE IF Crc32(Decompress(full, Len(chunk))) # Crc32(chunk) THEN "ChecksumMismatch"
         ELSE "none"
  <2>1. Decodable(full)
    BY <1>4, <1>5, Decompressed
  <2> QED
    BY <1>13, <1>14, <1>15, <2>1 DEF ChunkError
<1>17. /\ DecoderPanics(full, Len(chunk)) => chunk \in PanicChunks
       /\ Decompress(full, Len(chunk)) # chunk => chunk \in DOMAIN Short
  BY <1>4, <1>5, Decompressed
<1> QED
  BY <1>4, <1>12, <1>16, <1>17

-----------------------------------------------------------------------------
(* What an extraction has spent of its limit: what lies in the files up to   *)
(* the one in hand.                                                          *)

FileSizes == [i \in DOMAIN files |-> Len(files[i].data)]
SizeTo(i) == Sums(FileSizes)[i]

SpentInv ==
  /\ rpc \in {"idle", "open", "scan"} => ent = 1
  /\ rpc \in {"open", "scan"} => total = 0
  /\ rpc = "entry" => ent - 1 \in 0 .. Len(files)
  /\ rpc = "entry" /\ AllOrdered => total <= SizeTo(ent - 1)
  /\ rpc \in {"chunks", "write", "mode"} /\ AllOrdered =>
       total <= SizeTo(ent - 1) + Len(file_data)

LEMMA SizesUp ==
  ASSUME UseInv
  PROVE  /\ SizeTo(0) = 0
         /\ \A i \in 0 .. Len(files) : SizeTo(i) \in Nat /\ SizeTo(i) <= Sizes
         /\ \A i \in 1 .. Len(files) :
              Len(files[i].data) \in Nat /\ SizeTo(i) = SizeTo(i - 1) + Len(files[i].data)
         /\ Sizes \in Nat
<1>1. /\ DOMAIN files = 1 .. Len(files) /\ Len(files) \in Nat
      /\ \A i \in 1 .. Len(files) : Len(files[i].data) \in Nat
  <2>1. DOMAIN files = 1 .. Len(files) /\ Len(files) \in Nat
    BY FilesType DEF UseInv, CreatorInv, TypeInv, TypeOK
  <2> QED
    BY <2>1, GivenFiles
<1> DEFINE lens == FileSizes
<1>2. /\ Len(lens) = Len(files) /\ \A i \in 1 .. Len(files) : lens[i] = Len(files[i].data)
  <2>1. lens \in Seq(Nat) /\ DOMAIN lens = 1 .. Len(files)
    BY <1>1 DEF FileSizes
  <2> QED
    BY <1>1, <2>1 DEF FileSizes
<1> HIDE DEF lens
<1>3. /\ Sums(lens) \in [0 .. Len(files) -> Nat] /\ Sums(lens)[0] = 0
      /\ \A i \in 1 .. Len(files) : Sums(lens)[i] = Sums(lens)[i - 1] + Len(files[i].data)
  <2>1. Len(lens) \in Nat /\ \A i \in 1 .. Len(lens) : lens[i] \in Nat
    BY <1>1, <1>2
  <2> QED
    BY <1>2, <2>1, SumsUnfold
<1>4. \A i : SizeTo(i) = Sums(lens)[i]
  BY DEF SizeTo, lens
<1>5. Sizes = SizeTo(Len(files))
  BY <1>2, <1>4 DEF Sizes, Total, lens, FileSizes
<1>6. ASSUME NEW i \in 0 .. Len(files) PROVE SizeTo(i) <= SizeTo(Len(files))
  <2> DEFINE K == {m \in 0 .. Len(files) : m < i \/ SizeTo(i) <= SizeTo(m)}
  <2>1. 0 \in K
    BY <1>1, <1>3, <1>4
  <2>2. ASSUME NEW m \in 1 .. Len(files), m - 1 \in K PROVE m \in K
    <3>1. /\ SizeTo(m) = SizeTo(m - 1) + Len(files[m].data) /\ Len(files[m].data) \in Nat
          /\ SizeTo(m) \in Nat /\ SizeTo(m - 1) \in Nat /\ SizeTo(i) \in Nat
      BY <1>1, <1>3, <1>4, SMTT(60)
    <3>2. m - 1 < i \/ SizeTo(i) <= SizeTo(m - 1)
      BY <2>2
    <3>3. m < i \/ m = i \/ SizeTo(i) <= SizeTo(m)
      BY <1>1, <3>1, <3>2
    <3> QED
      BY <3>1, <3>3
  <2> HIDE DEF K
  <2>3. Len(files) \in K
    <3>1. \A m \in 0 .. Len(files) : m \in K
      BY <1>1, <2>1, <2>2, Climb
    <3> QED
      BY <1>1, <3>1
  <2> QED
    BY <1>1, <2>3 DEF K
<1>7. \A i \in 0 .. Len(files) : SizeTo(i) \in Nat
  BY <1>3, <1>4
<1>8. SizeTo(0) = 0 /\ Sizes \in Nat
  <2>1. Len(files) \in 0 .. Len(files)
    BY <1>1
  <2> QED
    BY <1>3, <1>4, <1>5, <1>7, <2>1
<1>9. \A i \in 1 .. Len(files) : SizeTo(i) = SizeTo(i - 1) + Len(files[i].data)
  BY <1>3, <1>4
<1> HIDE DEF SizeTo
<1> QED
  BY <1>1, <1>5, <1>6, <1>7, <1>8, <1>9

\* With each chunk the file in hand grows, and never past what was put in.
LEMMA ChunkFits ==
  ASSUME UseInv, MapInv, DataInv, Guarded, EntOrdered, rpc = "chunks",
         chunk_idx < Entry.chunk_count,
         NEW chunk, chunk = SplitIntoChunks(files[ent].data)[chunk_idx + 1]
  PROVE  /\ Len(chunk) \in Nat /\ Len(file_data) \in Nat
         /\ Len(file_data \o chunk) = Len(file_data) + Len(chunk)
         /\ Len(file_data) + Len(chunk) <= Len(files[ent].data)
<1>1. PICK data : data = files[ent].data
  OBVIOUS
<1>2. /\ data \in Seq(Bytes) /\ Entry.chunk_count = ChunkCount(data)
      /\ chunk_idx \in Nat /\ ChunkCount(data) \in Nat
  BY <1>1, EntryInHand, ChunkCountNat DEF MapInv
<1>3. file_data = Joined(data, chunk_idx)
  BY <1>1 DEF DataInv
<1>4. chunk \in Seq(Bytes)
  <2>1. PICK id : id = Entry.first_chunk + chunk_idx
    OBVIOUS
  <2>2. Led
    BY DEF Guarded, Led
  <2> QED
    BY <2>1, <2>2, ChunkPlace DEF EntOrdered
<1>5. file_data \o chunk = Joined(data, chunk_idx + 1)
  BY <1>1, <1>2, <1>3, JoinChunk
<1>6. Joined(data, chunk_idx) \in Seq(Bytes)
  <2>1. Upto(data, chunk_idx) \in 0 .. Len(data)
    BY <1>2, UptoBounds
  <2> QED
    BY <1>2, <2>1 DEF Joined
<1>7. Len(Joined(data, chunk_idx + 1)) <= Len(data)
  <2>1. chunk_idx + 1 \in Nat
    BY <1>2
  <2>2. Upto(data, chunk_idx + 1) \in 0 .. Len(data)
    BY <1>2, <2>1, UptoBounds
  <2>3. Len(Joined(data, chunk_idx + 1)) = Upto(data, chunk_idx + 1)
    BY <1>2, <2>2 DEF Joined
  <2> QED
    BY <1>2, <2>2, <2>3
<1>8. PICK had, has : /\ had = Joined(data, chunk_idx)
                  /\ has = Joined(data, chunk_idx + 1)
  OBVIOUS
<1>9. /\ had \in Seq(Bytes) /\ had \o chunk = has
      /\ Len(has) <= Len(data) /\ file_data = had
  BY <1>3, <1>5, <1>6, <1>7, <1>8
<1>10. Len(had \o chunk) = Len(had) + Len(chunk)
       /\ Len(had) \in Nat /\ Len(chunk) \in Nat
  BY <1>4, <1>9
<1> QED
  BY <1>1, <1>9, <1>10

LEMMA SpentInit == SystemInit => SpentInv
  BY DEF SystemInit, ReadInit, SpentInv

LEMMA SpentStep ==
  ASSUME UseInv, MapInv, DataInv, SpentInv, CountInv, Guarded, [SystemNext]_systemVars
  PROVE  SpentInv'
<1>f. files' = files /\ (\A i : SizeTo(i)' = SizeTo(i))
  BY SystemSteps DEF UseInv, SizeTo, FileSizes
<1>1. CASE UNCHANGED systemVars \/ ReaderIdles
  <2>1. UNCHANGED <<rpc, ent, total, file_data>>
    BY <1>1 DEF systemVars, ReaderIdles, readerVars, locals, results
  <2>2. SizeTo(ent - 1)' = SizeTo(ent - 1)
    BY <1>f, <2>1 DEF SizeTo, FileSizes
  <2>3. CASE UNCHANGED systemVars
    <3>1. UNCHANGED <<entries, out>>
      BY <2>3 DEF systemVars, createVars, createMemory
    <3>2. AllOrdered' <=> AllOrdered
      BY <3>1, ShuffleStays
    <3> QED
      BY <1>f, <2>1, <2>2, <3>2 DEF SpentInv
  <2>4. CASE ReaderIdles
    <3>1. rpc' = "idle"
      BY <2>1, <2>4 DEF ReaderIdles
    <3> QED
      BY <2>1, <3>1 DEF SpentInv
  <2> QED
    BY <1>1, <2>3, <2>4
<1>2. CASE ReaderStep
  <2> USE DEF Finish, Continue, ResetLocals, locals, options, results
  <2>1. total \in Nat /\ ent \in Nat \ {0} /\ Len(files) \in Nat
    BY GivenFiles DEF CountInv, UseInv, OpenInv
  <2>o. AllOrdered' <=> AllOrdered
    <3>1. UNCHANGED <<entries, out>>
      BY <1>2 DEF ReaderStep, createVars, createMemory
    <3> QED
      BY <3>1, ShuffleStays
  <2>2. ASSUME rpc' = "idle", ent' = 1 PROVE SpentInv'
    BY <2>2 DEF SpentInv
  <2>3. CASE Command
    <3>1. rpc = "idle" /\ rpc' = "open" /\ total' = 0 /\ ent' = ent
      BY <2>3 DEF Command, ExtractCommand, ListCommand, TestCommand, Start
    <3> QED
      BY <3>1 DEF SpentInv
  <2>4. CASE OpenRefused \/ OpenList \/ TestEnd \/ EndExtract \/ RefuseEntry \/ IoError \/ Die
    <3>1. rpc' = "idle" /\ ent' = 1
      BY <2>4 DEF OpenRefused, OpenList, TestEnd, EndExtract, RefuseEntry, IoError, Die
    <3> QED
      BY <2>2, <3>1
  <2>5. CASE OpenExtract \/ OpenTest \/ ScanRecord \/ TestRecord
    <3>1. /\ rpc \in {"open", "scan"}
          /\ \/ rpc' = "idle" /\ ent' = 1
             \/ rpc' = "scan" /\ UNCHANGED <<ent, total>>
      BY <2>5 DEF OpenExtract, OpenTest, StartScan, ScanRecord, TestRecord
    <3> QED
      BY <2>2, <3>1 DEF SpentInv
  <2>6. CASE ScanEnd
    <3>1. rpc' = "entry" /\ ent = 1 /\ ent' = 1 /\ total' = 0
      BY <2>6 DEF ScanEnd, SpentInv
    <3>2. SizeTo(ent - 1)' = 0 /\ (ent - 1)' = 0
      BY <1>f, <3>1, SizesUp DEF SizeTo, FileSizes
    <3> QED
      BY <1>f, <2>1, <3>1, <3>2 DEF SpentInv
  <2>7. CASE SkipEntry
    <3>1. /\ rpc = "entry" /\ rpc' = "entry" /\ cmd = "x" /\ ent <= Len(Entries)
          /\ ent' = ent + 1 /\ UNCHANGED total
      BY <2>7 DEF SkipEntry, EntryReady, UseInv, OpenInv
    <3>2. PICK n \in Nat : n = ent - 1 /\ n + 1 = ent
      BY <2>1
    <3>3. n + 1 \in 1 .. Len(files) /\ n \in 0 .. Len(files) /\ n + 1 \in 0 .. Len(files)
      BY <2>1, <3>1, <3>2, EntrySeen
    <3>4. /\ SizeTo(n) \in Nat /\ SizeTo(n + 1) \in Nat /\ SizeTo(n) <= SizeTo(n + 1)
      <4>1. /\ SizeTo(n) \in Nat /\ SizeTo(n + 1) \in Nat /\ Len(files[n + 1].data) \in Nat
            /\ SizeTo(n + 1) = SizeTo((n + 1) - 1) + Len(files[n + 1].data)
        BY <3>3, SizesUp
      <4> QED
        BY <3>2, <4>1
    <3>5. AllOrdered => total <= SizeTo(n)
      BY <3>1, <3>2 DEF SpentInv
    <3>6. (AllOrdered => total' <= SizeTo(n + 1)) /\ (ent - 1)' = n + 1
      BY <2>1, <3>1, <3>2, <3>4, <3>5
    <3>7. SizeTo(ent - 1)' = SizeTo(n + 1)
      BY <1>f, <3>6 DEF SizeTo, FileSizes
    <3> QED
      BY <1>f, <2>o, <3>1, <3>3, <3>6, <3>7 DEF SpentInv
  <2>8. CASE StartEntry
    <3>1. /\ rpc = "entry" /\ rpc' = "chunks" /\ file_data' = <<>>
          /\ UNCHANGED <<ent, total>>
      BY <2>8 DEF StartEntry, EntryReady
    <3>2. (AllOrdered => total <= SizeTo(ent - 1)) /\ SizeTo(ent - 1) \in Nat
      BY <3>1, SizesUp DEF SpentInv
    <3>3. SizeTo(ent - 1)' = SizeTo(ent - 1) /\ Len(file_data') = 0
      BY <1>f, <3>1 DEF SizeTo, FileSizes
    <3>4. AllOrdered => total' <= SizeTo(ent - 1)' + Len(file_data')
      BY <2>1, <3>1, <3>2, <3>3
    <3> QED
      BY <2>o, <3>1, <3>4 DEF SpentInv
  <2>9. CASE ReadChunk
    <3>1. CASE rpc' = "idle"
      BY <2>2, <2>9, <3>1 DEF ReadChunk
    <3>2. CASE rpc' = "chunks" /\ ~ AllOrdered
      BY <2>o, <3>2 DEF SpentInv
    <3>3. CASE rpc' # "idle" /\ AllOrdered
      <4>o. EntOrdered
        BY <2>9, <3>3, EntInOrder DEF ReadChunk, Guarded, Led
      <4>1. PICK at, record :
           /\ Entry.first_chunk + chunk_idx \in DOMAIN chunk_map
           /\ chunk_map[Entry.first_chunk + chunk_idx].at = at
           /\ chunk_map[Entry.first_chunk + chunk_idx].record = record
           /\ ChunkError(at, record) = "none"
           /\ file_data' = file_data \o Decompress(PayloadOf(at, record), record.original_len)
           /\ total' = total + Len(Decompress(PayloadOf(at, record), record.original_len))
           /\ chunk_idx < Entry.chunk_count
           /\ rpc = "chunks" /\ rpc' = "chunks" /\ UNCHANGED ent
        BY <2>9, <3>3, ReadOn
      <4>2. PICK chunk : chunk = SplitIntoChunks(files[ent].data)[chunk_idx + 1]
        OBVIOUS
      <4>3. Decompress(PayloadOf(at, record), record.original_len) = chunk
        BY <4>o, <4>1, <4>2, RightChunk DEF EntOrdered
      <4>4. /\ Len(chunk) \in Nat /\ Len(file_data) \in Nat
            /\ Len(file_data') = Len(file_data) + Len(chunk)
        BY <4>o, <4>1, <4>2, <4>3, ChunkFits
      <4>5. total <= SizeTo(ent - 1) + Len(file_data) /\ SizeTo(ent - 1) \in Nat
        <5>1. ent - 1 \in 0 .. Len(files)
          BY <2>1, <4>1, EntryInHand
        <5> QED
          BY <3>3, <4>1, <5>1, SizesUp DEF SpentInv
      <4>6. SizeTo(ent - 1)' = SizeTo(ent - 1)
        BY <1>f, <4>1 DEF SizeTo, FileSizes
      <4>7. total' = total + Len(chunk)
        BY <4>1, <4>3
      <4>8. total' <= SizeTo(ent - 1)' + Len(file_data')
        BY <2>1, <4>4, <4>5, <4>6, <4>7
      <4> QED
        BY <4>1, <4>8 DEF SpentInv
    <3> QED
      BY <2>9, <3>1, <3>2, <3>3 DEF ReadChunk
  <2>10. CASE CreateFile \/ WriteFile
    <3>1. /\ rpc \in {"chunks", "write"}
          /\ \/ rpc' = "idle" /\ ent' = 1
             \/ rpc' \in {"write", "mode"} /\ UNCHANGED <<ent, total, file_data>>
      BY <2>10 DEF CreateFile, WriteFile
    <3>2. CASE rpc' \in {"write", "mode"} /\ UNCHANGED <<ent, total, file_data>>
      <4>1. SizeTo(ent - 1)' = SizeTo(ent - 1)
        BY <1>f, <3>2 DEF SizeTo, FileSizes
      <4> QED
        BY <2>o, <3>1, <3>2, <4>1 DEF SpentInv
    <3> QED
      BY <2>2, <3>1, <3>2
  <2>11. CASE SetMode
    <3>1. rpc = "mode" /\ rpc' = "entry" /\ ent' = ent + 1 /\ UNCHANGED total
      BY <2>11 DEF SetMode
    <3>2. PICK n : n = ent
      OBVIOUS
    <3>3. /\ n \in 1 .. Len(files) /\ n \in 0 .. Len(files)
          /\ AllOrdered => file_data = files[n].data
      BY <3>1, <3>2, EntryInHand, EntInOrder DEF DataInv, Guarded, Led
    <3>4. SizeTo(n) = SizeTo(n - 1) + Len(files[n].data)
      BY <3>3, SizesUp
    <3>5. (AllOrdered => total' <= SizeTo(n)) /\ (ent - 1)' = n
      BY <2>1, <3>1, <3>2, <3>3, <3>4 DEF SpentInv
    <3>6. SizeTo(ent - 1)' = SizeTo(n)
      BY <1>f, <3>5 DEF SizeTo, FileSizes
    <3> QED
      BY <1>f, <2>o, <3>1, <3>3, <3>5, <3>6 DEF SpentInv
  <2> QED
    BY <1>2, <2>3, <2>4, <2>5, <2>6, <2>7, <2>8, <2>9, <2>10, <2>11 DEF ReaderStep, ReadStep
<1> QED
  BY <1>1, <1>2, SystemSteps DEF UseInv

\* A chunk that goes past the limit shows that the files do.
LEMMA BombTells ==
  ASSUME UseInv, MapInv, DataInv, SpentInv, CountInv, Guarded, AllOrdered,
         rpc = "chunks", chunk_idx < Entry.chunk_count,
         NEW id, id = Entry.first_chunk + chunk_idx, id \in DOMAIN chunk_map,
         NEW at, at = chunk_map[id].at, NEW record, record = chunk_map[id].record,
         ChunkError(at, record) = "none",
         total + Len(Decompress(PayloadOf(at, record), record.original_len)) > limit
  PROVE  Sizes > limit
<1>o. EntOrdered
  BY EntInOrder DEF Guarded, Led
<1>1. PICK chunk : chunk = SplitIntoChunks(files[ent].data)[chunk_idx + 1]
  OBVIOUS
<1>2. Decompress(PayloadOf(at, record), record.original_len) = chunk
  BY <1>o, <1>1, RightChunk DEF EntOrdered
<1>3. /\ Len(chunk) \in Nat /\ Len(file_data) \in Nat
      /\ Len(file_data) + Len(chunk) <= Len(files[ent].data)
  BY <1>o, <1>1, ChunkFits
<1>4. /\ ent \in 1 .. Len(files) /\ ent \in 0 .. Len(files) /\ ent - 1 \in 0 .. Len(files)
      /\ total \in Nat /\ limit \in Nat
  <2>1. ent \in 1 .. Len(files) /\ Len(files) \in Nat
    BY EntryInHand, GivenFiles
  <2>2. /\ ent \in 0 .. Len(files) /\ ent - 1 \in 0 .. Len(files)
    BY <2>1
  <2>3. total \in Nat /\ limit \in Limits \cup {0}
    BY DEF CountInv
  <2>4. limit \in Nat
    BY <2>3, LimitsAssumption
  <2> QED
    BY <2>1, <2>2, <2>3, <2>4
<1>5. /\ SizeTo(ent) = SizeTo(ent - 1) + Len(files[ent].data) /\ SizeTo(ent) <= Sizes
      /\ SizeTo(ent - 1) \in Nat /\ Sizes \in Nat /\ Len(files[ent].data) \in Nat
  BY <1>4, SizesUp
<1>6. total <= SizeTo(ent - 1) + Len(file_data) /\ total + Len(chunk) > limit
  BY <1>2 DEF SpentInv
<1> QED
  BY <1>3, <1>4, <1>5, <1>6, SMTT(60)

AlarmInv == damage = "none" => DataInv /\ ScanInv /\ SpentInv

LEMMA AlarmInvStep ==
  ASSUME SafeInv, CountInv, AlarmInv, [SystemNext]_systemVars
  PROVE  AlarmInv'
<1>1. damage' = "none" => damage = "none"
  BY SystemSteps DEF SafeInv, UseInv, systemVars, ReaderIdles, ReaderStep
<1>2. SUFFICES ASSUME damage = "none" PROVE AlarmInv'
  BY <1>1 DEF AlarmInv
<1>3. Guarded /\ Led /\ damage # "tag"
  BY <1>2 DEF Guarded, Led
<1> QED
  BY <1>2, <1>3, DataStep, ScanStep, SpentStep DEF AlarmInv, SafeInv

\* No step of a reader finds fault with an archive that is whole and as it was
\* written, but for the three faults of its creator.
LEMMA AlarmStep ==
  ASSUME SafeInv, DoneInv, CountInv, AlarmInv, NoFalseAlarm, [SystemNext]_systemVars
  PROVE  NoFalseAlarm'
<1> DEFINE Fine == {"none", "ok", "killed"} \cup OutputErrors
<1>f. Sizes' = Sizes /\ GivenChunks' = GivenChunks
  BY SystemSteps DEF SafeInv, UseInv, Sizes, GivenChunks, Given
<1>1. CASE UNCHANGED systemVars
  <2>1. UNCHANGED <<pc, flushed, out, damage, res, limit>> /\ UNCHANGED <<entries, out>>
    BY <1>1 DEF systemVars, createVars, createMemory, readerVars, options
  <2>2. AllOrdered' <=> AllOrdered
    BY <2>1, ShuffleStays
  <2> QED
    BY <1>f, <2>1, <2>2 DEF NoFalseAlarm, OutputErrors
<1>2. CASE ReaderIdles
  <2>1. (phase = "create" => res = "none") /\ res' = res
    BY <1>2 DEF ReaderIdles, readerVars, SafeInv, UseInv, ImgInv
  <2> QED
    BY <1>2, <2>1 DEF ReaderIdles, NoFalseAlarm
<1>3. CASE ReaderStep
  <2> USE DEF Finish, Continue, ResetLocals, locals, options
  <2>1. UNCHANGED <<pc, flushed, out, damage>> /\ phase = "use"
    BY <1>3 DEF ReaderStep, createVars, createMemory
  <2>o. AllOrdered' <=> AllOrdered
    <3>1. UNCHANGED <<entries, out>>
      BY <1>3 DEF ReaderStep, createVars, createMemory
    <3> QED
      BY <3>1, ShuffleStays
  <2>2. SUFFICES ASSUME Undamaged PROVE NoFalseAlarm'
    BY <2>1 DEF Undamaged, NoFalseAlarm
  <2>3. /\ UseInv /\ MapInv /\ DataInv /\ ScanInv /\ SpentInv /\ Guarded /\ Led
    BY <2>2 DEF AlarmInv, Undamaged, SafeInv, Guarded, Led
  <2>4. /\ Opens /\ OpensIndex /\ AllHeads
    BY <2>2, <2>3, WholeOpens, WholeHeads
  <2>5. ASSUME res' \in Fine PROVE NoFalseAlarm'
    BY <2>5 DEF NoFalseAlarm, OutputErrors
  <2>6. ASSUME res' = res, limit' = limit PROVE NoFalseAlarm'
    BY <1>f, <2>1, <2>o, <2>2, <2>6 DEF NoFalseAlarm, Undamaged, OutputErrors
  <2>7. CASE Command
    <3>1. res' = "none"
      BY <2>7 DEF Command, ExtractCommand, ListCommand, TestCommand, Start
    <3> QED
      BY <2>5, <3>1
  <2>8. CASE OpenRefused
    <3>1. OpenError(cmd # "t") # "ok"
      BY <2>8 DEF OpenRefused
    <3>2. OpenError(TRUE) = "ok" /\ OpenError(FALSE) = "ok"
      BY <2>4 DEF Opens, OpensIndex
    <3>3. (cmd # "t") = TRUE \/ (cmd # "t") = FALSE
      OBVIOUS
    <3> QED
      BY <3>1, <3>2, <3>3
  <2>9. CASE OpenList \/ TestEnd \/ EndExtract \/ IoError \/ Die
    <3>1. res' \in Fine
      BY <2>9 DEF OpenList, TestEnd, EndExtract, IoError, Die, OutputErrors
    <3> QED
      BY <2>5, <3>1
  <2>10. CASE OpenExtract \/ OpenTest \/ ScanEnd \/ SkipEntry \/ StartEntry \/ SetMode
    <3>1. res' = res /\ limit' = limit
      BY <2>10 DEF OpenExtract, OpenTest, StartScan, ScanEnd, SkipEntry, StartEntry,
                   EntryReady, SetMode
    <3> QED
      BY <2>6, <3>1
  <2>11. CASE CreateFile \/ WriteFile
    <3>1. limit' = limit /\ (res' = res \/ res' \in Fine)
      BY <2>11 DEF CreateFile, WriteFile, OutputErrors
    <3> QED
      BY <2>5, <2>6, <3>1
  <2>12. CASE RefuseEntry
    <3>1. rpc = "entry" /\ ent <= Len(Entries) /\ cmd = "x" /\ ent \in Nat \ {0}
      BY <2>3, <2>12 DEF RefuseEntry, UseInv, OpenInv
    <3>2. ent \in 1 .. Len(files) /\ Len(entries) = Len(files)
      BY <2>3, <3>1, EntrySeen, GivenFiles
    <3>3. PICK first_chunk : Entry = EntryOf(ent, first_chunk)
      BY <2>3, <3>1, <3>2, EntrySeen DEF Entry
    <3>4. Dest = SanitisePath(files[ent].name)
      BY <3>3 DEF Dest, EntryOf
    <3>5. Dest # <<>>
      BY <2>3, <3>2, <3>4 DEF UseInv, CreatorInv, StreamInv, EntriesMatch
    <3>6. res' \in Fine
      BY <2>12, <3>5 DEF RefuseEntry, BlockedError, OutputErrors
    <3> QED
      BY <2>5, <3>6
  <2>13. CASE ScanRecord
    <3>1. /\ rpc = "scan" /\ cmd = "x" /\ AtRecord /\ limit' = limit
          /\ \/ pos + 1 + AsI64(img[pos + 1].compressed_len) < 0
             \/ res' = res
      BY <2>13 DEF ScanRecord
    <3>2. pos \in Nat /\ pos + 1 \in DOMAIN img /\ IsChunk(img[pos + 1])
      BY <2>1, <2>3, <3>1 DEF MapInv, AtRecord, UseInv, ImgInv, IsChunk
    <3>3. AsI64(img[pos + 1].compressed_len) = 2
      BY <2>1, <2>2, <2>3, <3>2, SeenLength, SmallLength DEF Undamaged
    <3> QED
      BY <2>6, <3>1, <3>2, <3>3
  <2>14. CASE TestRecord
    <3>1. /\ AtRecord /\ limit' = limit
          /\ IF ChunkError(pos + 1, img[pos + 1]) = "none" THEN res' = res
             ELSE res' = ChunkError(pos + 1, img[pos + 1])
      BY <2>14 DEF TestRecord
    <3>2. pos + 1 \in DOMAIN img /\ IsChunk(img[pos + 1])
      BY <2>1, <2>3, <3>1 DEF MapInv, AtRecord, UseInv, ImgInv, IsChunk
    <3>3. \/ res' = res
          \/ res' = "ChecksumMismatch" /\ GivenChunks \cap DOMAIN Short # {}
          \/ res' = "panic" /\ GivenChunks \cap PanicChunks # {}
      BY <2>2, <2>3, <3>1, <3>2, WholeRecord
    <3> QED
      BY <1>f, <2>6, <3>1, <3>3 DEF NoFalseAlarm
  <2>15. CASE ReadChunk
    <3>1. PICK id, at, record : /\ id = Entry.first_chunk + chunk_idx
                                /\ at = chunk_map[id].at /\ record = chunk_map[id].record
      OBVIOUS
    <3>2. rpc = "chunks" /\ chunk_idx < Entry.chunk_count /\ limit' = limit
      BY <2>15 DEF ReadChunk
    <3>3. CASE id \notin DOMAIN chunk_map
      <4>1. res' = "InvalidChunk"
        BY <2>15, <3>1, <3>3 DEF ReadChunk
      <4>2. ~ AllOrdered
        BY <2>3, <2>4, <3>1, <3>2, <3>3, GoodRead, EntInOrder
      <4> QED
        BY <2>o, <4>1, <4>2 DEF NoFalseAlarm
    <3>4. CASE id \in DOMAIN chunk_map
      <4>1. at \in DOMAIN img /\ record = img[at] /\ IsChunk(img[at])
        BY <2>3, <3>1, <3>4 DEF MapInv
      <4>2. \/ ChunkError(at, record) = "none"
            \/ ChunkError(at, record) = "ChecksumMismatch" /\ GivenChunks \cap DOMAIN Short # {}
            \/ ChunkError(at, record) = "panic" /\ GivenChunks \cap PanicChunks # {}
        BY <2>2, <2>3, <4>1, WholeRecord
      <4>3. \/ ChunkError(at, record) # "none" /\ res' = ChunkError(at, record)
            \/ /\ ChunkError(at, record) = "none"
               /\ \/ /\ total + Len(Decompress(PayloadOf(at, record), record.original_len)) > limit
                     /\ res' = "DecompressionBomb"
                  \/ res' = res
        BY <2>15, <3>1, <3>4 DEF ReadChunk, PayloadOf
      <4>4. ASSUME ChunkError(at, record) = "none",
                   total + Len(Decompress(PayloadOf(at, record), record.original_len)) > limit,
                   res' = "DecompressionBomb"
            PROVE  NoFalseAlarm'
        <5>1. ~ AllOrdered \/ Sizes > limit
          BY <2>3, <3>1, <3>2, <3>4, <4>4, BombTells
        <5> QED
          BY <1>f, <2>o, <3>2, <4>4, <5>1 DEF NoFalseAlarm
      <4>5. ASSUME ChunkError(at, record) # "none", res' = ChunkError(at, record)
            PROVE  NoFalseAlarm'
        BY <1>f, <4>2, <4>5 DEF NoFalseAlarm
      <4> QED
        BY <2>6, <3>2, <4>3, <4>4, <4>5
    <3> QED
      BY <3>3, <3>4
  <2> QED
    BY <1>3, <2>7, <2>8, <2>9, <2>10, <2>11, <2>12, <2>13, <2>14, <2>15 DEF ReaderStep, ReadStep
<1> QED
  BY <1>1, <1>2, <1>3, SystemSteps DEF SafeInv, UseInv

\* An archive that was written to its end, is on the disk and was not damaged
\* since, is refused only for what the user asks and the output directory holds,
\* or for one of three faults of its creator: ids out of order (archive.rs:134),
\* a chunk that the window spoils (lz77.rs:57), one whose table overflows
\* (ans.rs:58).  That is so for any number of workers and whatever damage the
\* storage may do to other archives.
THEOREM NoAlarmRaised == SystemSpec => []NoFalseAlarm
<1> DEFINE Inv == SafeInv /\ PlaceInv /\ CountInv /\ DoneInv /\ AlarmInv /\ NoFalseAlarm
<1>1. SystemInit => Inv
  BY SafeInit, PlaceInit, CountInit, DoneInit, DataInit, ScanInit, SpentInit
  DEF SystemInit, Init, ReadInit, AlarmInv, NoFalseAlarm
<1>2. Inv /\ [SystemNext]_systemVars => Inv'
  <2> SUFFICES ASSUME Inv, [SystemNext]_systemVars PROVE Inv'
    OBVIOUS
  <2>1. DoneInv'
    BY DoneStep DEF SafeInv, UseInv
  <2> QED
    BY <2>1, SafeStep, PlaceStep, CountStep, AlarmInvStep, AlarmStep
<1>3. Inv => NoFalseAlarm
  OBVIOUS
<1> HIDE DEF Inv
<1> QED
  BY <1>1, <1>2, <1>3, PTL DEF SystemSpec
=============================================================================
