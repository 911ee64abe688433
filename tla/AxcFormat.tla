------------------------------ MODULE AxcFormat ------------------------------
(***************************************************************************)
(* The container of format.rs: what an archive is made of, and the pure    *)
(* helpers that the writer and the reader share.                           *)
(*                                                                         *)
(* An archive is a sequence of CELLS.  One cell stands for the file        *)
(* header, for a chunk record's 34-byte header, for half of a chunk's      *)
(* payload (the codec flag, or the encoded body), for an index entry or    *)
(* for the footer.  Offsets count cells from 0, as the code counts bytes.  *)
(* The field k of a cell plays the part of the tag bytes: a reader that    *)
(* lands on a cell of another kind sees another tag.                       *)
(***************************************************************************)
EXTENDS Integers, Sequences

CONSTANTS
  Bytes,        \* the values of a byte that matter
  ChunkSize,    \* CreateOptions.chunk_size, in bytes
  LzChunks,     \* the chunk contents for which the LZ path is the shorter one
  Short,        \* what comes back of those with a match at the offset 0
  PanicChunks,  \* the chunk contents whose decoding panics
  LenRange      \* how many values a length field has: 2^64 in the code

\* slice::chunks panics on a chunk size of 0, so `axc c -s 0` never gets here.
ASSUME ChunkSizeAssumption == ChunkSize \in Nat \ {0}

\* The decoder skips such a match (lz77.rs:132), so some bytes are missing; the
\* first token is a literal, so not all are.
ASSUME ShortAssumption ==
  /\ DOMAIN Short \subseteq LzChunks
  /\ \A chunk \in DOMAIN Short :
       /\ chunk \in Seq(Bytes) /\ Short[chunk] \in Seq(Bytes)
       /\ Short[chunk] # <<>> /\ Len(Short[chunk]) < Len(chunk)

ASSUME LenRangeAssumption == LenRange \in Nat /\ LenRange >= 8

-----------------------------------------------------------------------------
(* Paths: a name is the sequence of its components. *)

ParentDir == ".."
CurDir    == "."
RootDir   == "/"

Normal(c) == c \notin {ParentDir, CurDir, RootDir}

\* Mutation: only the root directory is refused.
SanitiseRootOnly(name) ==
  IF \E i \in DOMAIN name : name[i] = RootDir THEN <<>> ELSE name

\* archive.rs sanitise_path: the relative path, or <<>> for PathTraversal (an
\* empty result is refused by the code as well).
SanitisePath(name) ==
  IF \E i \in DOMAIN name : name[i] \in {ParentDir, RootDir}
  THEN <<>>
  ELSE LET pushed[i \in 0 .. Len(name)] ==  \* after i components
             IF i = 0 THEN <<>>
             ELSE IF Normal(name[i]) THEN Append(pushed[i - 1], name[i])
             ELSE pushed[i - 1]
       IN pushed[Len(name)]

\* The directories that create_dir_all(dest.parent()) makes.
Parents(dest) == { SubSeq(dest, 1, i) : i \in 1 .. Len(dest) - 1 }

-----------------------------------------------------------------------------
(* Chunks, checksums and payloads. *)

ChunkCount(data) == (Len(data) + ChunkSize - 1) \div ChunkSize

\* archive.rs split_into_chunks: every chunk is full except perhaps the last.
SplitIntoChunks(data) ==
  [ i \in 1 .. ChunkCount(data) |->
      SubSeq(data, (i - 1) * ChunkSize + 1,
             IF i * ChunkSize < Len(data) THEN i * ChunkSize ELSE Len(data)) ]

\* checksum.rs Crc32::oneshot, without collisions.
Crc32(x) == [crc |-> x]

\* The cast `n as i64` of a length.
AsI64(n) == IF 2 * n < LenRange THEN n ELSE n - LenRange

\* mod.rs compress_full: the codec flag, then the encoded body.  It encodes every
\* chunk without an error, also one that decompress cannot bring back.
CompressFull(chunk) ==
  << [k |-> "flag", lz |-> chunk \in LzChunks], [k |-> "body", of |-> chunk] >>

\* mod.rs decompress accepts an empty payload and a payload it can parse; any
\* other is AxcError::CodecError.
Decodable(payload) ==
  \/ payload = <<>>
  \/ /\ Len(payload) = 2
     /\ payload[1].k = "flag"
     /\ payload[2].k = "body"

\* What decompress returns for a decodable payload.  The LZ path stops at the
\* end of its tokens and never looks at original_len; the raw path decodes
\* exactly original_len symbols, and garbage once the input is over.
Garbage == "?"

Decompress(payload, original_len) ==
  IF payload = <<>> THEN <<>>
  ELSE LET chunk == payload[2].of
       IN IF payload[1].lz
          THEN IF chunk \in DOMAIN Short THEN Short[chunk] ELSE chunk
          ELSE [ i \in 1 .. original_len |->
                   IF i <= Len(chunk) THEN chunk[i] ELSE Garbage ]

\* ans.rs build_alias indexes past its table when the frequencies sum to more
\* than its size; ans_decode asks it for nothing when there is nothing to decode.
DecoderPanics(payload, original_len) ==
  /\ payload # <<>>
  /\ payload[2].of \in PanicChunks
  /\ payload[1].lz \/ original_len # 0

-----------------------------------------------------------------------------
(* The records, as their write functions lay them out. *)

HeaderCell == [k |-> "header", version |-> 1, chunk_size |-> ChunkSize]

\* ChunkRecord::write: the header, then the payload.
ChunkRecord(id, chunk) ==
  << [k              |-> "chunk",
      id             |-> id,
      original_len   |-> Len(chunk),
      compressed_len |-> Len(CompressFull(chunk)),
      checksum_orig  |-> Crc32(chunk),
      checksum_comp  |-> Crc32(CompressFull(chunk))] >> \o CompressFull(chunk)

EntryCell(entry) == [k |-> "entry", e |-> entry]

FooterCell(index_offset, index_count) ==
  [k            |-> "footer",
   index_offset |-> index_offset,
   index_count  |-> index_count,
   checksum     |-> Crc32(<<index_offset, index_count>>)]

\* What a stream of records is made of.
PayloadCells == [k : {"flag"}, lz : BOOLEAN] \cup [k : {"body"}, of : Seq(Bytes)]

EntryRecords ==
  [file_id : Nat, first_chunk : Int, chunk_count : Nat, original_size : Nat,
   mode : STRING, name : Seq(STRING)]

Cells ==
  PayloadCells
    \cup {HeaderCell}
    \cup [k : {"chunk"}, id : Int, original_len : Nat, compressed_len : Nat,
          checksum_orig : [crc : Seq(Bytes)], checksum_comp : [crc : Seq(PayloadCells)]]
    \cup [k : {"entry"}, e : EntryRecords]
    \cup [k : {"footer"}, index_offset : Nat, index_count : Nat,
          checksum : [crc : Seq(Nat)]]

-----------------------------------------------------------------------------
(* The same records, as their read functions check them.  AxcError::Io is   *)
(* told apart by the kind of the io::Error in it; "Io" alone is a failure of *)
(* the environment.                                                         *)

\* FileHeader::read; "ok" or the error it returns.
ReadHeader(img) ==
  IF img = <<>> THEN "UnexpectedEof"
  ELSE IF img[1].k # "header" THEN "InvalidMagic"
  ELSE IF img[1].version # 1 THEN "UnsupportedVersion"
  ELSE "ok"

\* Footer::read looks at the last cell only.
LastCell(img) == img[Len(img)]

ReadFooter(img) ==
  IF img = <<>> THEN "InvalidInput"
  ELSE IF LastCell(img).k # "footer" THEN "InvalidMagic"
  ELSE IF LastCell(img).checksum
          # Crc32(<<LastCell(img).index_offset, LastCell(img).index_count>>)
  THEN "CorruptIndex"
  ELSE "ok"

\* The cells that the loop of read_index visits, as far as the file goes.
IndexCells(img) ==
  SubSeq(img, LastCell(img).index_offset + 1,
         LastCell(img).index_offset + LastCell(img).index_count)

\* read_index after the footer: every FileEntry::read, in order.
ReadIndex(img) ==
  IF LastCell(img).index_offset + LastCell(img).index_count > Len(img)
  THEN "UnexpectedEof"
  ELSE IF \E i \in DOMAIN IndexCells(img) : IndexCells(img)[i].k # "entry"
  THEN "InvalidHeader"
  ELSE "ok"

IndexEntries(img) ==
  [ i \in DOMAIN IndexCells(img) |-> IndexCells(img)[i].e ]
=============================================================================
