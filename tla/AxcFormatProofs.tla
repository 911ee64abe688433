-------------------------- MODULE AxcFormatProofs --------------------------
(***************************************************************************)
(* Lemmas about the operators of AxcFormat: what splitting a file into     *)
(* chunks and laying out a record return.                                  *)
(***************************************************************************)
EXTENDS AxcFormat, SequenceTheorems, WellFoundedInduction, TLAPS

-----------------------------------------------------------------------------
\* The n elements behind the offset a.
LEMMA Slice ==
  ASSUME NEW s, NEW a \in Int, NEW n \in Nat
  PROVE  /\ Len(SubSeq(s, a + 1, a + n)) = n
         /\ DOMAIN SubSeq(s, a + 1, a + n) = 1 .. n
         /\ \A i \in 1 .. n : SubSeq(s, a + 1, a + n)[i] = s[a + i]
<1> DEFINE S == {s[i] : i \in Int}
           lo == a + 1
           hi == a + n
<1>1. lo \in Int /\ hi \in Int /\ \A i \in lo .. hi : s[i] \in S
  OBVIOUS
<1>2. hi - lo + 1 = n /\ (lo <= hi \/ n = 0) /\ \A i \in 1 .. n : lo + i - 1 = a + i
  OBVIOUS
<1> HIDE DEF S, lo, hi
<1>3. /\ SubSeq(s, lo, hi) \in Seq(S)
      /\ Len(SubSeq(s, lo, hi)) = IF lo <= hi THEN hi - lo + 1 ELSE 0
      /\ \A i \in 1 .. hi - lo + 1 : SubSeq(s, lo, hi)[i] = s[lo + i - 1]
  BY <1>1, SubSeqProperties
<1>4. Len(SubSeq(s, lo, hi)) = n /\ \A i \in 1 .. n : SubSeq(s, lo, hi)[i] = s[a + i]
  <2>1. CASE lo <= hi
    BY <1>2, <1>3, <2>1
  <2>2. CASE ~(lo <= hi)
    BY <1>2, <1>3, <2>2
  <2> QED
    BY <2>1, <2>2
<1>5. DOMAIN SubSeq(s, lo, hi) = 1 .. n
  BY <1>3, <1>4
<1> QED
  BY <1>4, <1>5 DEF lo, hi

\* The quotient, rounded down.
LEMMA DivNat ==
  ASSUME NEW a \in Nat, NEW c \in Nat \ {0}
  PROVE  a \div c \in Nat /\ (a \div c) * c <= a
  OBVIOUS

\* Multiplication keeps the order.
LEMMA MulMono ==
  ASSUME NEW i \in Nat, NEW q \in Nat, NEW c \in Nat, i <= q
  PROVE  i * c <= q * c
  OBVIOUS

\* A file has a natural number of chunks ...
LEMMA ChunkCountNat ==
  ASSUME NEW data \in Seq(Bytes) PROVE ChunkCount(data) \in Nat
  BY ChunkSizeAssumption, DivNat DEF ChunkCount

\* ... each of which starts before the file ends ...
LEMMA ChunkBounds ==
  ASSUME NEW data \in Seq(Bytes), NEW i \in 1 .. ChunkCount(data)
  PROVE /\ (i - 1) * ChunkSize \in Nat
        /\ i * ChunkSize = (i - 1) * ChunkSize + ChunkSize
        /\ (i - 1) * ChunkSize < Len(data)
<1> DEFINE a == Len(data) + ChunkSize - 1
<1>1. a \in Nat /\ ChunkSize \in Nat \ {0}
  BY ChunkSizeAssumption
<1>2. ChunkCount(data) \in Nat /\ ChunkCount(data) * ChunkSize <= a
  BY <1>1, DivNat DEF ChunkCount
<1>3. i \in Nat /\ i - 1 \in Nat /\ i <= ChunkCount(data)
  BY <1>2
<1>4. i * ChunkSize <= ChunkCount(data) * ChunkSize
  BY <1>1, <1>2, <1>3, MulMono
<1>5. i * ChunkSize = (i - 1) * ChunkSize + ChunkSize
  BY <1>1, <1>3
<1>6. (i - 1) * ChunkSize \in Nat
  BY <1>1, <1>3
<1> QED
  BY <1>1, <1>2, <1>3, <1>4, <1>5, <1>6

\* ... and has at least one byte and at most ChunkSize of them.
LEMMA SplitType ==
  ASSUME NEW data \in Seq(Bytes)
  PROVE  /\ SplitIntoChunks(data) \in Seq(Seq(Bytes))
         /\ Len(SplitIntoChunks(data)) = ChunkCount(data)
         /\ \A i \in 1 .. ChunkCount(data) :
               Len(SplitIntoChunks(data)[i]) \in 1 .. ChunkSize
<1> DEFINE lo(i) == (i - 1) * ChunkSize + 1
           hi(i) == IF i * ChunkSize < Len(data) THEN i * ChunkSize ELSE Len(data)
<1>1. ChunkCount(data) \in Nat
  BY ChunkCountNat
<1>2. ASSUME NEW i \in 1 .. ChunkCount(data)
      PROVE  /\ lo(i) \in 1 .. Len(data) + 1
             /\ hi(i) \in lo(i) - 1 .. Len(data)
             /\ hi(i) - lo(i) + 1 \in 1 .. ChunkSize
  <2>1. /\ (i - 1) * ChunkSize \in Nat
        /\ (i - 1) * ChunkSize < Len(data)
        /\ i * ChunkSize = (i - 1) * ChunkSize + ChunkSize
    BY ChunkBounds
  <2> HIDE DEF ChunkCount
  <2> QED BY <2>1, ChunkSizeAssumption
<1>3. ASSUME NEW i \in 1 .. ChunkCount(data)
      PROVE  /\ SubSeq(data, lo(i), hi(i)) \in Seq(Bytes)
             /\ Len(SubSeq(data, lo(i), hi(i))) \in 1 .. ChunkSize
  BY <1>2, SubSeqProperties
<1>4. SplitIntoChunks(data) = [i \in 1 .. ChunkCount(data) |-> SubSeq(data, lo(i), hi(i))]
  BY DEF SplitIntoChunks
<1> HIDE DEF lo, hi
<1>5. SplitIntoChunks(data) \in [1 .. ChunkCount(data) -> Seq(Bytes)]
  BY <1>3, <1>4
<1> DEFINE n == ChunkCount(data)
           s == SplitIntoChunks(data)
<1>6. \A i \in 1 .. n : Len(s[i]) \in 1 .. ChunkSize
  BY <1>3, <1>4
<1> HIDE DEF s, n
<1>7. n \in Nat /\ s \in [1 .. n -> Seq(Bytes)]
  BY <1>1, <1>5 DEF n, s
<1>8. s \in Seq(Seq(Bytes)) /\ Len(s) = n
  BY <1>7
<1> QED
  BY <1>6, <1>8 DEF s, n

-----------------------------------------------------------------------------
(* Putting the chunks together again.                                      *)

\* How much of the data the first k chunks hold, and what they hold.
Upto(data, k)   == IF k * ChunkSize < Len(data) THEN k * ChunkSize ELSE Len(data)
Joined(data, k) == SubSeq(data, 1, Upto(data, k))

LEMMA UptoBounds ==
  ASSUME NEW data \in Seq(Bytes), NEW k \in Nat
  PROVE  Upto(data, k) \in 0 .. Len(data)
<1>1. k * ChunkSize \in Nat
  BY ChunkSizeAssumption
<1> QED
  BY <1>1 DEF Upto

LEMMA JoinChunk ==
  ASSUME NEW data \in Seq(Bytes), NEW k \in Nat, k < ChunkCount(data)
  PROVE  /\ Joined(data, k) \o SplitIntoChunks(data)[k + 1] = Joined(data, k + 1)
         /\ Len(SplitIntoChunks(data)[k + 1]) > 0
<1>1. ChunkCount(data) \in Nat /\ k + 1 \in 1 .. ChunkCount(data) /\ (k + 1) - 1 = k
  BY ChunkCountNat
<1>2. k * ChunkSize < Len(data) /\ k * ChunkSize \in Nat
  BY <1>1, ChunkBounds
<1>3. Upto(data, k) = k * ChunkSize
  BY <1>2 DEF Upto
<1>4. SplitIntoChunks(data)[k + 1] = SubSeq(data, k * ChunkSize + 1, Upto(data, k + 1))
  BY <1>1 DEF SplitIntoChunks, Upto
<1>5. Upto(data, k + 1) \in k * ChunkSize .. Len(data)
  <2>1. (k + 1) * ChunkSize = k * ChunkSize + ChunkSize
    BY <1>1, ChunkBounds
  <2> QED
    BY <1>2, <2>1, ChunkSizeAssumption DEF Upto
<1>6. SubSeq(data, 1, k * ChunkSize) \o SubSeq(data, k * ChunkSize + 1, Upto(data, k + 1))
        = SubSeq(data, 1, Upto(data, k + 1))
  <2>1. 1 \in 1 .. Len(data) + 1 /\ k * ChunkSize \in 1 - 1 .. Len(data)
        /\ Upto(data, k + 1) \in k * ChunkSize .. Len(data)
    BY <1>2, <1>5
  <2> QED
    BY <2>1, ConcatAdjacentSubSeq
<1>7. Len(SplitIntoChunks(data)[k + 1]) > 0
  <2>1. Len(SplitIntoChunks(data)[k + 1]) \in 1 .. ChunkSize
    BY <1>1, SplitType
  <2> QED
    BY <2>1, ChunkSizeAssumption
<1> QED
  BY <1>3, <1>4, <1>6, <1>7 DEF Joined

\* The first chunks are a prefix of the data; no chunk is nothing and all of
\* them are everything.
LEMMA JoinAll ==
  ASSUME NEW data \in Seq(Bytes)
  PROVE  Joined(data, 0) = <<>> /\ Joined(data, ChunkCount(data)) = data
<1> DEFINE a == Len(data) + ChunkSize - 1
           q == a \div ChunkSize
<1>1. a \in Nat /\ ChunkSize \in Nat \ {0}
  BY ChunkSizeAssumption
<1>2. q * ChunkSize + ChunkSize > a
  <2> HIDE DEF a
  <2> QED
    BY <1>1
<1>3. q = ChunkCount(data) /\ q \in Nat
  BY <1>1, DivNat DEF ChunkCount
<1>4. q * ChunkSize >= Len(data)
  <2> HIDE DEF q
  <2>1. q * ChunkSize \in Nat
    BY <1>1, <1>3
  <2> QED
    BY <1>1, <1>2, <2>1
<1>5. ~ (ChunkCount(data) * ChunkSize < Len(data))
  <2>1. q * ChunkSize \in Nat
    BY <1>1, <1>3
  <2> QED
    BY <1>3, <1>4, <2>1
<1>6. Joined(data, ChunkCount(data)) = SubSeq(data, 1, Len(data))
  BY <1>5 DEF Joined, Upto
<1>7. 0 * ChunkSize = 0 /\ ~ (Len(data) < 0) /\ Upto(data, 0) = 0
  BY <1>1 DEF Upto
<1>8. Joined(data, 0) = SubSeq(data, 1, 0)
  BY <1>7 DEF Joined
<1> QED
  BY <1>6, <1>8, SubSeqFull, SubSeqEmpty

-----------------------------------------------------------------------------
\* A payload is two cells, and neither looks like a chunk header.
LEMMA PayloadType ==
  ASSUME NEW chunk \in Seq(Bytes)
  PROVE  /\ CompressFull(chunk) \in Seq(PayloadCells)
         /\ Len(CompressFull(chunk)) = 2
         /\ \A i \in 1 .. 2 : CompressFull(chunk)[i].k # "chunk"
<1> DEFINE flag == [k |-> "flag", lz |-> chunk \in LzChunks]
           body == [k |-> "body", of |-> chunk]
<1>1. flag \in PayloadCells /\ body \in PayloadCells
  BY DEF PayloadCells
<1>2. flag.k # "chunk" /\ body.k # "chunk"
  OBVIOUS
<1>3. CompressFull(chunk) = <<flag, body>>
  BY DEF CompressFull
<1> HIDE DEF flag, body
<1> QED
  BY <1>1, <1>2, <1>3

\* A record is a header with the given id and the two cells of its payload.
LEMMA ChunkRecordType ==
  ASSUME NEW id \in Int, NEW chunk \in Seq(Bytes)
  PROVE  /\ ChunkRecord(id, chunk) \in Seq(Cells)
         /\ Len(ChunkRecord(id, chunk)) = 3
         /\ ChunkRecord(id, chunk)[1].k = "chunk"
         /\ ChunkRecord(id, chunk)[1].id = id
         /\ ChunkRecord(id, chunk)[2] = CompressFull(chunk)[1]
         /\ ChunkRecord(id, chunk)[3] = CompressFull(chunk)[2]
         /\ \A i \in 2 .. 3 : ChunkRecord(id, chunk)[i].k # "chunk"
<1> DEFINE payload == CompressFull(chunk)
           head == [k              |-> "chunk",
                    id             |-> id,
                    original_len   |-> Len(chunk),
                    compressed_len |-> Len(payload),
                    checksum_orig  |-> Crc32(chunk),
                    checksum_comp  |-> Crc32(payload)]
<1>1. payload \in Seq(PayloadCells) /\ Len(payload) = 2
  BY PayloadType
<1>2. \A i \in 1 .. 2 : payload[i].k # "chunk"
  BY PayloadType
<1>3. ChunkRecord(id, chunk) = <<head>> \o payload
  BY DEF ChunkRecord
<1> HIDE DEF payload
<1>4. head \in [k : {"chunk"}, id : Int, original_len : Nat, compressed_len : Nat,
                checksum_orig : [crc : Seq(Bytes)],
                checksum_comp : [crc : Seq(PayloadCells)]]
  BY <1>1 DEF Crc32
<1>5. head \in Cells /\ head.k = "chunk" /\ head.id = id
  BY <1>4 DEF Cells
<1> HIDE DEF head
<1>6. payload \in Seq(Cells)
  BY <1>1, PayloadCells \subseteq Cells, SeqMonotonic DEF Cells
<1> DEFINE first  == <<head>>
           record == first \o payload
<1>7. first \in Seq(Cells) /\ Len(first) = 1 /\ first[1] = head
  BY <1>5
<1>8. ChunkRecord(id, chunk) = record
  BY <1>3
<1> HIDE DEF first
<1>9. /\ record \in Seq(Cells)
      /\ Len(record) = 3
      /\ \A i \in 1 .. 3 : record[i] = IF i <= 1 THEN first[i] ELSE payload[i - 1]
  <2>1. Len(payload) = 2
    BY <1>1
  <2>2. /\ record \in Seq(Cells)
        /\ Len(record) = Len(first) + Len(payload)
        /\ \A i \in 1 .. Len(first) + Len(payload) :
             record[i] = IF i <= Len(first) THEN first[i]
                         ELSE payload[i - Len(first)]
    BY <1>6, <1>7, ConcatProperties
  <2> QED
    BY <1>7, <2>1, <2>2
<1> HIDE DEF record
<1>10. record[1] = head /\ record[2] = payload[1] /\ record[3] = payload[2]
  BY <1>7, <1>9
<1> QED
  BY <1>2, <1>5, <1>8, <1>9, <1>10 DEF payload

\* A footer is a cell of the stream.
LEMMA FooterType ==
  ASSUME NEW index_offset \in Nat, NEW index_count \in Nat
  PROVE  FooterCell(index_offset, index_count) \in Cells
<1>1. <<index_offset, index_count>> \in Seq(Nat)
  OBVIOUS
<1> QED
  BY <1>1 DEF FooterCell, Cells, Crc32

-----------------------------------------------------------------------------
(* Induction, for the functions that are defined by recursion on a number.  *)

\* A set of numbers has a least one.
LEMMA Least ==
  ASSUME NEW S \in SUBSET Nat, S # {}
  PROVE  \E m \in S : \A k \in S : m <= k
<1> DEFINE R == {ss \in Nat \X Nat : ss[1] < ss[2]}
<1>1. IsWellFoundedOn(R, Nat)
  BY NatLessThanWellFounded DEF OpToRel
<1>2. \A x, y \in Nat : x < y => <<x, y>> \in R
  OBVIOUS
<1> HIDE DEF R
<1>3. PICK x \in S : \A y \in S : ~ (<<y, x>> \in R)
  BY <1>1, WFMin
<1>4. \A y \in S : ~ (y < x)
  BY <1>2, <1>3
<1>5. \A y \in S : x <= y
  BY <1>4
<1> QED
  BY <1>5

\* Induction up to n, for a set of numbers.
LEMMA Climb ==
  ASSUME NEW n \in Nat, NEW S, 0 \in S, \A i \in 1 .. n : i - 1 \in S => i \in S
  PROVE  \A i \in 0 .. n : i \in S
<1> DEFINE Missed == {i \in 0 .. n : i \notin S}
<1> SUFFICES ASSUME Missed # {} PROVE FALSE
  OBVIOUS
<1>1. PICK m \in Missed : \A k \in Missed : m <= k
  <2>1. Missed \in SUBSET Nat
    OBVIOUS
  <2> HIDE DEF Missed
  <2> QED
    BY <2>1, Least
<1>2. m \in 1 .. n /\ m - 1 \in 0 .. n
  OBVIOUS
<1>3. m - 1 \in S
  BY <1>1, <1>2
<1> QED
  BY <1>2, <1>3

-----------------------------------------------------------------------------
(* Names. *)

\* pushed collects the components that are kept.
PushesUp(h, name, n) ==
  h = [i \in 0 .. n |->
         IF i = 0 THEN <<>>
         ELSE IF Normal(name[i]) THEN Append(h[i - 1], name[i])
         ELSE h[i - 1]]

LEMMA PushedKept ==
  ASSUME NEW name, NEW n \in Nat, NEW S, NEW f, PushesUp(f, name, n),
         \A i \in 1 .. n : Normal(name[i]) => name[i] \in S
  PROVE  f[n] \in Seq(S)
<1> DEFINE J == {m \in 0 .. n : f[m] \in Seq(S)}
<1>1. 0 \in J
  <2>1. f[0] = <<>>
    BY DEF PushesUp
  <2>2. f[0] \in Seq(S) /\ 0 \in 0 .. n
    BY <2>1
  <2> QED
    BY <2>2
<1>2. ASSUME NEW m \in 1 .. n, m - 1 \in J PROVE m \in J
  <2>1. f[m - 1] \in Seq(S)
    BY <1>2
  <2>0. m \in 0 .. n /\ m # 0
    OBVIOUS
  <2>2. f[m] = IF m = 0 THEN <<>>
               ELSE IF Normal(name[m]) THEN Append(f[m - 1], name[m]) ELSE f[m - 1]
    BY <2>0, Zenon DEF PushesUp
  <2>3. f[m] \in Seq(S)
    BY <2>0, <2>1, <2>2
  <2> QED
    BY <2>3
<1> HIDE DEF J
<1>3. \A i \in 0 .. n : i \in J
  BY <1>1, <1>2, Climb
<1> QED
  BY <1>3 DEF J

\* No component of what SanitisePath returns leads upwards, to the root or
\* nowhere (archive.rs:27-60).
LEMMA SanitiseNormal ==
  ASSUME NEW name, Len(name) \in Nat
  PROVE  /\ \E S : SanitisePath(name) \in Seq(S)
         /\ \A i \in DOMAIN SanitisePath(name) : Normal(SanitisePath(name)[i])
<1> DEFINE n == Len(name)
           K == {m \in 0 .. n : \E h : PushesUp(h, name, m)}
           out == LET pushed[i \in 0 .. Len(name)] ==
                        IF i = 0 THEN <<>>
                        ELSE IF Normal(name[i]) THEN Append(pushed[i - 1], name[i])
                        ELSE pushed[i - 1]
                  IN pushed
           S == {name[i] : i \in {j \in 1 .. n : Normal(name[j])}}
<1>1. \A i \in 0 .. n : i \in K
  <2>1. 0 \in K
    <3>1. PushesUp([i \in 0 .. 0 |-> <<>>], name, 0)
      BY DEF PushesUp
    <3> QED
      BY <3>1
  <2>2. ASSUME NEW m \in 1 .. n, m - 1 \in K PROVE m \in K
    <3>1. PICK g : PushesUp(g, name, m - 1)
      BY <2>2
    <3> DEFINE next == IF Normal(name[m]) THEN Append(g[m - 1], name[m]) ELSE g[m - 1]
               h == [i \in 0 .. m |-> IF i = m THEN next ELSE g[i]]
    <3>2. PushesUp(h, name, m)
      <4>1. ASSUME NEW i \in 0 .. m
            PROVE  h[i] = IF i = 0 THEN <<>>
                          ELSE IF Normal(name[i]) THEN Append(h[i - 1], name[i])
                          ELSE h[i - 1]
        <5>1. CASE i = m
          BY <5>1
        <5>2. CASE i # m
          <6>1. i \in 0 .. m - 1 /\ h[i] = g[i] /\ (i # 0 => h[i - 1] = g[i - 1])
            BY <5>2
          <6>2. g[i] = IF i = 0 THEN <<>>
                       ELSE IF Normal(name[i]) THEN Append(g[i - 1], name[i])
                       ELSE g[i - 1]
            BY <3>1, <6>1 DEF PushesUp
          <6> QED
            BY <6>1, <6>2
        <5> QED
          BY <5>1, <5>2
      <4> QED
        BY <4>1 DEF PushesUp
    <3> QED
      BY <3>2
  <2> HIDE DEF K
  <2> QED
    BY <2>1, <2>2, Climb
<1>2. \E h : PushesUp(h, name, n)
  BY <1>1
<1>3. PushesUp(out, name, n)
  BY <1>2 DEF PushesUp
<1>5. SanitisePath(name) \in {<<>>, out[n]}
  BY DEF SanitisePath
<1>8. /\ \A i \in 1 .. n : Normal(name[i]) => name[i] \in S
      /\ \A c \in S : Normal(c)
  OBVIOUS
<1> HIDE DEF out, S
<1>6. out[n] \in Seq(S)
  BY <1>3, <1>8, PushedKept
<1> HIDE DEF n
<1>7. SanitisePath(name) \in Seq(S)
  <2>1. <<>> \in Seq(S)
    OBVIOUS
  <2>2. PICK path : path = SanitisePath(name) /\ path \in {<<>>, out[n]}
    BY <1>5
  <2>3. path \in Seq(S)
    BY <1>6, <2>1, <2>2
  <2> QED
    BY <2>2, <2>3
<1> QED
  BY <1>7, <1>8
=============================================================================
