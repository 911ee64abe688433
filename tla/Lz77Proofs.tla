----------------------------- MODULE Lz77Proofs -----------------------------
(***************************************************************************)
(* Proofs about Lz77: every candidate of the match finder is an earlier    *)
(* position of the same hash, and what lz77_compress writes comes back.    *)
(***************************************************************************)
EXTENDS Lz77, SequenceTheorems, TLAPS

-----------------------------------------------------------------------------
(* The inductive invariant. *)

\* Every position entered so far lies before this one.
Frontier == IF lpc = "insert" THEN ins ELSE pos

\* The slot of an entered position is its own as long as the window reaches back
\* to it: the chain goes on from there to an older position of the same hash.
LinksBack(p) ==
  prev[p % WindowSize] # NoPos =>
    /\ prev[p % WindowSize] \in entered
    /\ prev[p % WindowSize] < p
    /\ HashAt(prev[p % WindowSize]) = HashAt(p)

ChainInv ==
  /\ \A p \in entered : p \in Nat /\ p + MinMatch <= InputLen /\ p < Frontier
  /\ \A h \in 0 .. HashSize - 1 :
       hash_head[h] # NoPos => hash_head[h] \in entered /\ HashAt(hash_head[h]) = h
  /\ \A p \in entered : Frontier <= p + WindowSize => LinksBack(p)
  /\ lpc \in {"search", "compare"} /\ cur # NoPos =>
       cur \in entered /\ HashAt(cur) = HashAt(pos)

\* len bytes at q are those at p.
SameBytes(q, p, len) == \A k \in 0 .. len - 1 : input[q + k + 1] = input[p + k + 1]

MatchInv ==
  /\ lpc \in {"search", "compare", "insert"} => pos + MinMatch <= InputLen
  /\ lpc \in {"search", "compare"} => ins = pos
  /\ lpc = "compare" =>
       /\ cur \in 0 .. pos - 1 /\ pos - cur <= WindowSize /\ depth < MaxChainDepth
       /\ mlen <= InputLen - pos /\ SameBytes(cur, pos, mlen)
  /\ lpc \in {"search", "compare", "insert"} /\ Matched =>
       /\ best_offset \in 1 .. pos /\ best_len <= InputLen - pos
       /\ SameBytes(pos - best_offset, pos, best_len)
  /\ lpc \in {"search", "compare", "insert"} => best_len >= MinMatch - 1
  /\ lpc = "insert" => ins \in pos .. InsertEnd
  /\ lpc \in {"packed", "decode", "copy", "unpacked"} => pos = InputLen

OffsetOf(o) == out[o + 2] * Radix + out[o + 3]

LiteralAt(o) ==
  /\ o + 2 \in DOMAIN src
  /\ src[o + 2] = src[o] + 1
  /\ out[o + 1] = TagLit /\ out[o + 2] = input[src[o] + 1]

MatchAt(o) ==
  /\ o + 4 \in DOMAIN src
  /\ src[o + 4] = src[o] + out[o + 4] + MinMatch
  /\ out[o + 1] = TagMatch
  /\ OffsetOf(o) # 0 =>
       /\ OffsetOf(o) <= src[o]
       /\ SameBytes(src[o] - OffsetOf(o), src[o], out[o + 4] + MinMatch)

SrcInv ==
  /\ 0 \in DOMAIN src /\ src[0] = 0
  /\ Len(out) \in DOMAIN src /\ src[Len(out)] = pos
  /\ \A o \in DOMAIN src : o \in 0 .. Len(out) /\ src[o] \in 0 .. pos
  /\ \A o \in DOMAIN src \ {Len(out)} : LiteralAt(o) \/ MatchAt(o)

\* `count` bytes of the input were due, and so many were decoded, and rightly;
\* or fewer were, and a match was written with the offset 0.
RightOrShort(bytes, count) ==
  \/ Len(bytes) = count /\ \A k \in 1 .. count : bytes[k] = input[k]
  \/ Len(bytes) < count /\ ~NoWrap

CopyInv ==
  /\ copied \in 0 .. CopyLen
  /\ \/ /\ Len(decoded) = src[ti] - CopyLen + copied
        /\ \A k \in 1 .. Len(decoded) : decoded[k] = input[k]
        /\ SameBytes(start, src[ti] - CopyLen, CopyLen)
     \/ Len(decoded) < src[ti] - CopyLen + copied /\ ~NoWrap

DecodeInv ==
  /\ lpc \in {"decode", "copy", "unpacked"} => tokens = out /\ ti \in DOMAIN src
  /\ lpc = "decode" => RightOrShort(decoded, src[ti])
  /\ lpc = "copy" => ti > 0 /\ CopyInv
  /\ lpc = "unpacked" => RightOrShort(decoded, InputLen)
  /\ lpc \notin {"decode", "copy", "unpacked"} => ti = 0 /\ decoded = <<>>

LzInv == LzTypeOK /\ ChainInv /\ MatchInv /\ SrcInv /\ DecodeInv
-----------------------------------------------------------------------------
(* Arithmetic. *)

LEMMA Quotient ==
  ASSUME NEW n \in Nat, NEW w \in Nat \ {0}
  PROVE  n \div w \in Nat /\ n % w \in 0 .. w - 1 /\ n = w * (n \div w) + (n % w)
OBVIOUS

LEMMA Multiple ==
  ASSUME NEW w \in Nat \ {0}, NEW k \in Int
  PROVE  (k >= 1 => w * k >= w) /\ (k <= 0 => w * k <= 0)
OBVIOUS

\* Two numbers that share a slot of the ring are at least its size apart.
LEMMA SlotsApart ==
  ASSUME NEW w \in Nat \ {0}, NEW p \in Nat, NEW q \in Nat, p < q, q < p + w
  PROVE  p % w # q % w
<1> SUFFICES ASSUME p % w = q % w PROVE FALSE
  OBVIOUS
<1> DEFINE i == p \div w
           j == q \div w
<1>1. i \in Nat /\ j \in Nat /\ p = w * i + (p % w) /\ q = w * j + (q % w)
  BY Quotient
<1>2. p % w \in Nat /\ q % w \in Nat
  BY Quotient
<1> HIDE DEF i, j
<1>3. q - p = w * (j - i)
  BY <1>1, <1>2
<1>4. (j - i >= 1 => w * (j - i) >= w) /\ (j - i <= 0 => w * (j - i) <= 0)
  BY <1>1, Multiple
<1> QED
  BY <1>1, <1>3, <1>4

\* What is read back of a stored distance: the distance, or 0 for OffsetRange.
LEMMA StoredOffset ==
  ASSUME NEW d \in 1 .. OffsetRange
  PROVE  /\ (d \div Radix) % Radix \in Octet
         /\ d % Radix \in Octet
         /\ \/ ((d \div Radix) % Radix) * Radix + (d % Radix) = d
            \/ /\ ((d \div Radix) % Radix) * Radix + (d % Radix) = 0
               /\ d = OffsetRange
<1> USE RadixAssumption DEF OffsetRange, Octet
<1> DEFINE q == d \div Radix
           r == d % Radix
<1>0. d \in Nat /\ Radix \in Nat \ {0}
  OBVIOUS
<1>1. q \in Nat /\ r \in 0 .. Radix - 1 /\ d = Radix * q + r
  BY <1>0, Quotient
<1>2. q % Radix \in 0 .. Radix - 1
  BY <1>1, Quotient
<1> HIDE DEF q, r
<1>3. q <= Radix
  <2>1. (q - Radix >= 1 => Radix * (q - Radix) >= Radix)
    BY <1>1, Multiple
  <2>2. Radix * q = Radix * (q - Radix) + Radix * Radix
    BY <1>1
  <2> QED
    BY <2>1, <2>2, <1>1
<1>4. CASE q < Radix
  <2>1. q % Radix = q
    BY <1>1, <1>4
  <2>2. q * Radix + r = d
    BY <1>1
  <2> QED
    BY <2>1, <2>2, <1>1, <1>2 DEF q, r
<1>5. CASE q = Radix
  <2>1. q % Radix = 0
    BY <1>5
  <2>2. r = 0 /\ d = OffsetRange
    BY <1>1, <1>5
  <2> QED
    BY <2>1, <2>2, <1>1, <1>2 DEF q, r
<1> QED
  BY <1>1, <1>3, <1>4, <1>5

-----------------------------------------------------------------------------
(* Helpers of the module. *)

LEMMA InputFacts ==
  ASSUME LzTypeOK
  PROVE  /\ input \in Seq(Octet) /\ InputLen \in Nat
         /\ \A p \in 1 .. InputLen : input[p] \in Octet
BY LzInputsAssumption DEF LzTypeOK, InputLen

LEMMA Constants ==
  /\ Radix \in Nat /\ Radix >= 2 /\ OffsetRange \in Nat
  /\ WindowSize \in Nat \ {0} /\ WindowSize <= OffsetRange /\ MinMatch \in Nat \ {0} /\ SkipLimit \in Nat \ {0}
  /\ MaxChainDepth \in Nat /\ HashSize \in Nat \ {0}
  /\ MaxMatch \in Nat /\ MaxMatch >= MinMatch
BY RadixAssumption, LzAssumption DEF OffsetRange, MaxMatch

LEMMA HashInRange ==
  ASSUME LzTypeOK, NEW p \in Nat, p + MinMatch <= InputLen
  PROVE  HashAt(p) \in 0 .. HashSize - 1
<1>1. [k \in 1 .. MinMatch |-> input[p + k]] \in [1 .. MinMatch -> Octet]
  BY InputFacts, Constants
<1> QED
  BY <1>1, HashAssumption DEF HashAt

\* The slot of a position is a slot of the ring.
LEMMA SlotInRing ==
  ASSUME NEW p \in Nat
  PROVE  p % WindowSize \in 0 .. WindowSize - 1
BY Constants, Quotient

LEMMA InsertEndFacts ==
  ASSUME LzTypeOK, best_len >= MinMatch - 1
  PROVE  /\ InsertEnd \in Nat /\ InsertEnd > pos
         /\ Matched => InsertEnd <= pos + best_len
         /\ ~Matched => InsertEnd = pos + 1
BY Constants, InputFacts DEF LzTypeOK, InsertEnd, Matched

\* The octets of a token.
LEMMA TokenOctets ==
  /\ LzTypeOK =>
       \A p \in 0 .. InputLen - 1 : <<TagLit, input[p + 1]>> \in Seq(Octet)
  /\ \A d \in 1 .. OffsetRange, len \in MinMatch .. MaxMatch :
       <<TagMatch, (d \div Radix) % Radix, d % Radix, len - MinMatch>> \in Seq(Octet)
<1>1. TagLit \in Octet /\ TagMatch \in Octet
  BY Constants DEF TagLit, TagMatch, Octet
<1>2. ASSUME LzTypeOK, NEW p \in 0 .. InputLen - 1
      PROVE  <<TagLit, input[p + 1]>> \in Seq(Octet)
  BY <1>1, <1>2, InputFacts
<1>3. ASSUME NEW d \in 1 .. OffsetRange, NEW len \in MinMatch .. MaxMatch
      PROVE  <<TagMatch, (d \div Radix) % Radix, d % Radix, len - MinMatch>> \in Seq(Octet)
  <2>1. len - MinMatch \in Octet
    BY Constants DEF Octet, MaxMatch
  <2> QED
    BY <1>1, <2>1, StoredOffset
<1> QED
  BY <1>2, <1>3

-----------------------------------------------------------------------------
(* Each step keeps the types.  The steps are those of LzNext, but whoever  *)
(* calls lz77_decompress says what it is given.                            *)

LzStep(bytes) == Compressing \/ Unpack(bytes) \/ Decompressing

LEMMA PutType ==
  ASSUME LzTypeOK, NEW token \in Seq(Octet), NEW length \in Nat,
         pos + length <= InputLen, Put(token, length), UNCHANGED input
  PROVE  out' \in Seq(Octet) /\ pos' \in 0 .. InputLen'
BY InputFacts DEF LzTypeOK, Put, InputLen

LEMMA TypeStep ==
  ASSUME LzInv, LzStep(out)
  PROVE  LzTypeOK'
<1> USE Constants, InputFacts
<1>0. LzTypeOK /\ ChainInv /\ MatchInv /\ SrcInv /\ DecodeInv
  BY DEF LzInv
<1>1. CASE TailLiteral
  <2>1. pos \in 0 .. InputLen - 1 /\ pos + 1 <= InputLen
    BY <1>0, <1>1 DEF TailLiteral, LzTypeOK
  <2>2. <<TagLit, input[pos + 1]>> \in Seq(Octet)
    BY <2>1, <1>0, TokenOctets
  <2>3. Put(<<TagLit, input[pos + 1]>>, 1) /\ UNCHANGED input
    BY <1>1 DEF TailLiteral
  <2>4. out' \in Seq(Octet) /\ pos' \in 0 .. InputLen'
    BY <2>1, <2>2, <2>3, <1>0, PutType
  <2>5. UNCHANGED <<input, hash_head, prev, cur, depth, mlen, best_len, best_offset,
                    ins, tokens, ti, start, copied, decoded, lpc>>
    BY <1>1 DEF TailLiteral, chains, search, unpacker
  <2>6. InputLen' = InputLen /\ Matched' = Matched
    BY <2>5 DEF InputLen, Matched
  <2> HIDE Constants, InputFacts
  <2>7. /\ input' \in LzInputs
        /\ hash_head' \in [0 .. HashSize - 1 -> {NoPos} \cup 0 .. InputLen' - 1]
        /\ prev' \in [0 .. WindowSize - 1 -> {NoPos} \cup 0 .. InputLen' - 1]
        /\ cur' \in {NoPos} \cup 0 .. InputLen' - 1
    BY <2>5, <2>6, <1>0 DEF LzTypeOK
  <2>8. /\ tokens' \in Seq(Octet) /\ decoded' \in Seq(Octet)
        /\ ti' \in 0 .. Len(tokens')
        /\ start' \in Nat /\ copied' \in Nat
        /\ lpc' = "copy" => start' + copied' < Len(decoded')
    BY <2>5, <1>0 DEF LzTypeOK
  <2> QED
    BY <2>4, <2>5, <2>6, <2>7, <2>8, <1>0 DEF LzTypeOK
<1>2. CASE BeginSearch
  <2>1. HashAt(pos) \in 0 .. HashSize - 1
    BY <1>0, <1>2, HashInRange DEF BeginSearch, LzTypeOK
  <2> QED
    BY <2>1, <1>0, <1>2, SMTT(60) DEF BeginSearch, LzTypeOK, chains, written, unpacker, InputLen, Matched
<1>3. CASE Candidate
  BY <1>0, <1>3 DEF Candidate, LzTypeOK, chains, written, unpacker, InputLen, Matched
<1>4. CASE Extend
  BY <1>0, <1>4, SMTT(60) DEF Extend, Matches, LzTypeOK, chains, written, unpacker, InputLen, Matched
<1>5. CASE Judge
  <2>1. cur \in 0 .. pos - 1 /\ pos - cur <= WindowSize /\ depth < MaxChainDepth
    BY <1>0, <1>5 DEF MatchInv, Judge
  <2>2. cur \in Nat
    BY <2>1, <1>0 DEF LzTypeOK
  <2>5. prev[cur % WindowSize] \in {NoPos} \cup 0 .. InputLen - 1
    BY <2>2, <1>0, SlotInRing DEF LzTypeOK
  <2>3. cur' \in {NoPos} \cup 0 .. InputLen - 1
    BY <2>5, <1>0, <1>5 DEF Judge, LzTypeOK
  <2>6. depth' \in 0 .. MaxChainDepth
    <3>1. depth' = depth \/ depth' = depth + 1
      BY <1>5 DEF Judge
    <3>2. depth \in 0 .. MaxChainDepth
      BY <1>0 DEF LzTypeOK
    <3> QED
      BY <3>1, <3>2, <2>1
  <2>4. best_len' \in 0 .. MaxMatch /\ best_offset' \in 0 .. WindowSize
        /\ (Matched' => best_offset' > 0)
    BY <2>1, <1>0, <1>5 DEF Judge, LzTypeOK, Matched
  <2> QED
    BY <2>3, <2>4, <2>6, <1>0, <1>5 DEF Judge, LzTypeOK, chains, written, unpacker, InputLen
<1>6. CASE EndSearch
  BY <1>0, <1>6 DEF EndSearch, LzTypeOK, chains, search, written, unpacker, InputLen, Matched
<1>7. CASE Insert
  <2>1. CASE ins + MinMatch <= InputLen
    <3>1. HashAt(ins) \in 0 .. HashSize - 1 /\ ins % WindowSize \in 0 .. WindowSize - 1
      BY <2>1, <1>0, HashInRange, SlotInRing DEF LzTypeOK
    <3>2. ins \in 0 .. InputLen - 1
      BY <2>1, <1>0 DEF LzTypeOK
    <3>3. hash_head[HashAt(ins)] \in {NoPos} \cup 0 .. InputLen - 1
      BY <3>1, <1>0 DEF LzTypeOK
    <3> DEFINE Place == {NoPos} \cup 0 .. InputLen - 1
    <3>4. /\ hash_head \in [0 .. HashSize - 1 -> Place]
          /\ prev \in [0 .. WindowSize - 1 -> Place]
          /\ ins \in Place /\ hash_head[HashAt(ins)] \in Place
      BY <3>2, <3>3, <1>0 DEF LzTypeOK
    <3>5. /\ hash_head' = [hash_head EXCEPT ![HashAt(ins)] = ins]
          /\ prev' = [prev EXCEPT ![ins % WindowSize] = hash_head[HashAt(ins)]]
      BY <2>1, <1>0, <1>7 DEF Insert, LzTypeOK
    <3> HIDE DEF Place
    <3>6. hash_head' \in [0 .. HashSize - 1 -> Place] /\ prev' \in [0 .. WindowSize - 1 -> Place]
      BY <3>1, <3>4, <3>5
    <3> USE DEF Place
    <3> QED
      BY <3>6, <1>0, <1>7 DEF Insert, LzTypeOK, written, unpacker, InputLen, Matched
  <2>2. CASE ~(ins + MinMatch <= InputLen)
    BY <2>2, <1>0, <1>7 DEF Insert, LzTypeOK, chains, written, unpacker, InputLen, Matched
  <2> QED
    BY <2>1, <2>2
<1>8. CASE Emit
  <2>1. pos + MinMatch <= InputLen
    BY <1>0, <1>8 DEF MatchInv, Emit
  <2>2. CASE Matched
    <3>1. /\ best_offset \in 1 .. OffsetRange /\ best_len \in MinMatch .. MaxMatch
          /\ pos + best_len <= InputLen /\ best_len \in Nat
      <4>1. /\ best_offset \in 1 .. pos /\ best_offset \in 0 .. WindowSize
            /\ best_len <= InputLen - pos /\ best_len \in 0 .. MaxMatch
            /\ best_len >= MinMatch /\ pos \in Nat
        <5>1. lpc = "insert"
          BY <1>8 DEF Emit
        <5> QED
          BY <5>1, <2>2, <1>0 DEF MatchInv, LzTypeOK, Matched
      <4>2. InputLen \in Nat
        BY <1>0
      <4>3. best_offset \in 1 .. OffsetRange
        BY <4>1
      <4>4. best_len \in MinMatch .. MaxMatch /\ best_len \in Nat
        BY <4>1
      <4>5. pos + best_len <= InputLen
        BY <4>1, <4>2
      <4> QED
        BY <4>3, <4>4, <4>5
    <3> DEFINE token == <<TagMatch, (best_offset \div Radix) % Radix,
                          best_offset % Radix, best_len - MinMatch>>
    <3>2. token \in Seq(Octet)
      BY <3>1, TokenOctets
    <3>3. Put(token, best_len) /\ UNCHANGED input
      BY <2>2, <1>8 DEF Emit
    <3>4. out' \in Seq(Octet) /\ pos' \in 0 .. InputLen'
      <4> HIDE DEF token
      <4> QED
        BY <3>1, <3>2, <3>3, <1>0, PutType
    <3> QED
      BY <3>4, <1>0, <1>8 DEF Emit, LzTypeOK, chains, search, unpacker, InputLen
  <2>3. CASE ~Matched
    <3>1. pos \in 0 .. InputLen - 1 /\ pos + 1 <= InputLen
      BY <2>1, <1>0 DEF LzTypeOK
    <3>2. <<TagLit, input[pos + 1]>> \in Seq(Octet)
      BY <3>1, <1>0, TokenOctets
    <3>3. Put(<<TagLit, input[pos + 1]>>, 1) /\ UNCHANGED input
      BY <2>3, <1>8 DEF Emit
    <3>4. out' \in Seq(Octet) /\ pos' \in 0 .. InputLen'
      BY <3>1, <3>2, <3>3, <1>0, PutType
    <3> QED
      BY <3>4, <1>0, <1>8 DEF Emit, LzTypeOK, chains, search, unpacker, InputLen
  <2> QED
    BY <2>2, <2>3
<1>9. CASE EndCompress
  BY <1>0, <1>9 DEF EndCompress, LzTypeOK, chains, search, written, unpacker, InputLen, Matched
<1>10. CASE Unpack(out)
  BY <1>0, <1>10 DEF Unpack, LzTypeOK, DecodeInv, chains, search, written, InputLen, Matched
<1>11. CASE DecodeLiteral
  <2>1. tokens = out /\ ti \in DOMAIN src /\ ti # Len(out) /\ TagLit # TagMatch
    BY <1>0, <1>11 DEF DecodeLiteral, DecodeInv, TagLit, TagMatch
  <2>2. LiteralAt(ti)
    BY <2>1, <1>0, <1>11 DEF SrcInv, MatchAt, DecodeLiteral
  <2>3. ti + 2 <= Len(tokens) /\ ti + 2 \in 1 .. Len(tokens)
    BY <2>1, <2>2, <1>0 DEF SrcInv, LiteralAt, LzTypeOK
  <2>4. tokens[ti + 2] \in Octet /\ Append(decoded, tokens[ti + 2]) \in Seq(Octet)
    BY <2>3, <1>0 DEF LzTypeOK
  <2> QED
    BY <2>3, <2>4, <1>0, <1>11
       DEF DecodeLiteral, LzTypeOK, chains, search, written, InputLen, Matched
<1>12. ASSUME lpc = "decode", ti < Len(tokens), tokens[ti + 1] = TagMatch
       PROVE  /\ ti + 4 <= Len(tokens) /\ tokens[ti + 2] \in Octet
              /\ tokens[ti + 3] \in Octet /\ Offset \in Nat
  <2>1. tokens = out /\ ti \in DOMAIN src /\ ti # Len(out) /\ TagLit # TagMatch
    BY <1>0, <1>12 DEF DecodeInv, TagLit, TagMatch
  <2>2. MatchAt(ti)
    BY <2>1, <1>0, <1>12 DEF SrcInv, LiteralAt
  <2>3. ti + 4 <= Len(tokens) /\ ti + 2 \in DOMAIN tokens /\ ti + 3 \in DOMAIN tokens
    <3>1. ti + 4 \in 0 .. Len(out) /\ ti \in 0 .. Len(out)
      BY <2>1, <2>2, <1>0 DEF SrcInv, MatchAt
    <3>2. DOMAIN tokens = 1 .. Len(tokens)
      BY <1>0 DEF LzTypeOK
    <3> QED
      BY <3>1, <3>2, <2>1
  <2>4. tokens[ti + 2] \in Octet /\ tokens[ti + 3] \in Octet
    BY <2>3, <1>0 DEF LzTypeOK
  <2> QED
    BY <2>3, <2>4 DEF Offset, Octet
<1>13. CASE DecodeMatch
  <2>1. ti + 4 <= Len(tokens) /\ Offset \in Nat /\ Offset # 0 /\ Offset <= Len(decoded)
    BY <1>12, <1>13 DEF DecodeMatch, GoodOffset
  <2>2. start' \in Nat /\ start' < Len(decoded)
    BY <2>1, <1>0, <1>13 DEF DecodeMatch, LzTypeOK
  <2>3. /\ UNCHANGED <<input, hash_head, prev, cur, depth, mlen, best_len, best_offset,
                       ins, pos, out, tokens, decoded>>
        /\ copied' = 0 /\ ti' = ti + 4 /\ lpc' = "copy"
    BY <1>13 DEF DecodeMatch, chains, search, written
  <2> HIDE Constants, InputFacts
  <2>4. ti' \in 0 .. Len(tokens') /\ start' + copied' < Len(decoded')
    <3>1. ti \in Nat /\ Len(tokens) \in Nat
      BY <1>0 DEF LzTypeOK
    <3> QED
      BY <3>1, <2>1, <2>2, <2>3
  <2> QED
    BY <2>2, <2>3, <2>4, <1>0 DEF LzTypeOK, InputLen, Matched
<1>14. CASE SkipCorrupt
  <2>1. ti + 4 <= Len(tokens)
    BY <1>12, <1>14 DEF SkipCorrupt
  <2> QED
    BY <2>1, <1>0, <1>14
       DEF SkipCorrupt, LzTypeOK, chains, search, written, InputLen, Matched
<1>15. CASE CopyByte
  <2>1. start + copied + 1 \in DOMAIN decoded
    BY <1>0, <1>15 DEF CopyByte, LzTypeOK
  <2>2. Append(decoded, decoded[start + copied + 1]) \in Seq(Octet)
        /\ Len(Append(decoded, decoded[start + copied + 1])) = Len(decoded) + 1
    BY <2>1, <1>0 DEF LzTypeOK
  <2>3. decoded' \in Seq(Octet) /\ copied' \in Nat /\ start' + copied' < Len(decoded')
    BY <2>2, <1>0, <1>15 DEF CopyByte, LzTypeOK
  <2> QED
    BY <2>3, <1>0, <1>15
       DEF CopyByte, LzTypeOK, chains, search, written, InputLen, Matched
<1>16. CASE EndCopy \/ EndDecode
  BY <1>0, <1>16 DEF EndCopy, EndDecode, LzTypeOK, chains, search, written, unpacker,
                     InputLen, Matched
<1> QED
  BY <1>1, <1>2, <1>3, <1>4, <1>5, <1>6, <1>7, <1>8, <1>9, <1>10, <1>11, <1>13,
     <1>14, <1>15, <1>16 DEF LzStep, Compressing, Decompressing
-----------------------------------------------------------------------------
(* Each step keeps the chains.                                             *)

\* The rest of the chains' invariant when only the search moves on.
LEMMA ChainKept ==
  ASSUME LzInv, UNCHANGED <<input, chains>>, Frontier \in Nat, Frontier' \in Nat,
         Frontier <= Frontier',
         lpc' \in {"search", "compare"} /\ cur' # NoPos =>
           cur' \in entered /\ HashAt(cur') = HashAt(pos')
  PROVE  ChainInv'
<1> USE DEF chains
<1>1. \A p : HashAt(p)' = HashAt(p)
  BY DEF HashAt
<1>2. InputLen' = InputLen /\ ChainInv /\ InputLen \in Nat
  BY InputFacts DEF InputLen, LzInv
<1>3. (\A p \in entered : p \in Nat /\ p + MinMatch <= InputLen /\ p < Frontier)'
  BY <1>2, Constants DEF ChainInv
<1>4. (\A h \in 0 .. HashSize - 1 :
         hash_head[h] # NoPos => hash_head[h] \in entered /\ HashAt(hash_head[h]) = h)'
  BY <1>2 DEF ChainInv, HashAt
<1>5. (\A p \in entered : Frontier <= p + WindowSize => LinksBack(p))'
  <2> SUFFICES ASSUME NEW p \in entered', Frontier' <= p + WindowSize
               PROVE  LinksBack(p)'
    BY Zenon
  <2>1. p \in entered /\ p \in Nat /\ Frontier <= p + WindowSize
    BY <1>2, Constants DEF ChainInv
  <2>2. LinksBack(p)
    BY <2>1, <1>2 DEF ChainInv
  <2> QED
    BY <2>2 DEF LinksBack, HashAt
<1>6. (lpc \in {"search", "compare"} /\ cur # NoPos =>
         cur \in entered /\ HashAt(cur) = HashAt(pos))'
  BY DEF HashAt
<1> QED
  BY <1>3, <1>4, <1>5, <1>6 DEF ChainInv

\* Entering a position: the slot it takes is that of no position which the
\* window still reaches.
LEMMA ChainInsert ==
  ASSUME LzInv, Insert, ins + MinMatch <= InputLen
  PROVE  ChainInv'
<1> USE Constants
<1>0. LzTypeOK /\ ChainInv /\ InputLen \in Nat /\ ins \in Nat /\ lpc = "insert"
  BY InputFacts DEF LzInv, LzTypeOK, Insert
<1>1. /\ input' = input /\ lpc' = "insert" /\ ins' = ins + 1
      /\ entered' = entered \cup {ins}
      /\ prev' = [prev EXCEPT ![ins % WindowSize] = hash_head[HashAt(ins)]]
      /\ hash_head' = [hash_head EXCEPT ![HashAt(ins)] = ins]
  BY <1>0 DEF Insert
<1>2. Frontier = ins /\ Frontier' = ins + 1 /\ InputLen' = InputLen
  BY <1>0, <1>1 DEF Frontier, InputLen
<1>3. HashAt(ins) \in 0 .. HashSize - 1 /\ ins % WindowSize \in 0 .. WindowSize - 1
  BY <1>0, HashInRange, SlotInRing
<1>4. prev'[ins % WindowSize] = hash_head[HashAt(ins)] /\ hash_head'[HashAt(ins)] = ins
  BY <1>0, <1>1, <1>3 DEF LzTypeOK
<1>5. \A p \in entered : p \in Nat /\ p + MinMatch <= InputLen /\ p < ins
  BY <1>0, <1>2 DEF ChainInv
<1>6. (\A p \in entered : p \in Nat /\ p + MinMatch <= InputLen /\ p < Frontier)'
  BY <1>0, <1>1, <1>2, <1>5
<1>7. (\A h \in 0 .. HashSize - 1 :
         hash_head[h] # NoPos => hash_head[h] \in entered /\ HashAt(hash_head[h]) = h)'
  <2> SUFFICES ASSUME NEW h \in 0 .. HashSize - 1, hash_head'[h] # NoPos
               PROVE  hash_head'[h] \in entered' /\ HashAt(hash_head'[h]) = h
    BY <1>1 DEF HashAt
  <2>1. CASE h = HashAt(ins)
    BY <2>1, <1>1, <1>4
  <2>2. CASE h # HashAt(ins)
    <3>1. hash_head'[h] = hash_head[h]
      BY <2>2, <1>0, <1>1 DEF LzTypeOK
    <3> QED
      BY <3>1, <1>0, <1>1 DEF ChainInv
  <2> QED
    BY <2>1, <2>2
<1>8. (\A p \in entered : Frontier <= p + WindowSize => LinksBack(p))'
  <2> SUFFICES ASSUME NEW p \in entered', Frontier' <= p + WindowSize
               PROVE  LinksBack(p)'
    BY Zenon
  <2> SUFFICES ASSUME prev'[p % WindowSize] # NoPos
               PROVE  /\ prev'[p % WindowSize] \in entered'
                      /\ prev'[p % WindowSize] < p
                      /\ HashAt(prev'[p % WindowSize]) = HashAt(p)
    BY <1>1 DEF LinksBack, HashAt
  <2>1. CASE p = ins
    <3>1. prev'[p % WindowSize] = hash_head[HashAt(ins)]
      BY <2>1, <1>4
    <3>2. /\ hash_head[HashAt(ins)] \in entered
          /\ HashAt(hash_head[HashAt(ins)]) = HashAt(ins)
      BY <3>1, <1>0, <1>3 DEF ChainInv
    <3> QED
      BY <3>1, <3>2, <2>1, <1>1, <1>5
  <2>2. CASE p # ins
    <3>1. p \in entered /\ p \in Nat /\ p < ins /\ ins < p + WindowSize
      BY <2>2, <1>0, <1>1, <1>2, <1>5
    <3>2. p % WindowSize # ins % WindowSize
      BY <3>1, <1>0, SlotsApart
    <3>3. p % WindowSize \in 0 .. WindowSize - 1
      BY <3>1, SlotInRing
    <3>4. prev'[p % WindowSize] = prev[p % WindowSize]
      BY <3>2, <3>3, <1>0, <1>1 DEF LzTypeOK
    <3>5. LinksBack(p)
      BY <3>1, <1>0, <1>2 DEF ChainInv
    <3> QED
      BY <3>4, <3>5, <1>1 DEF LinksBack
  <2> QED
    BY <2>1, <2>2
<1> QED
  BY <1>1, <1>6, <1>7, <1>8 DEF ChainInv

LEMMA ChainStep ==
  ASSUME LzInv, LzStep(out)
  PROVE  ChainInv'
<1> USE Constants, InputFacts
<1>0. LzTypeOK /\ ChainInv /\ MatchInv /\ pos \in Nat /\ ins \in Nat
  BY DEF LzInv, LzTypeOK
<1>1. CASE TailLiteral
  <2>1. pos' = pos + 1 /\ lpc = "token" /\ lpc' = "token"
    BY <1>1 DEF TailLiteral, Put
  <2> QED
    BY <2>1, <1>0, <1>1, ChainKept DEF TailLiteral, Frontier
<1>2. CASE BeginSearch
  <2>1. HashAt(pos) \in 0 .. HashSize - 1
    BY <1>0, <1>2, HashInRange DEF BeginSearch
  <2>2. cur' # NoPos => cur' \in entered /\ HashAt(cur') = HashAt(pos)
    BY <2>1, <1>0, <1>2 DEF BeginSearch, ChainInv
  <2> QED
    BY <2>2, <1>0, <1>2, ChainKept DEF BeginSearch, Frontier, written
<1>3. CASE Candidate \/ Extend
  <2>1. cur' # NoPos => cur' \in entered /\ HashAt(cur') = HashAt(pos)
    BY <1>0, <1>3 DEF Candidate, Extend, ChainInv
  <2> QED
    BY <2>1, <1>0, <1>3, ChainKept DEF Candidate, Extend, Frontier, written
<1>4. CASE Judge
  <2>1. ins = pos /\ Frontier = pos /\ Frontier' = pos /\ pos' = pos
        /\ UNCHANGED <<input, chains>>
    BY <1>0, <1>4 DEF Judge, MatchInv, Frontier, written
  <2>2. cur \in entered /\ HashAt(cur) = HashAt(pos) /\ pos - cur <= WindowSize
        /\ cur \in Nat
    BY <1>0, <1>4 DEF Judge, MatchInv, ChainInv, NoPos
  <2>3. LinksBack(cur)
    BY <2>1, <2>2, <1>0 DEF ChainInv
  <2>4. lpc' = "search" => cur' = prev[cur % WindowSize]
    BY <1>4 DEF Judge
  <2>5. lpc' \in {"search", "compare"} /\ cur' # NoPos =>
          cur' \in entered /\ HashAt(cur') = HashAt(pos)
    BY <2>2, <2>3, <2>4, <1>4 DEF LinksBack, Judge
  <2> QED
    BY <2>1, <2>5, <1>0, ChainKept
<1>5. CASE EndSearch
  <2>1. ins = pos
    BY <1>0, <1>5 DEF EndSearch, MatchInv
  <2> QED
    BY <2>1, <1>0, <1>5, ChainKept DEF EndSearch, Frontier, search, written
<1>6. CASE Insert
  <2>1. CASE ins + MinMatch <= InputLen
    BY <2>1, <1>6, ChainInsert
  <2>2. CASE ~(ins + MinMatch <= InputLen)
    <3>1. UNCHANGED <<input, chains>> /\ lpc = "insert" /\ lpc' = "insert"
          /\ ins' = ins + 1
      BY <2>2, <1>0, <1>6 DEF Insert, LzTypeOK
    <3> QED
      BY <3>1, <1>0, ChainKept DEF Frontier
  <2> QED
    BY <2>1, <2>2
<1>7. CASE Emit
  <2>1. /\ ins = InsertEnd /\ lpc = "insert" /\ lpc' = "token"
        /\ pos' = pos + (IF Matched THEN best_len ELSE 1)
        /\ UNCHANGED <<input, chains>>
    BY <1>7 DEF Emit, Put
  <2>2. best_len \in Nat /\ best_len >= MinMatch - 1
    BY <2>1, <1>0 DEF LzTypeOK, MatchInv
  <2>3. ins <= pos'
    BY <2>1, <2>2, <1>0, InsertEndFacts
  <2>4. pos' \in Nat
    BY <2>1, <2>2, <1>0
  <2> QED
    BY <2>1, <2>3, <2>4, <1>0, ChainKept DEF Frontier
<1>8. CASE EndCompress \/ Unpack(out) \/ Decompressing
  <2>1. /\ UNCHANGED <<input, chains>> /\ pos' = pos
        /\ lpc \notin {"search", "compare", "insert"}
        /\ lpc' \notin {"search", "compare", "insert"}
    BY <1>8 DEF EndCompress, Unpack, Decompressing, DecodeLiteral, DecodeMatch,
       SkipCorrupt, CopyByte, EndCopy, EndDecode, written
  <2> QED
    BY <2>1, <1>0, ChainKept DEF Frontier
<1> QED
  BY <1>1, <1>2, <1>3, <1>4, <1>5, <1>6, <1>7, <1>8 DEF LzStep, Compressing
-----------------------------------------------------------------------------
(* Each step keeps what is known of the match.                             *)

LEMMA MatchStep ==
  ASSUME LzInv, LzStep(out)
  PROVE  MatchInv'
<1> USE Constants, InputFacts
<1>0. /\ LzTypeOK /\ ChainInv /\ MatchInv /\ pos \in Nat /\ ins \in Nat
      /\ InputLen \in Nat /\ best_len \in Nat
  BY DEF LzInv, LzTypeOK
<1>1. CASE TailLiteral \/ Emit
  <2>1. lpc' = "token"
    BY <1>1 DEF TailLiteral, Emit
  <2> QED
    BY <2>1 DEF MatchInv
<1>2. CASE BeginSearch
  BY <1>0, <1>2 DEF BeginSearch, MatchInv, InputLen, Matched, written
<1>3. CASE Candidate
  <2>1. cur \in Nat
    BY <1>0, <1>3 DEF Candidate, CanFollow, LzTypeOK
  <2> QED
    BY <2>1, <1>0, <1>3
       DEF Candidate, CanFollow, MatchInv, InputLen, Matched, SameBytes, written
<1>4. CASE Extend
  <2>1. mlen \in Nat
    BY <1>0 DEF LzTypeOK
  <2>2. SameBytes(cur, pos, mlen + 1)
    <3>1. SameBytes(cur, pos, mlen) /\ input[cur + mlen + 1] = input[pos + mlen + 1]
      BY <1>0, <1>4 DEF Extend, Matches, MatchInv
    <3>2. \A k \in 0 .. (mlen + 1) - 1 : k = mlen \/ k \in 0 .. mlen - 1
      BY <2>1
    <3> QED
      BY <3>1, <3>2 DEF SameBytes
  <2>3. mlen + 1 <= InputLen - pos
    BY <2>1, <1>0, <1>4 DEF Extend, Matches
  <2> QED
    BY <2>2, <2>3, <1>0, <1>4
       DEF Extend, MatchInv, InputLen, Matched, SameBytes, written
<1>5. CASE Judge
  <2>1. /\ pos + MinMatch <= InputLen /\ ins = pos
        /\ cur \in 0 .. pos - 1 /\ mlen \in Nat /\ mlen <= InputLen - pos
        /\ SameBytes(cur, pos, mlen) /\ best_len >= MinMatch - 1
    BY <1>0, <1>5 DEF Judge, MatchInv, LzTypeOK
  <2>2. /\ input' = input /\ pos' = pos /\ ins' = ins
        /\ lpc' \in {"search", "insert"}
        /\ best_len'    = IF mlen > best_len THEN mlen ELSE best_len
        /\ best_offset' = IF mlen > best_len THEN pos - cur ELSE best_offset
    BY <1>5 DEF Judge, written
  <2>3. CASE mlen > best_len
    <3>1. best_offset' = pos - cur /\ best_len' = mlen /\ best_offset' \in 1 .. pos
      <4>1. best_offset' = pos - cur /\ best_len' = mlen
        BY <2>2, <2>3
      <4>2. pos - cur \in 1 .. pos
        BY <2>1, <1>0
      <4> QED
        BY <4>1, <4>2
    <3>2. SameBytes(pos - best_offset', pos, best_len')
      <4>1. pos - best_offset' = cur
        BY <3>1, <2>1, <1>0
      <4> QED
        BY <4>1, <3>1, <2>1
    <3>3. (Matched => /\ best_offset \in 1 .. pos /\ best_len <= InputLen - pos
                      /\ SameBytes(pos - best_offset, pos, best_len))'
      BY <3>1, <3>2, <2>1, <2>2 DEF SameBytes, InputLen
    <3>4. best_len' >= MinMatch - 1 /\ ins' \in pos' .. InsertEnd'
      <4>1. mlen >= MinMatch
        BY <2>1, <2>3, <1>0
      <4>2. InsertEnd' = pos + (IF mlen < SkipLimit THEN mlen ELSE SkipLimit)
        BY <4>1, <3>1, <2>2 DEF InsertEnd, Matched
      <4>3. InsertEnd' \in Nat /\ pos \in Nat /\ pos <= InsertEnd'
        BY <4>2, <2>1, <1>0
      <4> HIDE Constants, InputFacts
      <4>4. best_len' = mlen
        BY <3>1
      <4>5. ins' = pos /\ pos' = pos
        BY <2>1, <2>2, Zenon
      <4>6. best_len' >= MinMatch - 1
        BY <4>1, <4>4, Constants, <2>1
      <4>7. ins' \in pos' .. InsertEnd'
        BY <4>3, <4>5
      <4> QED
        BY <4>6, <4>7
    <3> QED
      BY <3>3, <3>4, <2>1, <2>2 DEF MatchInv, InputLen
  <2>4. CASE ~(mlen > best_len)
    <3>1. best_offset' = best_offset /\ best_len' = best_len
      BY <2>2, <2>4
    <3>2. (Matched => /\ best_offset \in 1 .. pos /\ best_len <= InputLen - pos
                      /\ SameBytes(pos - best_offset, pos, best_len))'
      BY <3>1, <2>2, <1>0, <1>5 DEF SameBytes, InputLen, Matched, Judge, MatchInv
    <3>3. best_len' >= MinMatch - 1 /\ ins' \in pos' .. InsertEnd'
      <4>1. pos \in pos .. InsertEnd
        BY <2>1, <1>0, InsertEndFacts
      <4>2. InsertEnd' = InsertEnd
        BY <3>1, <2>2 DEF InsertEnd, Matched
      <4> QED
        BY <4>1, <4>2, <3>1, <2>1, <2>2
    <3> QED
      BY <3>2, <3>3, <2>1, <2>2 DEF MatchInv, InputLen
  <2> QED
    BY <2>3, <2>4
<1>6. CASE EndSearch
  <2>1. best_len >= MinMatch - 1 /\ ins = pos
    BY <1>0, <1>6 DEF EndSearch, MatchInv
  <2>2. ins \in pos .. InsertEnd
    BY <2>1, <1>0, InsertEndFacts
  <2> QED
    BY <2>1, <2>2, <1>0, <1>6 DEF EndSearch, MatchInv, InputLen, Matched, SameBytes,
       InsertEnd, search, written
<1>7. CASE Insert
  <2>1. best_len >= MinMatch - 1 /\ ins < InsertEnd /\ ins >= pos
    BY <1>0, <1>7 DEF Insert, MatchInv
  <2>2. ins + 1 \in pos .. InsertEnd
    BY <2>1, <1>0, InsertEndFacts
  <2>3. lpc = "insert" /\ lpc' = "insert" /\ ins' = ins + 1
        /\ UNCHANGED <<input, pos, best_len, best_offset>>
    BY <1>7 DEF Insert, written
  <2> QED
    BY <2>2, <2>3, <1>0 DEF MatchInv, InputLen, Matched, SameBytes, InsertEnd
<1>8. CASE EndCompress \/ Unpack(out) \/ Decompressing
  <2>1. /\ UNCHANGED <<input, pos>> /\ pos = InputLen
        /\ lpc' \in {"packed", "decode", "copy", "unpacked"}
    BY <1>0, <1>8 DEF EndCompress, Unpack, Decompressing, DecodeLiteral, DecodeMatch,
       SkipCorrupt, CopyByte, EndCopy, EndDecode, written, MatchInv
  <2> QED
    BY <2>1 DEF MatchInv, InputLen
<1> QED
  BY <1>1, <1>2, <1>3, <1>4, <1>5, <1>6, <1>7, <1>8 DEF LzStep, Compressing

-----------------------------------------------------------------------------
(* Each step keeps the tokens those of the input that has been read.       *)

LEMMA PutSrc ==
  ASSUME LzInv, NEW token \in Seq(Octet), token # <<>>, NEW length \in Nat,
         Put(token, length), UNCHANGED input,
         \/ /\ Len(token) = 2 /\ length = 1
            /\ token[1] = TagLit /\ token[2] = input[pos + 1]
         \/ /\ Len(token) = 4 /\ length = token[4] + MinMatch
            /\ token[1] = TagMatch
            /\ token[2] * Radix + token[3] # 0 =>
                 /\ token[2] * Radix + token[3] <= pos
                 /\ SameBytes(pos - (token[2] * Radix + token[3]), pos, length)
  PROVE  SrcInv'
<1>a. LzTypeOK /\ SrcInv
  BY DEF LzInv
<1>b. pos \in 0 .. InputLen /\ out \in Seq(Octet)
  BY <1>a DEF LzTypeOK
<1>0. LzTypeOK /\ SrcInv /\ pos \in Nat /\ out \in Seq(Octet)
  BY <1>a, <1>b
<1> PICK n \in Nat : n = Len(out)
  BY <1>0
<1> DEFINE m == Len(token)
<1>1. n \in Nat /\ m \in Nat \ {0} /\ m \in {2, 4}
  BY <1>0
<1>2. out' = out \o token /\ pos' = pos + length /\ Len(out') = n + m
  BY <1>0 DEF Put
<1>3. /\ \A k \in 1 .. n : out'[k] = out[k]
      /\ \A k \in 1 .. m : out'[n + k] = token[k]
  BY <1>0, <1>2
<1>4. /\ DOMAIN src' = DOMAIN src \cup {n + m}
      /\ src'[n + m] = pos'
      /\ \A o \in DOMAIN src : o \in 0 .. n /\ src'[o] = src[o] /\ src[o] \in 0 .. pos
  BY <1>0, <1>1, <1>2 DEF Put, SrcInv
<1>5. 0 \in DOMAIN src' /\ src'[0] = 0 /\ src'[n] = pos /\ n \in DOMAIN src
  BY <1>0, <1>4 DEF SrcInv
<1>6. \A o \in DOMAIN src' : o \in 0 .. n + m /\ src'[o] \in 0 .. pos'
  BY <1>0, <1>1, <1>2, <1>4
<1> HIDE DEF m
<1>7. ASSUME NEW o \in DOMAIN src \ {n}
      PROVE  (LiteralAt(o) \/ MatchAt(o))'
  <2>1. CASE LiteralAt(o)
    <3>1. o + 2 \in DOMAIN src /\ o + 1 \in 1 .. n /\ o + 2 \in 1 .. n
      BY <2>1, <1>1, <1>4 DEF LiteralAt
    <3>2. out'[o + 1] = out[o + 1] /\ out'[o + 2] = out[o + 2]
          /\ src'[o] = src[o] /\ src'[o + 2] = src[o + 2]
      BY <3>1, <1>3, <1>4
    <3> QED
      BY <3>1, <3>2, <2>1, <1>4 DEF LiteralAt
  <2>2. CASE MatchAt(o)
    <3>0. o + 4 \in DOMAIN src /\ o \in 0 .. n /\ o + 4 \in 0 .. n
      BY <2>2, <1>4 DEF MatchAt
    <3>1. o + 4 \in DOMAIN src /\ o + 1 \in 1 .. n /\ o + 2 \in 1 .. n
          /\ o + 3 \in 1 .. n /\ o + 4 \in 1 .. n
      BY <3>0
    <3>2. out'[o + 1] = out[o + 1] /\ out'[o + 2] = out[o + 2]
          /\ out'[o + 3] = out[o + 3] /\ out'[o + 4] = out[o + 4]
          /\ src'[o] = src[o] /\ src'[o + 4] = src[o + 4]
      BY <3>1, <1>3, <1>4
    <3> QED
      BY <3>1, <3>2, <2>2, <1>4 DEF MatchAt, OffsetOf, SameBytes
  <2> QED
    BY <2>1, <2>2, <1>0 DEF SrcInv
<1>8. (LiteralAt(n) \/ MatchAt(n))'
  <2>1. CASE /\ m = 2 /\ length = 1
             /\ token[1] = TagLit /\ token[2] = input[pos + 1]
    <3>1. out'[n + 1] = TagLit /\ out'[n + 2] = input[pos + 1]
      BY <2>1, <1>3
    <3> QED
      BY <3>1, <2>1, <1>2, <1>4, <1>5 DEF LiteralAt
  <2>2. CASE /\ m = 4 /\ length = token[4] + MinMatch
             /\ token[1] = TagMatch
             /\ token[2] * Radix + token[3] # 0 =>
                  /\ token[2] * Radix + token[3] <= pos
                  /\ SameBytes(pos - (token[2] * Radix + token[3]), pos, length)
    <3>1. out'[n + 1] = token[1] /\ out'[n + 2] = token[2]
          /\ out'[n + 3] = token[3] /\ out'[n + 4] = token[4]
      BY <2>2, <1>3
    <3>2. OffsetOf(n)' = token[2] * Radix + token[3]
      BY <3>1, <1>4 DEF OffsetOf
    <3>3. n + 4 \in DOMAIN src' /\ src'[n] = pos
          /\ src'[n + 4] = pos + token[4] + MinMatch
      <4>1. token[4] \in Nat /\ MinMatch \in Nat
        <5>1. 4 \in 1 .. Len(token)
          BY <2>2 DEF m
        <5>2. token[4] \in Octet
          BY <5>1
        <5> QED
          BY <5>2, Constants DEF Octet
      <4>2. src'[n + 4] = pos + (token[4] + MinMatch)
        BY <2>2, <1>2, <1>4
      <4> QED
        BY <4>1, <4>2, <2>2, <1>0, <1>4, <1>5
    <3>4. ASSUME OffsetOf(n)' # 0
          PROVE  /\ OffsetOf(n)' <= pos
                 /\ SameBytes(pos - OffsetOf(n)', pos, token[4] + MinMatch)
      BY <3>2, <3>4, <2>2
    <3>5. /\ n + 4 \in DOMAIN src'
          /\ src'[n + 4] = src'[n] + out'[n + 4] + MinMatch
          /\ out'[n + 1] = TagMatch
          /\ OffsetOf(n)' # 0 => OffsetOf(n)' <= src'[n]
      BY <3>1, <3>3, <3>4, <2>2, <1>0
    <3>6. src'[n] = pos /\ out'[n + 4] = token[4]
      BY <3>1, <3>3
    <3>7. OffsetOf(n)' # 0 =>
            SameBytes(src[n] - OffsetOf(n), src[n], out[n + 4] + MinMatch)'
      BY <3>4, <3>6 DEF SameBytes
    <3> QED
      BY <3>5, <3>7 DEF MatchAt
  <2> QED
    BY <2>1, <2>2 DEF m
<1> QED
  BY <1>2, <1>4, <1>5, <1>6, <1>7, <1>8 DEF SrcInv

LEMMA SrcStep ==
  ASSUME LzInv, LzStep(out)
  PROVE  SrcInv'
<1> USE Constants, InputFacts
<1>0. LzTypeOK /\ MatchInv /\ SrcInv /\ pos \in Nat /\ InputLen \in Nat
  BY DEF LzInv, LzTypeOK
<1>1. CASE TailLiteral \/ (Emit /\ ~Matched)
  <2>1. pos \in 0 .. InputLen - 1
    BY <1>0, <1>1 DEF TailLiteral, Emit, MatchInv
  <2>2. Put(<<TagLit, input[pos + 1]>>, 1) /\ UNCHANGED input
    BY <1>1 DEF TailLiteral, Emit
  <2>3. <<TagLit, input[pos + 1]>> \in Seq(Octet)
    BY <2>1, <1>0, TokenOctets
  <2> DEFINE token == <<TagLit, input[pos + 1]>>
  <2>4. token # <<>> /\ Len(token) = 2 /\ token[1] = TagLit /\ token[2] = input[pos + 1]
    OBVIOUS
  <2> HIDE DEF token
  <2>5. token \in Seq(Octet) /\ Put(token, 1)
    BY <2>2, <2>3 DEF token
  <2> QED
    BY <2>2, <2>4, <2>5, PutSrc
<1>2. CASE Emit /\ Matched
  <2>1. /\ best_offset \in 1 .. pos /\ best_offset \in 0 .. WindowSize
        /\ best_len <= InputLen - pos /\ best_len \in 0 .. MaxMatch
        /\ best_len >= MinMatch /\ SameBytes(pos - best_offset, pos, best_len)
    BY <1>0, <1>2 DEF Emit, MatchInv, LzTypeOK, Matched
  <2>2. best_offset \in 1 .. OffsetRange
    BY <2>1, <1>0
  <2>3. best_len \in MinMatch .. MaxMatch /\ best_len \in Nat
    BY <2>1
  <2> DEFINE hi == (best_offset \div Radix) % Radix
             lo == best_offset % Radix
             token == <<TagMatch, hi, lo, best_len - MinMatch>>
  <2>4. token \in Seq(Octet)
    BY <2>2, <2>3, TokenOctets
  <2>5. hi * Radix + lo = best_offset \/ hi * Radix + lo = 0
    BY <2>2, StoredOffset
  <2>6. Put(token, best_len) /\ UNCHANGED input
    BY <1>2 DEF Emit
  <2> HIDE DEF hi, lo
  <2>7. token # <<>> /\ Len(token) = 4 /\ token[1] = TagMatch /\ token[2] = hi
        /\ token[3] = lo /\ token[4] = best_len - MinMatch
    OBVIOUS
  <2> HIDE DEF token
  <2>8. best_len = token[4] + MinMatch
    BY <2>3, <2>7
  <2>9. token[2] * Radix + token[3] # 0 =>
          /\ token[2] * Radix + token[3] <= pos
          /\ SameBytes(pos - (token[2] * Radix + token[3]), pos, best_len)
    <3>1. token[2] * Radix + token[3] \in {best_offset, 0}
      BY <2>5, <2>7
    <3> QED
      BY <3>1, <2>1, <1>0
  <2> QED
    BY <2>3, <2>4, <2>6, <2>7, <2>8, <2>9, PutSrc
<1>3. CASE UNCHANGED <<input, pos, out, src>>
  BY <1>0, <1>3 DEF SrcInv, LiteralAt, MatchAt, OffsetOf, SameBytes
<1>4. LzStep(out) /\ ~TailLiteral /\ ~Emit => UNCHANGED <<input, pos, out, src>>
  BY DEF LzStep, Compressing, Decompressing, BeginSearch, Candidate, Extend, Judge,
     EndSearch, Insert, EndCompress, Unpack, DecodeLiteral, DecodeMatch, SkipCorrupt,
     CopyByte, EndCopy, EndDecode, written
<1> QED
  BY <1>1, <1>2, <1>3, <1>4
-----------------------------------------------------------------------------
(* Each step of lz77_decompress keeps the output right, or short.          *)

\* Where the decompressor stands at a token, and what the token says.
LEMMA AtToken ==
  ASSUME LzInv, lpc = "decode", ti < Len(tokens)
  PROVE  /\ tokens = out /\ ti \in DOMAIN src \ {Len(out)} /\ src[ti] \in Nat
         /\ tokens[ti + 1] = TagLit => LiteralAt(ti)
         /\ tokens[ti + 1] = TagMatch => MatchAt(ti)
<1>1. tokens = out /\ ti \in DOMAIN src /\ ti # Len(out) /\ TagLit # TagMatch
  BY DEF LzInv, LzTypeOK, DecodeInv, TagLit, TagMatch
<1>2. src[ti] \in 0 .. pos /\ pos \in Nat /\ (LiteralAt(ti) \/ MatchAt(ti))
  BY <1>1 DEF LzInv, LzTypeOK, SrcInv
<1> QED
  BY <1>1, <1>2 DEF LiteralAt, MatchAt

\* The decoding part of the invariant does not read the compressor's state.
LEMMA DecodeKept ==
  ASSUME UNCHANGED <<input, out, src>>
  PROVE  /\ NoWrap' <=> NoWrap
         /\ \A bytes, count : RightOrShort(bytes, count)' <=> RightOrShort(bytes, count)
BY DEF NoWrap, RightOrShort

LEMMA LiteralStep ==
  ASSUME LzInv, DecodeLiteral
  PROVE  DecodeInv'
<1>0. /\ LzTypeOK /\ DecodeInv /\ lpc = "decode" /\ ti < Len(tokens)
      /\ tokens[ti + 1] = TagLit /\ decoded \in Seq(Octet)
  BY DEF LzInv, LzTypeOK, DecodeLiteral
<1>1. /\ UNCHANGED <<input, pos, out, src, tokens>> /\ lpc' = "decode"
      /\ ti' = ti + 2 /\ decoded' = Append(decoded, tokens[ti + 2])
  BY <1>0 DEF DecodeLiteral, written
<1>2. tokens = out /\ LiteralAt(ti) /\ src[ti] \in Nat
  BY <1>0, AtToken
<1>3. ti + 2 \in DOMAIN src /\ src[ti + 2] = src[ti] + 1
      /\ tokens[ti + 2] = input[src[ti] + 1]
  BY <1>2 DEF LiteralAt
<1>4. RightOrShort(decoded', src[ti] + 1)
  <2>1. CASE Len(decoded) = src[ti] /\ \A k \in 1 .. src[ti] : decoded[k] = input[k]
    <3>1. /\ Len(decoded') = src[ti] + 1
          /\ decoded'[src[ti] + 1] = input[src[ti] + 1]
          /\ \A k \in 1 .. src[ti] : decoded'[k] = input[k]
      BY <2>1, <1>0, <1>1, <1>2, <1>3
    <3> QED
      BY <3>1, <1>2 DEF RightOrShort
  <2>2. CASE Len(decoded) < src[ti] /\ ~NoWrap
    <3>1. Len(decoded') = Len(decoded) + 1
      BY <1>0, <1>1
    <3> QED
      BY <3>1, <2>2, <1>0, <1>2 DEF RightOrShort
  <2> QED
    BY <2>1, <2>2, <1>0 DEF DecodeInv, RightOrShort
<1>5. RightOrShort(decoded, src[ti])'
  BY <1>1, <1>3, <1>4, DecodeKept DEF RightOrShort
<1> QED
  BY <1>1, <1>2, <1>3, <1>5 DEF DecodeInv

LEMMA SkipStep ==
  ASSUME LzInv, SkipCorrupt
  PROVE  DecodeInv'
<1>0. /\ LzTypeOK /\ DecodeInv /\ lpc = "decode" /\ ti < Len(tokens)
      /\ tokens[ti + 1] = TagMatch /\ ~GoodOffset /\ Len(decoded) \in Nat
  BY DEF LzInv, LzTypeOK, SkipCorrupt
<1>1. /\ UNCHANGED <<input, pos, out, src, tokens, decoded>> /\ lpc' = "decode"
      /\ ti' = ti + 4
  BY <1>0 DEF SkipCorrupt, written
<1>2. /\ tokens = out /\ MatchAt(ti) /\ src[ti] \in Nat
      /\ ti \in DOMAIN src \ {Len(out)}
  BY <1>0, AtToken
<1>3. ti + 4 \in DOMAIN src /\ src[ti + 4] = src[ti] + out[ti + 4] + MinMatch
  BY <1>2 DEF MatchAt
<1>4. ti + 4 \in 0 .. Len(out) /\ ti \in 0 .. Len(out) /\ out \in Seq(Octet)
  BY <1>2, <1>3, <1>0 DEF LzInv, SrcInv, LzTypeOK
<1>5. out[ti + 2] \in Octet /\ out[ti + 3] \in Octet /\ out[ti + 4] \in Octet
  BY <1>4
<1>6. src[ti + 4] > src[ti] /\ src[ti + 4] \in Nat
  BY <1>2, <1>3, <1>5, Constants DEF Octet
<1>7. Len(decoded) < src[ti + 4] /\ ~NoWrap
  <2>1. CASE Len(decoded) = src[ti]
    <3>1. Offset = OffsetOf(ti)
      BY <1>2 DEF Offset, OffsetOf
    <3>2. out[ti + 2] * Radix + out[ti + 3] = 0
      BY <3>1, <2>1, <1>0, <1>2 DEF GoodOffset, MatchAt, OffsetOf
    <3>3. out[ti + 2] = 0 /\ out[ti + 3] = 0
      <4>1. out[ti + 2] \in Nat /\ out[ti + 3] \in Nat /\ Radix \in Nat /\ Radix >= 2
        BY <1>5, Constants DEF Octet
      <4>2. out[ti + 2] >= 1 => Radix * out[ti + 2] >= Radix
        BY <4>1, Multiple
      <4>3. out[ti + 2] * Radix = Radix * out[ti + 2]
        BY <4>1
      <4>4. Radix * out[ti + 2] \in Nat
        BY <4>1
      <4> QED
        BY <3>2, <4>1, <4>2, <4>3, <4>4
    <3> QED
      BY <3>3, <2>1, <1>2, <1>6, <1>0 DEF NoWrap
  <2>2. CASE Len(decoded) < src[ti] /\ ~NoWrap
    BY <2>2, <1>0, <1>2, <1>6
  <2> QED
    BY <2>1, <2>2, <1>0 DEF DecodeInv, RightOrShort
<1>8. RightOrShort(decoded, src[ti])'
  BY <1>1, <1>7, DecodeKept DEF RightOrShort
<1> QED
  BY <1>1, <1>2, <1>3, <1>8 DEF DecodeInv

LEMMA MatchTokenStep ==
  ASSUME LzInv, DecodeMatch
  PROVE  DecodeInv'
<1>0. /\ LzTypeOK /\ DecodeInv /\ lpc = "decode" /\ ti < Len(tokens)
      /\ tokens[ti + 1] = TagMatch /\ GoodOffset /\ Len(decoded) \in Nat
      /\ ti \in Nat
  BY DEF LzInv, LzTypeOK, DecodeMatch
<1>1. /\ UNCHANGED <<input, pos, out, src, tokens, decoded>> /\ lpc' = "copy"
      /\ ti' = ti + 4 /\ copied' = 0 /\ start' = Len(decoded) - Offset
  BY <1>0 DEF DecodeMatch, written
<1>2. tokens = out /\ MatchAt(ti) /\ src[ti] \in Nat /\ ti \in DOMAIN src
  BY <1>0, AtToken
<1>3. /\ ti + 4 \in DOMAIN src /\ src[ti + 4] = src[ti] + out[ti + 4] + MinMatch
      /\ ti + 4 \in 0 .. Len(out) /\ out \in Seq(Octet)
  BY <1>2, <1>0 DEF MatchAt, LzInv, SrcInv, LzTypeOK
<1>4. out[ti + 4] \in Octet
  BY <1>0, <1>3
<1> DEFINE len == out[ti + 4] + MinMatch
<1>5. len \in Nat /\ src[ti + 4] = src[ti] + len
  <2>1. out[ti + 4] \in Nat /\ MinMatch \in Nat
    BY <1>4, Constants DEF Octet
  <2> QED
    BY <2>1, <1>2, <1>3
<1>6. CopyLen' = len
  BY <1>1, <1>2 DEF CopyLen
<1>7. Offset = OffsetOf(ti) /\ Offset # 0
  BY <1>0, <1>2 DEF Offset, OffsetOf, GoodOffset
<1>8. Offset <= src[ti] /\ SameBytes(src[ti] - Offset, src[ti], len)
  BY <1>2, <1>7 DEF MatchAt
<1> HIDE DEF len
<1>9. src'[ti'] - CopyLen' = src[ti]
  BY <1>1, <1>2, <1>5, <1>6
<1>10. \/ /\ Len(decoded') = src'[ti'] - CopyLen' + copied'
          /\ \A k \in 1 .. Len(decoded') : decoded'[k] = input'[k]
          /\ SameBytes(start', src'[ti'] - CopyLen', CopyLen')
       \/ Len(decoded') < src'[ti'] - CopyLen' + copied' /\ ~NoWrap
  <2>1. CASE Len(decoded) = src[ti] /\ \A k \in 1 .. src[ti] : decoded[k] = input[k]
    <3>1. start' = src[ti] - Offset
      BY <2>1, <1>1
    <3> QED
      BY <3>1, <2>1, <1>1, <1>2, <1>6, <1>8, <1>9
  <2>2. CASE Len(decoded) < src[ti] /\ ~NoWrap
    BY <2>2, <1>1, <1>2, <1>9
  <2> QED
    BY <2>1, <2>2, <1>0 DEF DecodeInv, RightOrShort
<1>11. CopyInv'
  <2>1. copied' \in 0 .. CopyLen'
    BY <1>1, <1>5, <1>6
  <2>2. NoWrap' <=> NoWrap
    BY <1>1, DecodeKept
  <2> QED
    BY <2>1, <2>2, <1>1, <1>10 DEF CopyInv, SameBytes
<1> QED
  BY <1>0, <1>1, <1>2, <1>3, <1>11 DEF DecodeInv

LEMMA CopyStep ==
  ASSUME LzInv, CopyByte \/ EndCopy
  PROVE  DecodeInv'
<1>0. /\ LzTypeOK /\ DecodeInv /\ lpc = "copy" /\ decoded \in Seq(Octet)
      /\ start \in Nat /\ copied \in Nat /\ CopyInv /\ ti \in Nat /\ ti > 0
      /\ tokens = out /\ ti \in DOMAIN src /\ start + copied < Len(decoded)
  BY DEF LzInv, LzTypeOK, CopyByte, EndCopy, DecodeInv
<1>1. src[ti] \in Nat
  BY <1>0 DEF LzInv, SrcInv, LzTypeOK
<1>2. CopyLen \in Nat
  <2>1. ti \in 1 .. Len(tokens) /\ tokens \in Seq(Octet)
    BY <1>0 DEF LzTypeOK
  <2>2. tokens[ti] \in Octet
    BY <2>1
  <2> QED
    BY <2>2, Constants DEF CopyLen, Octet
<1>3. CASE CopyByte
  <2>1. /\ UNCHANGED <<input, pos, out, src, tokens, ti, start>> /\ lpc' = "copy"
        /\ copied' = copied + 1 /\ copied < CopyLen
        /\ decoded' = Append(decoded, decoded[start + copied + 1])
    BY <1>3 DEF CopyByte, written
  <2>2. CopyLen' = CopyLen
    BY <2>1 DEF CopyLen
  <2>3. /\ Len(decoded') = Len(decoded) + 1
        /\ \A k \in 1 .. Len(decoded) : decoded'[k] = decoded[k]
        /\ decoded'[Len(decoded) + 1] = decoded[start + copied + 1]
    BY <2>1, <1>0
  <2>4. \/ /\ Len(decoded') = src[ti] - CopyLen + copied'
           /\ \A k \in 1 .. Len(decoded') : decoded'[k] = input[k]
           /\ SameBytes(start, src[ti] - CopyLen, CopyLen)
        \/ Len(decoded') < src[ti] - CopyLen + copied' /\ ~NoWrap
    <3>1. CASE /\ Len(decoded) = src[ti] - CopyLen + copied
               /\ \A k \in 1 .. Len(decoded) : decoded[k] = input[k]
               /\ SameBytes(start, src[ti] - CopyLen, CopyLen)
      <4>1. decoded[start + copied + 1] = input[start + copied + 1]
        BY <3>1, <1>0
      <4>2. input[start + copied + 1] = input[(src[ti] - CopyLen) + copied + 1]
        BY <3>1, <2>1, <1>0, <1>2 DEF SameBytes
      <4>3. decoded'[Len(decoded) + 1] = input[Len(decoded) + 1]
        <5>1. Len(decoded) + 1 = (src[ti] - CopyLen) + copied + 1
          BY <3>1, <1>0, <1>1, <1>2
        <5> QED
          BY <5>1, <4>1, <4>2, <2>3
      <4>4. \A k \in 1 .. Len(decoded') : decoded'[k] = input[k]
        BY <4>3, <3>1, <2>3, <1>0
      <4>5. Len(decoded') = src[ti] - CopyLen + copied'
        BY <3>1, <2>1, <2>3, <1>0, <1>1, <1>2
      <4> QED
        BY <4>4, <4>5, <3>1
    <3>2. CASE Len(decoded) < src[ti] - CopyLen + copied /\ ~NoWrap
      BY <3>2, <2>1, <2>3, <1>0, <1>1, <1>2
    <3> QED
      BY <3>1, <3>2, <1>0 DEF CopyInv
  <2>5. copied' \in 0 .. CopyLen' /\ (NoWrap' <=> NoWrap)
    BY <2>1, <2>2, <1>0, <1>2, DecodeKept
  <2>6. CopyInv'
    BY <2>1, <2>2, <2>4, <2>5 DEF CopyInv, SameBytes
  <2> QED
    BY <2>1, <2>6, <1>0 DEF DecodeInv
<1>4. CASE EndCopy
  <2>1. /\ UNCHANGED <<input, pos, out, src, tokens, ti, start, copied, decoded>>
        /\ lpc' = "decode" /\ copied = CopyLen
    BY <1>4 DEF EndCopy, written, unpacker
  <2>2. src[ti] - CopyLen + copied = src[ti]
    BY <2>1, <1>1, <1>2
  <2>3. RightOrShort(decoded, src[ti])
    BY <2>2, <1>0, <1>1 DEF CopyInv, RightOrShort
  <2> QED
    BY <2>1, <2>3, <1>0, DecodeKept DEF DecodeInv
<1> QED
  BY <1>3, <1>4

LEMMA DecodeStep ==
  ASSUME LzInv, LzStep(out)
  PROVE  DecodeInv'
<1> USE DEF LzInv
<1>1. CASE Compressing
  <2>1. /\ lpc \notin {"decode", "copy", "unpacked"}
        /\ lpc' \notin {"decode", "copy", "unpacked"}
        /\ ti' = ti /\ decoded' = decoded
    BY <1>1 DEF Compressing, TailLiteral, BeginSearch, Candidate, Extend, Judge,
       EndSearch, Insert, Emit, EndCompress, unpacker
  <2> QED
    BY <2>1 DEF DecodeInv
<1>2. CASE Unpack(out)
  <2>1. /\ UNCHANGED <<input, pos, out, src>> /\ lpc' = "decode" /\ tokens' = out
        /\ ti' = 0 /\ decoded' = <<>>
    BY <1>2 DEF Unpack, written, DecodeInv
  <2>2. 0 \in DOMAIN src /\ src[0] = 0
    BY DEF SrcInv
  <2> QED
    BY <2>1, <2>2 DEF DecodeInv, RightOrShort
<1>3. CASE EndDecode
  <2>1. /\ UNCHANGED <<input, pos, out, src, tokens, ti, decoded>>
        /\ lpc = "decode" /\ lpc' = "unpacked" /\ ti = Len(tokens)
    BY <1>3 DEF EndDecode, written, unpacker
  <2>2. tokens = out /\ src[ti] = InputLen /\ RightOrShort(decoded, src[ti])
    BY <2>1 DEF DecodeInv, SrcInv, MatchInv
  <2> QED
    BY <2>1, <2>2, DecodeKept DEF DecodeInv, InputLen, SrcInv
<1> QED
  BY <1>1, <1>2, <1>3, LiteralStep, SkipStep, MatchTokenStep, CopyStep
     DEF LzStep, Decompressing
-----------------------------------------------------------------------------
LEMMA LzInitInv == LzInit => LzInv
<1> SUFFICES ASSUME LzInit PROVE LzInv
  OBVIOUS
<1> USE Constants
<1>1. /\ input \in LzInputs /\ input \in Seq(Octet) /\ InputLen \in Nat
      /\ out = <<>> /\ Len(out) = 0 /\ pos = 0 /\ lpc = "token"
  BY LzInputsAssumption DEF LzInit, InputLen
<1>2. LzTypeOK
  <2> DEFINE Place == {NoPos} \cup 0 .. InputLen - 1
  <2>1. /\ hash_head \in [0 .. HashSize - 1 -> Place]
        /\ prev \in [0 .. WindowSize - 1 -> Place] /\ cur \in Place
    BY DEF LzInit
  <2> HIDE DEF Place
  <2>2. /\ pos \in 0 .. InputLen /\ depth \in 0 .. MaxChainDepth
        /\ mlen \in 0 .. MaxMatch /\ best_len \in 0 .. MaxMatch
        /\ best_offset \in 0 .. WindowSize /\ ins \in Nat
        /\ ti \in 0 .. Len(tokens) /\ start \in Nat /\ copied \in Nat
    BY <1>1 DEF LzInit
  <2>3. out \in Seq(Octet) /\ tokens \in Seq(Octet) /\ decoded \in Seq(Octet)
    BY DEF LzInit
  <2> USE DEF Place
  <2> QED
    BY <1>1, <2>1, <2>2, <2>3 DEF LzTypeOK
<1>3. ChainInv
  BY <1>1 DEF LzInit, ChainInv
<1>4. MatchInv
  BY <1>1 DEF MatchInv
<1>5. SrcInv
  BY <1>1 DEF LzInit, SrcInv
<1>6. DecodeInv
  BY <1>1 DEF LzInit, DecodeInv
<1> QED
  BY <1>2, <1>3, <1>4, <1>5, <1>6 DEF LzInv

LEMMA LzStepInv ==
  ASSUME LzInv, LzStep(out)
  PROVE  LzInv'
BY TypeStep, ChainStep, MatchStep, SrcStep, DecodeStep DEF LzInv

LEMMA LzStutterInv ==
  ASSUME LzInv, UNCHANGED lzVars
  PROVE  LzInv'
<1> USE DEF LzInv, lzVars, chains, search, written, unpacker
<1>1. LzTypeOK'
  BY DEF LzTypeOK, InputLen, Matched
<1>2. ChainInv'
  BY DEF ChainInv, Frontier, LinksBack, HashAt, InputLen
<1>3. MatchInv'
  BY DEF MatchInv, InputLen, Matched, SameBytes, InsertEnd
<1>4. SrcInv'
  BY DEF SrcInv, LiteralAt, MatchAt, OffsetOf, SameBytes
<1>5. DecodeInv'
  <2>1. CopyLen' = CopyLen /\ InputLen' = InputLen /\ (NoWrap' <=> NoWrap)
    BY DecodeKept DEF CopyLen, InputLen
  <2>2. CopyInv => CopyInv'
    BY <2>1 DEF CopyInv, SameBytes
  <2> QED
    BY <2>1, <2>2, DecodeKept DEF DecodeInv
<1> QED
  BY <1>1, <1>2, <1>3, <1>4, <1>5

LEMMA LzInvariant == LzSpec => []LzInv
<1>1. LzInv /\ [LzNext]_lzVars => LzInv'
  BY LzStepInv, LzStutterInv DEF LzNext, LzStep
<1> QED
  BY LzInitInv, <1>1, PTL DEF LzSpec

-----------------------------------------------------------------------------
\* The types of lz77.rs, and the ranges that its casts rely on: every length and
\* distance it writes fits, and no copy reads past what is decoded.
THEOREM LzTypes == LzSpec => []LzTypeOK
<1>1. LzInv => LzTypeOK
  BY DEF LzInv
<1> QED
  BY LzInvariant, <1>1, PTL

\* Every candidate that the search follows is an earlier position of the same
\* hash, whatever the ring has overwritten in the meantime (lz77.rs:71).
THEOREM ChainsAreFresh == LzSpec => []ChainFresh
<1>1. LzInv => ChainFresh
  BY DEF LzInv, ChainInv, ChainFresh, Frontier, MatchInv
<1> QED
  BY LzInvariant, <1>1, PTL

LEMMA LzInvDecodes ==
  ASSUME LzInv
  PROVE  DecodesBack
<1> SUFFICES ASSUME lpc = "unpacked"
             PROVE  decoded = input \/ (~NoWrap /\ Len(decoded) < InputLen)
  BY DEF DecodesBack
<1>1. /\ RightOrShort(decoded, InputLen) /\ decoded \in Seq(Octet)
      /\ input \in Seq(Octet)
  BY InputFacts DEF LzInv, DecodeInv, LzTypeOK
<1> QED
  BY <1>1, SeqEqual DEF RightOrShort, InputLen

\* lz77_decompress returns what lz77_compress was given, or fewer bytes where
\* a match was written with the offset 0.
THEOREM LzDecodesBack == LzSpec => []DecodesBack
BY LzInvariant, LzInvDecodes, PTL

-----------------------------------------------------------------------------
(* Inputs too short for the window to matter.                              *)

\* A match at the distance OffsetRange does not fit into them.
Small == Len(input) < OffsetRange + MinMatch

LEMMA NoWrapStep ==
  ASSUME Small, LzInv, NoWrap, LzStep(out)
  PROVE  NoWrap'
<1> USE Constants, InputFacts
<1>0. /\ LzTypeOK /\ MatchInv /\ SrcInv /\ out \in Seq(Octet)
      /\ pos \in Nat /\ InputLen \in Nat
  BY DEF LzInv, LzTypeOK
<1> PICK n \in Nat : n = Len(out)
  BY <1>0
<1>1. ASSUME NEW token \in Seq(Octet), NEW length, Put(token, length),
             \/ Len(token) = 2 /\ token[1] = TagLit
             \/ Len(token) = 4 /\ (token[2] # 0 \/ token[3] # 0)
      PROVE  NoWrap'
  <2>1. /\ out' = out \o token /\ Len(out') = n + Len(token) /\ Len(token) \in {2, 4}
        /\ DOMAIN src' = DOMAIN src \cup {n + Len(token)}
    BY <1>0, <1>1 DEF Put
  <2>2. /\ \A k \in 1 .. n : out'[k] = out[k]
        /\ \A k \in 1 .. Len(token) : out'[n + k] = token[k]
    BY <1>0, <1>1, <2>1
  <2> SUFFICES ASSUME NEW o \in DOMAIN src, out'[o + 1] = TagMatch
               PROVE  out'[o + 2] # 0 \/ out'[o + 3] # 0
    BY <2>1 DEF NoWrap
  <2>3. CASE o = n
    <3>1. CASE Len(token) = 2 /\ token[1] = TagLit
      BY <3>1, <2>2, <2>3 DEF TagLit, TagMatch
    <3>2. CASE Len(token) = 4 /\ (token[2] # 0 \/ token[3] # 0)
      BY <3>2, <2>2, <2>3
    <3> QED
      BY <3>1, <3>2, <1>1
  <2>4. CASE o # n
    <3>1. o \in 0 .. n /\ (LiteralAt(o) \/ MatchAt(o))
      BY <2>4, <1>0 DEF SrcInv
    <3>2. o + 1 \in 1 .. n
      BY <3>1, <2>4
    <3>3. MatchAt(o)
      BY <3>1, <3>2, <2>2 DEF LiteralAt, TagLit, TagMatch
    <3>4. o + 4 \in 0 .. n
      BY <3>3, <1>0 DEF MatchAt, SrcInv
    <3>5. out[o + 2] # 0 \/ out[o + 3] # 0
      BY <3>3, <2>4 DEF MatchAt, NoWrap
    <3> QED
      BY <3>1, <3>4, <3>5, <2>2
  <2> QED
    BY <2>3, <2>4
<1>2. CASE TailLiteral \/ (Emit /\ ~Matched)
  <2>1. pos \in 0 .. InputLen - 1
    BY <1>0, <1>2 DEF TailLiteral, Emit, MatchInv
  <2>2. Put(<<TagLit, input[pos + 1]>>, 1)
    BY <1>2 DEF TailLiteral, Emit
  <2>3. <<TagLit, input[pos + 1]>> \in Seq(Octet)
    BY <2>1, <1>0, TokenOctets
  <2> QED
    BY <2>2, <2>3, <1>1
<1>3. CASE Emit /\ Matched
  <2>1. /\ best_offset \in 1 .. pos /\ best_offset \in 0 .. WindowSize
        /\ best_len \in 0 .. MaxMatch /\ best_len >= MinMatch
        /\ pos + best_len <= InputLen
    BY <1>0, <1>3 DEF Emit, MatchInv, LzTypeOK, Matched
  <2>2. best_offset \in 1 .. OffsetRange /\ best_offset # OffsetRange
    BY <2>1, <1>0 DEF Small, InputLen
  <2>3. best_len \in MinMatch .. MaxMatch
    BY <2>1
  <2> DEFINE hi == (best_offset \div Radix) % Radix
             lo == best_offset % Radix
             token == <<TagMatch, hi, lo, best_len - MinMatch>>
  <2>4. token \in Seq(Octet)
    BY <2>2, <2>3, TokenOctets
  <2>5. hi * Radix + lo = best_offset
    BY <2>2, StoredOffset
  <2>6. Put(token, best_len)
    BY <1>3 DEF Emit
  <2> HIDE DEF hi, lo
  <2>7. hi # 0 \/ lo # 0
    BY <2>2, <2>5
  <2>8. Len(token) = 4 /\ (token[2] # 0 \/ token[3] # 0)
    BY <2>7
  <2> HIDE DEF token
  <2> QED
    BY <2>4, <2>6, <2>8, <1>1
<1>4. CASE UNCHANGED <<out, src>>
  BY <1>4 DEF NoWrap
<1>5. LzStep(out) /\ ~TailLiteral /\ ~Emit => UNCHANGED <<out, src>>
  BY DEF LzStep, Compressing, Decompressing, BeginSearch, Candidate, Extend, Judge,
     EndSearch, Insert, EndCompress, Unpack, DecodeLiteral, DecodeMatch, SkipCorrupt,
     CopyByte, EndCopy, EndDecode, written
<1> QED
  BY <1>2, <1>3, <1>4, <1>5

SmallInv == Small => NoWrap

LEMMA SmallStep ==
  ASSUME LzInv, SmallInv, [LzNext]_lzVars
  PROVE  SmallInv'
<1>1. input' = input
  BY DEF LzNext, Compressing, Decompressing, TailLiteral, BeginSearch, Candidate, Extend,
     Judge, EndSearch, Insert, Emit, Put, EndCompress, Unpack, DecodeLiteral, DecodeMatch,
     SkipCorrupt, CopyByte, EndCopy, EndDecode, lzVars, unpacker
<1>2. Small' <=> Small
  BY <1>1 DEF Small
<1>3. UNCHANGED lzVars /\ NoWrap => NoWrap'
  BY DEF NoWrap, lzVars, written
<1> QED
  BY <1>2, <1>3, NoWrapStep DEF SmallInv, LzNext, LzStep

\* Every input of fewer than 65540 bytes comes back from lz77_decompress: for a
\* match at the distance that does not fit into two bytes (lz77.rs:57), 65536
\* bytes before it and four that match are needed.  Longer chunks are what
\* `axc c` makes by default.
THEOREM SmallComesBack == LzSpec => [](Len(input) < OffsetRange + MinMatch => LzRoundTrip)
<1>1. LzInit => SmallInv
  BY DEF LzInit, NoWrap, SmallInv
<1>2. LzInv /\ SmallInv /\ [LzNext]_lzVars => SmallInv'
  BY SmallStep
<1>3. SmallInv /\ DecodesBack => (Len(input) < OffsetRange + MinMatch => LzRoundTrip)
  BY DEF DecodesBack, LzRoundTrip, SmallInv, Small
<1> QED
  BY <1>1, <1>2, <1>3, LzInvariant, LzDecodesBack, PTL DEF LzSpec
=============================================================================
