-------------------------------- MODULE Lz77 --------------------------------
(***************************************************************************)
(* lz77.rs: lz77_compress, then lz77_decompress on what it wrote.          *)
(*                                                                         *)
(* The compressor keeps the last position of every hash value in hash_head *)
(* and links each position to the one before it of the same hash in prev,  *)
(* a ring of WindowSize slots.  At each position it follows the chain,     *)
(* takes the longest match, enters the position (and some that the match   *)
(* covers) into the chains, and writes a token.                            *)
(*                                                                         *)
(* Positions count from 0, as in the code; input[p + 1] is the byte at p.  *)
(***************************************************************************)
EXTENDS Octets

CONSTANTS
  WindowSize, MinMatch, MaxChainDepth, HashSize,
  SkipLimit,  \* positions entered for one token: 8 in the code
  Hash(_),    \* hash4 of MinMatch bytes
  LzInputs    \* what may be compressed

OffsetRange == Radix * Radix         \* an offset is stored in two bytes
MaxMatch    == Radix - 1 + MinMatch  \* a length in one

ASSUME LzAssumption ==
  /\ WindowSize \in 1 .. OffsetRange
  /\ MinMatch \in Nat \ {0} /\ SkipLimit \in Nat \ {0}
  /\ MaxChainDepth \in Nat /\ HashSize \in Nat \ {0}

ASSUME HashAssumption ==
  \A bytes \in [1 .. MinMatch -> Octet] : Hash(bytes) \in 0 .. HashSize - 1

ASSUME LzInputsAssumption == LzInputs \subseteq Seq(Octet)

VARIABLES
  input, pos,              \* lz77_compress: its argument, and where it is
  hash_head, prev,         \* the chains
  entered,                 \* history: the positions entered into them
  cur, depth, mlen,        \* the candidate at hand, and how far it matches
  best_len, best_offset,
  ins,                     \* the next position to enter into the chains
  out,                     \* the bytes of the tokens written
  src,                     \* history: token boundary in out -> position of input
  tokens, ti,              \* lz77_decompress: its argument, and where it is
  start, copied,           \* the copy of a match that it is in
  decoded,                 \* its result
  lpc                      \* control

chains   == <<hash_head, prev, entered>>
search   == <<cur, depth, mlen, best_len, best_offset, ins>>
written  == <<pos, out, src>>
unpacker == <<tokens, ti, start, copied, decoded>>
lzVars   == <<input, chains, search, written, unpacker, lpc>>

NoPos == -1  \* u32::MAX

LzInit ==
  /\ input \in LzInputs
  /\ pos = 0 /\ out = <<>> /\ src = [o \in {0} |-> 0]
  /\ hash_head = [h \in 0 .. HashSize - 1 |-> NoPos]
  /\ prev = [i \in 0 .. WindowSize - 1 |-> NoPos]
  /\ entered = {}
  /\ cur = NoPos /\ depth = 0 /\ mlen = 0
  /\ best_len = 0 /\ best_offset = 0 /\ ins = 0
  /\ tokens = <<>> /\ ti = 0 /\ start = 0 /\ copied = 0 /\ decoded = <<>>
  /\ lpc = "token"

-----------------------------------------------------------------------------
(* Compression. *)

InputLen  == Len(input)
HashAt(p) == Hash([k \in 1 .. MinMatch |-> input[p + k]])

TagLit   == 0
TagMatch == 1

\* A token that stands for `length` bytes of the input.
Put(token, length) ==
  /\ out' = out \o token
  /\ pos' = pos + length
  /\ src' = [o \in DOMAIN src \cup {Len(out')} |->
               IF o = Len(out') THEN pos' ELSE src[o]]

\* Too close to the end for a match.
TailLiteral ==
  /\ lpc = "token" /\ pos < InputLen /\ pos + MinMatch > InputLen
  /\ Put(<<TagLit, input[pos + 1]>>, 1)
  /\ UNCHANGED <<input, chains, search, unpacker, lpc>>

\* Mutation: the first match is taken, of whatever length.
BeginSearchAtZero ==
  /\ lpc = "token" /\ pos + MinMatch <= InputLen
  /\ cur' = hash_head[HashAt(pos)] /\ depth' = 0
  /\ best_len' = MinMatch /\ best_offset' = 0
  /\ ins' = pos
  /\ lpc' = "search"
  /\ UNCHANGED <<input, chains, mlen, written, unpacker>>

BeginSearch ==
  /\ lpc = "token" /\ pos + MinMatch <= InputLen
  /\ cur' = hash_head[HashAt(pos)] /\ depth' = 0
  /\ best_len' = MinMatch - 1 /\ best_offset' = 0
  /\ ins' = pos
  /\ lpc' = "search"
  /\ UNCHANGED <<input, chains, mlen, written, unpacker>>

\* Mutation: the chain is followed out of the window.
CanFollowFar == cur # NoPos /\ depth < MaxChainDepth /\ cur < pos

CanFollow ==
  /\ cur # NoPos /\ depth < MaxChainDepth
  /\ cur < pos /\ pos - cur <= WindowSize

\* Mutation: equal hashes are taken for equal bytes.
CandidateTrusted ==
  /\ lpc = "search" /\ CanFollow
  /\ mlen' = MinMatch
  /\ lpc' = "compare"
  /\ UNCHANGED <<input, chains, cur, depth, best_len, best_offset, ins, written, unpacker>>

Candidate ==
  /\ lpc = "search" /\ CanFollow
  /\ mlen' = 0
  /\ lpc' = "compare"
  /\ UNCHANGED <<input, chains, cur, depth, best_len, best_offset, ins, written, unpacker>>

\* One more byte matches.  A match may run over pos itself.
Matches ==
  /\ mlen < InputLen - pos /\ mlen < MaxMatch
  /\ input[cur + mlen + 1] = input[pos + mlen + 1]

Extend ==
  /\ lpc = "compare" /\ Matches
  /\ mlen' = mlen + 1
  /\ UNCHANGED <<input, chains, cur, depth, best_len, best_offset, ins, written, unpacker, lpc>>

\* Only a longer match replaces the best one; the longest there can be ends the
\* search.
Judge ==
  /\ lpc = "compare" /\ ~Matches
  /\ best_len'    = IF mlen > best_len THEN mlen ELSE best_len
  /\ best_offset' = IF mlen > best_len THEN pos - cur ELSE best_offset
  /\ \/ /\ mlen > best_len /\ mlen = MaxMatch
        /\ lpc' = "insert"
        /\ UNCHANGED <<cur, depth>>
     \/ /\ ~(mlen > best_len /\ mlen = MaxMatch)
        /\ cur' = prev[cur % WindowSize]
        /\ depth' = depth + 1
        /\ lpc' = "search"
  /\ UNCHANGED <<input, chains, mlen, ins, written, unpacker>>

EndSearch ==
  /\ lpc = "search" /\ ~CanFollow
  /\ lpc' = "insert"
  /\ UNCHANGED <<input, chains, search, written, unpacker>>

Matched == best_len >= MinMatch

\* A literal enters its position; a match the first few that it covers.
InsertEnd ==
  pos + (IF ~Matched THEN 1
         ELSE IF best_len < SkipLimit THEN best_len ELSE SkipLimit)

Insert ==
  /\ lpc = "insert" /\ ins < InsertEnd
  /\ \/ /\ ins + MinMatch <= InputLen
        /\ prev' = [prev EXCEPT ![ins % WindowSize] = hash_head[HashAt(ins)]]
        /\ hash_head' = [hash_head EXCEPT ![HashAt(ins)] = ins]
        /\ entered' = entered \cup {ins}
     \/ ins + MinMatch > InputLen /\ UNCHANGED chains
  /\ ins' = ins + 1
  /\ UNCHANGED <<input, cur, depth, mlen, best_len, best_offset, written, unpacker, lpc>>

\* The code writes the token after entering pos and before the positions behind
\* it; neither reads what the other writes.
Emit ==
  /\ lpc = "insert" /\ ins = InsertEnd
  /\ \/ /\ Matched
        /\ Put(<<TagMatch, (best_offset \div Radix) % Radix, best_offset % Radix,
                 best_len - MinMatch>>, best_len)
     \/ ~Matched /\ Put(<<TagLit, input[pos + 1]>>, 1)
  /\ lpc' = "token"
  /\ UNCHANGED <<input, chains, search, unpacker>>

EndCompress ==
  /\ lpc = "token" /\ pos = InputLen
  /\ lpc' = "packed"
  /\ UNCHANGED <<input, chains, search, written, unpacker>>

-----------------------------------------------------------------------------
(* Decompression of `bytes`.  The branches for a token that is cut short   *)
(* and for an unknown tag are left out: no stream of whole tokens takes    *)
(* them, and a damaged one is refused by its checksum before it gets here. *)

Unpack(bytes) ==
  /\ lpc = "packed"
  /\ tokens' = bytes
  /\ lpc' = "decode"
  /\ UNCHANGED <<input, chains, search, written, ti, start, copied, decoded>>

DecodeLiteral ==
  /\ lpc = "decode" /\ ti < Len(tokens) /\ tokens[ti + 1] = TagLit
  /\ decoded' = Append(decoded, tokens[ti + 2])
  /\ ti' = ti + 2
  /\ UNCHANGED <<input, chains, search, written, tokens, start, copied, lpc>>

Offset      == tokens[ti + 2] * Radix + tokens[ti + 3]
GoodOffset  == Offset # 0 /\ Offset <= Len(decoded)

DecodeMatch ==
  /\ lpc = "decode" /\ ti < Len(tokens) /\ tokens[ti + 1] = TagMatch
  /\ GoodOffset
  /\ start' = Len(decoded) - Offset
  /\ copied' = 0
  /\ ti' = ti + 4
  /\ lpc' = "copy"
  /\ UNCHANGED <<input, chains, search, written, tokens, decoded>>

\* Mutation: the token that is skipped is read again.
SkipCorruptAgain ==
  /\ lpc = "decode" /\ ti < Len(tokens) /\ tokens[ti + 1] = TagMatch
  /\ ~GoodOffset
  /\ UNCHANGED lzVars

\* "Corrupt - skip this token" (lz77.rs:133).
SkipCorrupt ==
  /\ lpc = "decode" /\ ti < Len(tokens) /\ tokens[ti + 1] = TagMatch
  /\ ~GoodOffset
  /\ ti' = ti + 4
  /\ UNCHANGED <<input, chains, search, written, tokens, start, copied, decoded, lpc>>

CopyLen == tokens[ti] + MinMatch

CopyByte ==
  /\ lpc = "copy" /\ copied < CopyLen
  /\ decoded' = Append(decoded, decoded[start + copied + 1])
  /\ copied' = copied + 1
  /\ UNCHANGED <<input, chains, search, written, tokens, ti, start, lpc>>

EndCopy ==
  /\ lpc = "copy" /\ copied = CopyLen
  /\ lpc' = "decode"
  /\ UNCHANGED <<input, chains, search, written, unpacker>>

EndDecode ==
  /\ lpc = "decode" /\ ti = Len(tokens)
  /\ lpc' = "unpacked"
  /\ UNCHANGED <<input, chains, search, written, unpacker>>

-----------------------------------------------------------------------------
Compressing ==
  \/ TailLiteral \/ BeginSearch \/ Candidate \/ Extend \/ Judge \/ EndSearch
  \/ Insert \/ Emit \/ EndCompress

Decompressing ==
  \/ DecodeLiteral \/ DecodeMatch \/ SkipCorrupt \/ CopyByte \/ EndCopy
  \/ EndDecode

LzNext == Compressing \/ Unpack(out) \/ Decompressing

LzSpec == LzInit /\ [][LzNext]_lzVars
-----------------------------------------------------------------------------
\* The types, and the ranges that the casts `as u8` and `as usize` rely on.
LzTypeOK ==
  /\ input \in LzInputs
  /\ pos \in 0 .. InputLen
  /\ hash_head \in [0 .. HashSize - 1 -> {NoPos} \cup 0 .. InputLen - 1]
  /\ prev \in [0 .. WindowSize - 1 -> {NoPos} \cup 0 .. InputLen - 1]
  /\ cur \in {NoPos} \cup 0 .. InputLen - 1
  /\ depth \in 0 .. MaxChainDepth
  /\ mlen \in 0 .. MaxMatch /\ best_len \in 0 .. MaxMatch
  /\ best_offset \in 0 .. WindowSize
  /\ lpc \in {"search", "compare", "insert"} /\ Matched => best_offset > 0
  /\ ins \in Nat
  /\ out \in Seq(Octet) /\ tokens \in Seq(Octet) /\ decoded \in Seq(Octet)
  /\ ti \in 0 .. Len(tokens) /\ start \in Nat /\ copied \in Nat
  /\ lpc \in {"token", "search", "compare", "insert", "packed",
              "decode", "copy", "unpacked"}
  /\ lpc = "copy" => start + copied < Len(decoded)

\* prev is a ring, and a slot may belong to a later position than the one that
\* the chain came from (lz77.rs:71): every candidate is nevertheless an earlier
\* position of the same hash.
ChainFresh ==
  lpc \in {"search", "compare"} /\ cur # NoPos =>
    cur < pos /\ HashAt(cur) = HashAt(pos)

\* No match was written with an offset of 0.
NoWrap ==
  \A o \in DOMAIN src \ {Len(out)} :
    out[o + 1] = TagMatch => out[o + 2] # 0 \/ out[o + 3] # 0

\* What lz77_compress writes, lz77_decompress turns back into the input; where a
\* match was written with an offset of 0 it may come back shorter instead, but
\* never as other bytes of the same number.
DecodesBack ==
  lpc = "unpacked" =>
    \/ decoded = input
    \/ ~NoWrap /\ Len(decoded) < InputLen

\* "assert_eq!(output, input)" (the tests of lz77.rs): whatever was compressed.
LzRoundTrip == lpc = "unpacked" => decoded = input
=============================================================================
