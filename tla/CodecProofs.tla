----------------------------- MODULE CodecProofs ----------------------------
(***************************************************************************)
(* Proofs about Codec: it runs Lz77 and Rans as they are specified, so     *)
(* that what is proved of them holds in it, and a chunk comes back from    *)
(* decompress as it was given to compress_full.                            *)
(***************************************************************************)
EXTENDS Codec, Lz77Proofs, RansProofs

-----------------------------------------------------------------------------
(* The inductive invariant: which of the two stands where. *)

Stages ==
  /\ flag \in {0, 1} /\ cpc \in {"pack", "ans", "unpack", "done", "panicked"}
  /\ cpc = "pack" => apc = "idle" /\ lpc \notin {"decode", "copy", "unpacked"}
  /\ cpc = "ans" =>
       apc # "idle" /\ lpc = "packed" /\ symbols = IF flag = 1 THEN out ELSE input
  /\ cpc = "unpack" => flag = 1 /\ lpc \in {"decode", "copy", "unpacked"}

CodecInv == LzInv /\ RansInv /\ Stages /\ CodecExact

-----------------------------------------------------------------------------
LEMMA CodecInitInv == CodecInit => CodecInv
<1> SUFFICES ASSUME CodecInit PROVE CodecInv
  OBVIOUS
<1>1. LzInv /\ RansInv
  BY LzInitInv, RansInitInv DEF CodecInit
<1>2. Stages
  BY DEF CodecInit, LzInit, RansInit, Stages
<1>3. CodecExact
  BY DEF CodecInit, LzInit, RansInit, CodecExact, Result
<1> QED
  BY <1>1, <1>2, <1>3 DEF CodecInv

\* One step of lz77 while rANS waits.
LEMMA LzAlone ==
  ASSUME CodecInv, LzStep(out), UNCHANGED ransVars
  PROVE  LzInv' /\ RansInv'
BY LzStepInv, RansStutterInv DEF CodecInv

\* One step of rANS while lz77 waits.
LEMMA RansAlone ==
  ASSUME CodecInv, RansNext, UNCHANGED lzVars
  PROVE  LzInv' /\ RansInv'
BY LzStutterInv, RansStepInv DEF CodecInv

\* Every step of the codec is a step of one of the two, or of neither, and
\* lz77_decompress is given the tokens that lz77_compress returned.
LEMMA StepOfOne ==
  ASSUME CodecInv, CodecNext
  PROVE  \/ LzStep(out) /\ UNCHANGED ransVars
         \/ RansNext /\ UNCHANGED lzVars
         \/ UNCHANGED <<lzVars, ransVars>>
<1>1. CASE PackStep \/ UnpackStep
  BY <1>1 DEF PackStep, UnpackStep, LzStep
<1>2. CASE KeepTokens \/ KeepRaw
  <2>1. out \in Seq(Octet) /\ input \in Seq(Octet)
    BY InputFacts DEF CodecInv, LzInv, LzTypeOK
  <2> QED
    BY <2>1, <1>2 DEF KeepTokens, KeepRaw, RansNext
<1>3. CASE AnsStep
  BY <1>3 DEF AnsStep, RansNext
<1>4. CASE DecompressTokens
  <2>1. symbols = out /\ output = symbols
    BY <1>4, RansInvExact DEF DecompressTokens, CodecInv, Stages, RansExact
  <2> QED
    BY <2>1, <1>4 DEF DecompressTokens, LzStep
<1>5. CASE AnsPanic \/ DecompressRaw \/ EndDecompress
  BY <1>5 DEF AnsPanic, DecompressRaw, EndDecompress
<1> QED
  BY <1>1, <1>2, <1>3, <1>4, <1>5 DEF CodecNext

\* ans_encode and ans_decode work on what they were called with.
LEMMA CodingKeeps ==
  ASSUME RansInv, Coding
  PROVE  symbols' = symbols /\ apc' # "idle"
<1>1. symbols' = symbols
  BY DEF Coding, BuildCdf, StartEncode, Push, EncodeSymbol, StartDecode, DecodeSymbol,
     Refill, EndRefill, EndAnsDecode, tables
<1>2. apc' # "idle"
  BY TablesStep DEF RansNext
<1> QED
  BY <1>1, <1>2

LEMMA StagesStep ==
  ASSUME CodecInv, CodecNext
  PROVE  Stages'
<1>0. Stages /\ RansInv
  BY DEF CodecInv
<1>1. CASE PackStep
  <2>1. lpc' \notin {"decode", "copy", "unpacked"}
    BY <1>0, <1>1 DEF PackStep, Stages, Compressing, TailLiteral, BeginSearch, Candidate,
       Extend, Judge, EndSearch, Insert, Emit, EndCompress
  <2> QED
    BY <2>1, <1>0, <1>1 DEF PackStep, Stages, ransVars
<1>2. CASE KeepTokens
  BY <1>0, <1>2 DEF KeepTokens, Stages, Load, lzVars, written
<1>3. CASE KeepRaw
  BY <1>0, <1>3 DEF KeepRaw, Stages, Load, lzVars
<1>4. CASE AnsStep
  BY <1>0, <1>4, CodingKeeps DEF AnsStep, Stages, lzVars, written
<1>5. CASE UnpackStep
  BY <1>0, <1>5 DEF UnpackStep, Stages, Decompressing, DecodeLiteral, DecodeMatch,
     SkipCorrupt, CopyByte, EndCopy, EndDecode
<1>6. CASE DecompressTokens
  BY <1>0, <1>6 DEF DecompressTokens, Stages, Unpack
<1>7. CASE AnsPanic \/ DecompressRaw \/ EndDecompress
  BY <1>0, <1>7 DEF AnsPanic, DecompressRaw, EndDecompress, Stages
<1> QED
  BY <1>1, <1>2, <1>3, <1>4, <1>5, <1>6, <1>7 DEF CodecNext

LEMMA ExactStep ==
  ASSUME CodecInv, CodecNext
  PROVE  CodecExact'
<1>1. CASE DecompressRaw
  <2>1. output = symbols /\ symbols = input /\ flag = 0
    BY <1>1, RansInvExact DEF DecompressRaw, CodecInv, Stages, RansExact
  <2> QED
    BY <2>1, <1>1 DEF DecompressRaw, CodecExact, Result, lzVars, ransVars
<1>2. CASE EndDecompress
  <2>1. lpc = "unpacked" /\ flag = 1 /\ UNCHANGED <<input, out, src, decoded, flag>>
    BY <1>2 DEF EndDecompress, CodecInv, Stages, lzVars, written, unpacker
  <2>2. decoded = input \/ (~NoWrap /\ Len(decoded) < InputLen)
    BY <2>1, LzInvDecodes DEF CodecInv, DecodesBack
  <2>3. NoWrap' <=> NoWrap
    BY <2>1, DecodeKept
  <2> QED
    BY <2>1, <2>2, <2>3 DEF CodecExact, Result, InputLen
<1>3. CASE cpc' # "done"
  BY <1>3 DEF CodecExact
<1> QED
  BY <1>1, <1>2, <1>3 DEF CodecNext, PackStep, KeepTokens, KeepRaw, AnsStep, AnsPanic,
     DecompressTokens, UnpackStep

LEMMA CodecStep ==
  ASSUME CodecInv, [CodecNext]_codecVars
  PROVE  CodecInv'
<1>1. CASE CodecNext
  <2>1. LzInv' /\ RansInv'
    BY <1>1, StepOfOne, LzAlone, RansAlone, LzStutterInv, RansStutterInv DEF CodecInv
  <2> QED
    BY <2>1, <1>1, StagesStep, ExactStep DEF CodecInv
<1>2. CASE UNCHANGED codecVars
  <2>1. UNCHANGED <<lzVars, ransVars, flag, cpc>>
    BY <1>2 DEF codecVars
  <2>2. LzInv' /\ RansInv'
    BY <2>1, LzStutterInv, RansStutterInv DEF CodecInv
  <2>3. NoWrap' <=> NoWrap
    BY <2>1 DEF NoWrap, lzVars, written
  <2>4. Stages' /\ CodecExact'
    BY <2>1, <2>3 DEF CodecInv, Stages, CodecExact, Result, lzVars, ransVars, tables,
       written, unpacker
  <2> QED
    BY <2>2, <2>4 DEF CodecInv
<1> QED
  BY <1>1, <1>2

LEMMA CodecInvariant == CodecSpec => []CodecInv
BY CodecInitInv, CodecStep, PTL DEF CodecSpec

-----------------------------------------------------------------------------
\* decompress returns the chunk that compress_full was given, whichever of the
\* two ways was kept, or, after a match written with the offset 0, fewer bytes.
THEOREM CodecIsExact == CodecSpec => []CodecExact
<1>1. CodecInv => CodecExact
  BY DEF CodecInv
<1> QED
  BY CodecInvariant, <1>1, PTL

\* Seen from lz77.rs, the pipeline of mod.rs calls it as Lz77 says: what
\* lz77_decompress is given went through rANS, and is what lz77_compress wrote.
THEOREM CodecRunsLz77 == CodecSpec => LzSpec
<1>1. CodecInit => LzInit
  BY DEF CodecInit
<1>2. CodecInv /\ [CodecNext]_codecVars => [LzNext]_lzVars
  <2>1. CodecInv /\ CodecNext => LzNext \/ UNCHANGED lzVars
    BY StepOfOne DEF LzStep, LzNext
  <2>2. UNCHANGED codecVars => UNCHANGED lzVars
    BY DEF codecVars
  <2> QED
    BY <2>1, <2>2
<1> QED
  BY <1>1, <1>2, CodecInvariant, PTL DEF CodecSpec, LzSpec

\* And seen from ans.rs, as Rans says.
THEOREM CodecRunsRans == CodecSpec => RansSpec
<1>1. CodecInit => RansInit
  BY DEF CodecInit
<1>2. CodecInv /\ [CodecNext]_codecVars => [RansNext]_ransVars
  <2>1. CodecInv /\ CodecNext => RansNext \/ UNCHANGED ransVars
    BY StepOfOne
  <2>2. UNCHANGED codecVars => UNCHANGED ransVars
    BY DEF codecVars
  <2> QED
    BY <2>1, <2>2
<1> QED
  BY <1>1, <1>2, CodecInvariant, PTL DEF CodecSpec, RansSpec

\* decompress returns every chunk of fewer than 65540 bytes whole, whichever way
\* was kept: only in a longer one can a match reach as far back as lz77.rs:57
\* allows.
THEOREM SmallChunkIsExact ==
  CodecSpec => [](cpc = "done" /\ Len(input) < OffsetRange + MinMatch => Result = input)
<1>1. LzInit => SmallInv
  BY DEF LzInit, NoWrap, SmallInv
<1>2. LzInv /\ SmallInv /\ [LzNext]_lzVars => SmallInv'
  BY SmallStep
<1>3. SmallInv /\ CodecExact =>
        (cpc = "done" /\ Len(input) < OffsetRange + MinMatch => Result = input)
  BY DEF CodecExact, SmallInv, Small
<1> QED
  BY <1>1, <1>2, <1>3, CodecIsExact, CodecRunsLz77, LzInvariant, PTL DEF LzSpec
=============================================================================
