------------------------------- MODULE Codec --------------------------------
(***************************************************************************)
(* mod.rs: compress_full of a chunk, then decompress of what it wrote.     *)
(*                                                                         *)
(* compress_full makes LZ77 tokens of the chunk and encodes them and the   *)
(* chunk itself with rANS; the flag says which of the two is shorter and   *)
(* was kept.  Their lengths depend on headers whose size does not scale    *)
(* with the table, so either may be kept here.  Only the one kept is       *)
(* followed: nothing is left of the other.                                 *)
(***************************************************************************)
EXTENDS Lz77, Rans

VARIABLES
  flag,  \* the first byte of the chunk's payload: 1 when LZ77 was applied
  cpc    \* control

codecVars == <<lzVars, ransVars, flag, cpc>>

CodecInit ==
  /\ LzInit /\ RansInit
  /\ flag = 0
  /\ cpc = IF input = <<>> THEN "done" ELSE "pack"

\* lz77_compress.
PackStep ==
  /\ cpc = "pack" /\ Compressing
  /\ UNCHANGED <<ransVars, flag, cpc>>

\* Mutation: the flag of the other path is written.
KeepTokensAsRaw ==
  /\ cpc = "pack" /\ lpc = "packed"
  /\ Load(out)
  /\ flag' = 0 /\ cpc' = "ans"
  /\ UNCHANGED lzVars

\* ans_encode(&tokens) is kept, with the number of tokens in front of it.
KeepTokens ==
  /\ cpc = "pack" /\ lpc = "packed"
  /\ Load(out)
  /\ flag' = 1 /\ cpc' = "ans"
  /\ UNCHANGED lzVars

\* ans_encode(input) is kept.
KeepRaw ==
  /\ cpc = "pack" /\ lpc = "packed"
  /\ Load(input)
  /\ flag' = 0 /\ cpc' = "ans"
  /\ UNCHANGED lzVars

\* ans_encode, and ans_decode once the chunk is read again.
AnsStep ==
  /\ cpc = "ans" /\ Coding
  /\ UNCHANGED <<lzVars, flag, cpc>>

AnsPanic ==
  /\ cpc = "ans" /\ apc = "panicked"
  /\ cpc' = "panicked"
  /\ UNCHANGED <<lzVars, ransVars, flag>>

DecompressRaw ==
  /\ cpc = "ans" /\ apc = "decoded" /\ flag = 0
  /\ cpc' = "done"
  /\ UNCHANGED <<lzVars, ransVars, flag>>

\* lz77_decompress of what ans_decode returned.
DecompressTokens ==
  /\ cpc = "ans" /\ apc = "decoded" /\ flag = 1
  /\ Unpack(output)
  /\ cpc' = "unpack"
  /\ UNCHANGED <<ransVars, flag>>

UnpackStep ==
  /\ cpc = "unpack" /\ Decompressing
  /\ UNCHANGED <<ransVars, flag, cpc>>

EndDecompress ==
  /\ cpc = "unpack" /\ lpc = "unpacked"
  /\ cpc' = "done"
  /\ UNCHANGED <<lzVars, ransVars, flag>>

CodecNext ==
  \/ PackStep \/ KeepTokens \/ KeepRaw \/ AnsStep \/ AnsPanic
  \/ DecompressRaw \/ DecompressTokens \/ UnpackStep \/ EndDecompress

CodecSpec == CodecInit /\ [][CodecNext]_codecVars

\* The calls are sequential code in one thread.
FairCodec == CodecSpec /\ WF_codecVars(CodecNext)
-----------------------------------------------------------------------------
\* What decompress returns.
Result == IF flag = 1 THEN decoded ELSE output

\* "decompressed" is the input (the test of mod.rs), whichever way was kept.  The
\* one exception, where a match of LZ77 was written with the offset 0, comes back
\* too short and never as other bytes of the right number.
CodecExact ==
  cpc = "done" =>
    \/ Result = input
    \/ flag = 1 /\ ~NoWrap /\ Len(Result) < Len(input)

\* Every chunk is packed and unpacked in the end, or the decoder panics.
CodecEnds == <>(cpc \in {"done", "panicked"})
=============================================================================
