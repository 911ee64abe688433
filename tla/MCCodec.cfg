SPECIFICATION FairCodec
CONSTANTS
  Radix = 4
  WindowSize = 16
  MinMatch = 2
  MaxChainDepth = 4
  HashSize = 2
  SkipLimit = 3
  Hash <- MCHash
  LzInputs <- MCLzInputs
  TableSize = 8
INVARIANTS
  LzTypeOK
  ChainFresh
  DecodesBack
  RansTypeOK
  DecoderRetraces
  RansExact
  NeverShort
  CodecExact
PROPERTY CodecEnds
CHECK_DEADLOCK FALSE
