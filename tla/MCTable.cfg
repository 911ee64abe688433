SPECIFICATION CodecSpec
CONSTANTS
  Radix = 4
  WindowSize = 16
  MinMatch = 2
  MaxChainDepth = 4
  HashSize = 2
  SkipLimit = 3
  Hash <- MCHash
  LzInputs <- MCFastaInputs
  TableSize = 8
INVARIANT TableFull
CHECK_DEADLOCK FALSE
