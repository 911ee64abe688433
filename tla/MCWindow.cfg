SPECIFICATION CodecSpec
CONSTANTS
  Radix = 4
  WindowSize = 16
  MinMatch = 2
  MaxChainDepth = 4
  HashSize = 2
  SkipLimit = 3
  Hash <- MCHash
  LzInputs <- MCWindowInputs
  TableSize = 8
INVARIANT LzRoundTrip
CHECK_DEADLOCK FALSE
