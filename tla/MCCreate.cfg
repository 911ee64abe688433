SPECIFICATION FairSpec
CONSTANTS
  Workers = {w1, w2, w3}
  Bytes = {"x", "y", "z", "o"}
  ChunkSize = 2
  LzChunks <- MCLzChunks
  Short <- MCShort
  PanicChunks = {}
  LenRange = 16
  Inputs <- MCInputs
  Faults = {"read", "io", "drop", "kill"}
INVARIANTS
  TypeOK
  UniqueChunkIds
  BlockOfIds
  NoFalseArchive
  SequentialOrder
PROPERTY Termination
CHECK_DEADLOCK FALSE
