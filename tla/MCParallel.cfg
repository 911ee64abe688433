SPECIFICATION SystemSpec
CONSTANTS
  Bytes = {"x", "y", "z", "o"}
  ChunkSize = 2
  LzChunks <- MCLzChunks
  Short <- MCShort
  PanicChunks <- MCPanic
  LenRange = 16
  Workers = {w1, w2}
  Alphabet <- MCAlphabet
  CreateArgs <- MCThreeChunks
  Inputs <- MCInputs
  Faults = {}
  ReadFaults = {}
  Damages = {}
  Limits = {100}
  Places <- MCEmpty
  MaxRuns = 1
INVARIANT NoWrongByte
CHECK_DEADLOCK FALSE
