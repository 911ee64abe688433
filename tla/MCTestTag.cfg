SPECIFICATION SystemSpec
CONSTANTS
  Bytes = {"x", "y", "z", "o"}
  ChunkSize = 2
  LzChunks <- MCLzChunks
  Short <- MCShort
  PanicChunks <- MCPanic
  LenRange = 16
  Workers = {w1}
  Alphabet <- MCAlphabet
  CreateArgs <- MCThreeChunks
  Inputs <- MCInputs
  Faults = {}
  ReadFaults = {}
  Damages = {"tag"}
  Limits = {100}
  Places <- MCEmpty
  MaxRuns = 1
INVARIANT TestsAllChunks
CHECK_DEADLOCK FALSE
