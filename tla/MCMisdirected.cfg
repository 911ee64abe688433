SPECIFICATION FairSystem
CONSTANTS
  Bytes = {"x", "y", "z", "o"}
  ChunkSize = 2
  LzChunks <- MCLzChunks
  Short <- MCShort
  PanicChunks <- MCPanic
  LenRange = 16
  Workers = {w1}
  Alphabet <- MCAlphabet
  CreateArgs <- MCArgs
  Inputs <- MCInputs
  Faults = {}
  ReadFaults = {"io", "kill"}
  Damages = {"id", "entry", "name", "length", "huge", "payload", "tag",
             "frame", "version", "footer", "crc", "truncated"}
  Limits = {100}
  Places <- MCPlaces
  MaxRuns = 2
INVARIANTS
  WholeChunksOnly
  StaysInside
  TestPredictsExtract
PROPERTY CommandEnds
CHECK_DEADLOCK FALSE
