SPECIFICATION SystemSpec
CONSTANTS
  Bytes = {"x", "y", "z", "o"}
  ChunkSize = 2
  LzChunks <- MCLzChunks
  Short <- MCShort
  PanicChunks <- MCPanic
  LenRange = 16
  Workers = {w1}
  Alphabet <- MCAlphabet
  CreateArgs <- MCArgs
  Inputs <- MCInputs
  Faults = {}
  ReadFaults = {"io", "drop", "chmod", "kill"}
  Damages = {"payload", "frame", "version", "footer", "crc", "length", "truncated", "tag", "huge"}
  Limits = {5, 100}
  Places <- MCPlaces
  MaxRuns = 2
INVARIANTS
  NoWrongByte
  NoTornFile
  NoClobber
  LimitRespected
CHECK_DEADLOCK FALSE
