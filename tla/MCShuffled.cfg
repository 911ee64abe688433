SPECIFICATION SystemSpec
CONSTANTS
  Bytes = {"x", "y", "z", "o"}
  ChunkSize = 2
  LzChunks <- MCLzChunks
  Short <- MCShort
  PanicChunks <- MCPanic
  LenRange = 16
  Workers = {w1, w2}
  Alphabet <- MCAlphabet
  CreateArgs <- MCTwoFiles
  Inputs <- MCInputs
  Faults = {}
  ReadFaults = {}
  Damages = {"crc", "payload"}
  Limits = {3, 8}
  Places <- MCEmpty
  MaxRuns = 2
INVARIANTS
  OnlyShuffledIsWrong
  NoFalseAlarm
  TestPredictsExtract
CHECK_DEADLOCK FALSE
