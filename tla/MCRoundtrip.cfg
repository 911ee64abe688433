SPECIFICATION SystemSpec
CONSTANTS
  Bytes = {"x", "y", "z", "o"}
  ChunkSize = 2
  LzChunks <- MCLzChunks
  Short <- MCShort
  PanicChunks <- MCPanic
  LenRange = 16
  Workers = {w1}
  Alphabet <- MCAlphabet
  CreateArgs <- MCAllArgs
  Inputs <- MCInputs
  Faults = {"read", "io", "kill"}
  ReadFaults = {"io", "kill"}
  Damages = {}
  Limits = {5, 100}
  Places <- MCPlaces
  MaxRuns = 2
INVARIANTS
  SerialInOrder
  ReadTypeOK
  AllOrdered
  NoFalseAlarm
  StopsInTheWay
  TreesComeBack
  ListTellsAll
PROPERTY
  PromiseKept
CHECK_DEADLOCK FALSE
