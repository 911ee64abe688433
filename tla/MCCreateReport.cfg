SPECIFICATION Spec
CONSTANTS
  Bytes = {"x", "y", "z", "o"}
  Workers = {w1}
  ChunkSize = 2
  LzChunks <- MCLzChunks
  Short <- MCShort
  PanicChunks = {}
  LenRange = 16
  Inputs <- MCInputs
  Faults = {}
INVARIANT ReportedIsSize
CHECK_DEADLOCK FALSE
