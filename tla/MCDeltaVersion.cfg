SPECIFICATION Spec
CONSTANTS
  p1 = p1
  p2 = p2
  NoPath = NoPath
  NoVersion = NoVersion
  NoEntry = NoEntry
  Garbage = Garbage
  Holographic = FALSE
  Threads = {t1}
  Paths = {p1, p2}
  Bytes = {1, 2}
  ExactBytes = {}
  ChunkSize = 2
  Contents <- MCOneContent
  ChangeSets <- MCOneByte
  Appends <- MCNone
  Lengths <- MCNone
  Kinds = {"write", "replace"}
  MaxCalls = 2
  InitPath = p1
  InitContent <- MCInitContent
INVARIANTS
  ReturnedVersion
CHECK_DEADLOCK FALSE
