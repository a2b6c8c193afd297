SPECIFICATION Spec
CONSTANTS
  p1 = p1
  p2 = p2
  NoPath = NoPath
  NoVersion = NoVersion
  NoEntry = NoEntry
  Garbage = Garbage
  Holographic = FALSE
  Threads = {t1, t2}
  Paths = {p1}
  Bytes = {1, 2}
  ExactBytes = {}
  ChunkSize = 2
  Contents <- MCOneContent
  ChangeSets <- MCNone
  Appends <- MCNone
  Lengths <- MCNone
  Kinds = {"write", "delete", "compact"}
  MaxCalls = 3
  InitPath = p1
  InitContent <- MCInitContent
INVARIANTS
  NoLostUpdate
CHECK_DEADLOCK FALSE
