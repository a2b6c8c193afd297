SPECIFICATION Spec
CONSTANTS
  p1 = p1
  p2 = p2
  NoPath = NoPath
  NoVersion = NoVersion
  NoEntry = NoEntry
  Garbage = Garbage
  Holographic = TRUE
  Threads = {t1}
  Paths = {p1}
  Bytes = {1, 2}
  ExactBytes = {1}
  ChunkSize = 2
  Contents <- MCNone
  ChangeSets <- MCOneByte
  Appends <- MCNone
  Lengths <- MCNone
  Kinds = {"replace"}
  MaxCalls = 1
  InitPath = p1
  InitContent <- MCInitContent
INVARIANTS
  BitPerfect
CHECK_DEADLOCK FALSE
