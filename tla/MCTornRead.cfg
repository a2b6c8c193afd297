SPECIFICATION Spec
CONSTANTS
  p1 = p1
  p2 = p2
  NoPath = NoPath
  NoVersion = NoVersion
  NoEntry = NoEntry
  Garbage = Garbage
  Holographic = FALSE
  Threads = {t1, t2}
  Paths = {p1}
  Bytes = {1, 2}
  ExactBytes = {}
  ChunkSize = 2
  Contents <- MCNone
  ChangeSets <- MCAcross
  Appends <- MCNone
  Lengths <- MCNone
  Kinds = {"replace", "read"}
  MaxCalls = 1
  InitPath = p1
  InitContent <- MCInitContent
INVARIANTS
  SnapshotReads
CHECK_DEADLOCK FALSE
