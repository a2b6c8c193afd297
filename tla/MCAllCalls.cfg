SPECIFICATION Spec
CONSTANTS
  p1 = p1
  p2 = p2
  NoPath = NoPath
  NoVersion = NoVersion
  NoEntry = NoEntry
  Garbage = Garbage
  Holographic = FALSE
  Threads = {t1, t2, t3}
  Paths = {p1}
  Bytes = {1, 2}
  ExactBytes = {1}
  ChunkSize = 2
  Contents <- MCOneContent
  ChangeSets <- MCOneByte
  Appends <- MCOneAppend
  Lengths <- MCOneLength
  Kinds = {"write", "read", "delete", "replace", "append", "truncate", "compact"}
  MaxCalls = 1
  InitPath = p1
  InitContent <- MCInitContent
INVARIANTS
  Inductive
  EntryChunksStored
  TotalChunksExact
CHECK_DEADLOCK FALSE
SYMMETRY MCSymmetry
