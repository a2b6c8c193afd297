SPECIFICATION Spec
CONSTANTS
  p1 = p1
  p2 = p2
  NoPath = NoPath
  NoVersion = NoVersion
  NoEntry = NoEntry
  Garbage = Garbage
  Holographic = FALSE
  Threads = {t1}
  Paths = {p1}
  Bytes = {1, 2, 3}
  ExactBytes = {1}
  ChunkSize = 2
  Contents <- MCNone
  ChangeSets <- MCDeltaChanges
  Appends <- MCAppends
  Lengths <- MCLengths
  Kinds = {"replace", "append", "truncate", "read"}
  MaxCalls = 4
  InitPath = p1
  InitContent <- MCDeltaContent
INVARIANTS
  BitPerfect
  RangesExact
CHECK_DEADLOCK FALSE
