SPECIFICATION Spec
CONSTANTS
  p1 = p1
  p2 = p2
  NoPath = NoPath
  NoVersion = NoVersion
  NoEntry = NoEntry
  Garbage = Garbage
  Holographic = FALSE
  Threads = {t1, t2}
  Paths = {p1, p2}
  Bytes = {1, 2}
  ExactBytes = {1}
  ChunkSize = 2
  Contents <- MCContents
  ChangeSets <- MCNone
  Appends <- MCNone
  Lengths <- MCNone
  Kinds = {"write", "read", "delete"}
  MaxCalls = 2
  InitPath = p1
  InitContent <- MCInitContent
INVARIANTS
  SnapshotReads
  NoLostUpdate
  VersionChain
  ReturnedVersion
  BitPerfect
  RootCoversFiles
CHECK_DEADLOCK FALSE
SYMMETRY MCSymmetry
