SPECIFICATION Spec
CONSTANTS
  dir = dir
  leaf = leaf
  top = top
  x = x
  y = y
  z = z
  Paths <- MCNested
  Contents <- MCContents
  Exact = {x}
  Verbatim = {z}
  Unreadable = unreadable
  Absent = absent
  Broken = broken
  Inputs <- MCInputs
  Modes = {TRUE, FALSE}
  RootCosine <- MCRootCosine
  ChunkCosine <- MCChunkCosine
  Overlap <- MCOverlap
  Queries = {1, 2}
  Bounds <- MCBounds
  ShardSizes = {0, 2}
  MaxEpochs = 2
  MaxCompacts = 1
  MaxEntries = 3
INVARIANTS
  AckedVisible
  ChunksDisjoint
  QueryFindsBest
PROPERTIES
  ImplementsPathStore
CHECK_DEADLOCK FALSE
