SPECIFICATION Spec
CONSTANTS
  dir = dir
  leaf = leaf
  top = top
  x = x
  y = y
  z = z
  Paths <- MCPaths
  Contents <- MCContents
  Exact = {x}
  Verbatim = {z}
  Unreadable = unreadable
  Absent = absent
  Broken = broken
  Inputs <- MCInputs
  Modes = {TRUE}
  RootCosine <- MCRootCosine
  ChunkCosine <- MCChunkCosine
  Overlap <- MCOverlap
  Queries = {1, 2}
  Bounds <- MCBounds
  ShardSizes = {0, 2}
  MaxEpochs = 1
  MaxCompacts = 0
  MaxEntries = 3
INVARIANTS
  VerifiedIsDecoded
CHECK_DEADLOCK FALSE
