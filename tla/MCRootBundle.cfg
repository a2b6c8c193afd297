SPECIFICATION FairSpec
CONSTANTS
  b1 = b1
  b2 = b2
  b3 = b3
  Bundlers <- MCBundlers
  ChunkIds <- MCChunkIds
  Batch <- MCBatch
  Stored <- MCStored
  InitRoot <- MCInitRoot
INVARIANTS
  TypeOK
  CopyIsCurrent
  NoLostBundle
PROPERTIES
  EveryCallReturns
  ImplementsAtomicBundle
CHECK_DEADLOCK FALSE
