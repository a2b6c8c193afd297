SPECIFICATION FairSpec
CONSTANTS
  Threads = {t1, t2, t3, t4}
  Chunk <- MCChunk
  MaxRetries = 2
INVARIANTS
  FailureNeedsContention
PROPERTIES
  EveryCallReturns
CHECK_DEADLOCK FALSE
