SPECIFICATION Spec
CONSTANTS
  Threads = {t1, t2}
  Chunk <- MCChunk
  MaxRetries = 10
INVARIANTS
  NoLostBundle
CHECK_DEADLOCK FALSE
