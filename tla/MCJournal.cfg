SPECIFICATION FairSpec
CONSTANTS
  Writers = {w1, w2}
  Flusher = flusher
  Owner = owner
  NoOne = noOne
  Modes <- MCModes
  MaxPendingOps = 2
  MaxOps = 3
  MaxCheckpoints = 1
  MaxErrors = 1
  MaxCrashes = 1
INVARIANTS
  AckedReadable
  RealTimeOrder
  WrittenOnce
PROPERTIES
  WritersReturn
CHECK_DEADLOCK FALSE
