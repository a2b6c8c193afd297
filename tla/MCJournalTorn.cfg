SPECIFICATION Spec
CONSTANTS
  Writers = {w1, w2}
  Flusher = flusher
  Owner = owner
  NoOne = noOne
  Modes <- MCModes
  MaxPendingOps = 2
  MaxOps = 3
  MaxCheckpoints = 0
  MaxErrors = 0
  MaxCrashes = 1
INVARIANTS
  Recoverable
CHECK_DEADLOCK FALSE
