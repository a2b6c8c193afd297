SPECIFICATION Spec
CONSTANTS
  Writers = {w1}
  Flusher = flusher
  Owner = owner
  NoOne = noOne
  Modes = {"immediate"}
  MaxPendingOps = 2
  MaxOps = 3
  MaxCheckpoints = 1
  MaxErrors = 2
  MaxCrashes = 0
INVARIANTS
  AckedReadable
CHECK_DEADLOCK FALSE
