SPECIFICATION Spec
CONSTANTS
  n1 = n1
  n2 = n2
  Threads = {t1, t2}
  Fuser = fuser
  Calls <- MCRaceCalls
  MaxCalls = 2
  Names = {n2}
  NodKinds = {}
  MaxDepth = 2
  ReadOnly = TRUE
  Signals <- MCSignals
INVARIANTS
  OkIsFound
CHECK_DEADLOCK FALSE
