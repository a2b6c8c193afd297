SPECIFICATION Spec
CONSTANTS
  n1 = n1
  n2 = n2
  Threads = {t1, t2}
  Fuser = fuser
  Calls <- MCCalls
  MaxCalls = 3
  Names = {n2}
  NodKinds = {"symlink", "fifo"}
  MaxDepth = 2
  ReadOnly = FALSE
  Signals <- MCSignals
INVARIANTS
  ListedIsServed
  OkIsReachable
  DirectoriesAgree
  ReportedArrived
PROPERTIES
  SignalUnmounts
CHECK_DEADLOCK FALSE
