SPECIFICATION FairSpec
CONSTANTS
  N = 2
  Service = 1
  BackoffMs = 1
  BackoffCapMs = 3
  QuickExitMs = 1
  GraceMs = 1
  MaxSignals = 1
CHECK_DEADLOCK FALSE
INVARIANTS Supervised
PROPERTIES StopEnds WorkerReturns
