SPECIFICATION WaitsSpec
CONSTANTS
  Tasks = {t1, t2, t3}
  Rounds = 2
  Producers = {p1, p2}
CHECK_DEADLOCK FALSE
INVARIANTS Exclusive NothingLost
PROPERTIES EveryTaskDone Delivery PushReturns
