SPECIFICATION ThreadsSpec
CONSTANTS
  Callers = {c1, c2}
  Workers = {w1}
  Senders = 2
  MaxScopes = 1
  MayDisable = TRUE
CHECK_DEADLOCK FALSE
INVARIANTS JoinSafe DividesRange
PROPERTIES JoinReturns
