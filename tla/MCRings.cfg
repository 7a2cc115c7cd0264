SPECIFICATION RingsSpec
CONSTANTS
  Producers = {p1, p2}
  MaxPushes = 2
  MaxSleeps = 4
  Capacity = 32
  Lens = {0, 9}
  Reserves = {12}
  Rooms = {8, 32}
  Batches = {3}
  Crashes = TRUE
  MaxRecords = 3
CHECK_DEADLOCK FALSE
INVARIANTS RecordsIntact EmptyRingAccepts BellSound
PROPERTIES ImplementsQueue Taken
