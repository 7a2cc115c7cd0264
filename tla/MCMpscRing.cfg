SPECIFICATION Spec
CONSTANTS
  p1 = p1  p2 = p2
  Producers <- TwoProducers
  Slots = 2
  SlotBytes = 2
  Lens = {2}
  Rooms = {1, 3}
  Batches = {2}
  Modes <- AllModes
  Doorbell = TRUE
  HasFutex = TRUE
  Mortal <- TwoProducers
  ConsumerDies = TRUE
  MaxPushes = 2
SYMMETRY Symmetry2
INVARIANTS TypeOK NoDataRace NeverCorrupt CrashesStall NoLostWakeup Fifo
PROPERTIES FalseMeansFull ImplementsQueue
