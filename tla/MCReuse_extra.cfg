SPECIFICATION ReuseSpec
CONSTANTS
  Threads = {t1}
  Slots = 1
  GenMax = 3
  Windows = {w1}
  MaxObjects = 1
  MaxMaps = 3
  RegionThreads = {1}
  RegionSlots = 1
  GenEnd = 3
  CallSlots = 2
  Conns = 1
  MaxCalls = 2
  MaxInbox = 2
  Lookups = {0}
  ServerCount = 1
  Attempts = 2
  MaxHops = 0
  Candidates = 2
  Procs = {p1}
  Programs = {"a"}
  RuntimeUnits = {1, 2}
INVARIANT OnlyAsked
CHECK_DEADLOCK FALSE
