SPECIFICATION ReuseSpec
CONSTANTS
  Threads = {t1, t2}
  Slots = 2
  GenMax = 3
  Windows = {w1}
  MaxObjects = 1
  MaxMaps = 3
  RegionThreads = {1, 2}
  RegionSlots = 2
  GenEnd = 3
  CallSlots = 2
  Conns = 2
  MaxCalls = 2
  MaxInbox = 2
  Lookups = {0}
  ServerCount = 1
  Attempts = 2
  MaxHops = 0
  Candidates = 2
  Procs = {p1, p2}
  Programs = {"a"}
  RuntimeUnits = {1, 2}
INVARIANTS HandlesSound RegionsApart CallsKept LookupSound CacheSound
CHECK_DEADLOCK FALSE
