SPECIFICATION ConnSpec
CONSTANTS
  a1 = a1  a2 = a2
  Want = 3
  MaxIssued = 5
  MaxFaults = 1
  HandshakeItems = {h1}
  AppItems = {a1}
  HandshakeCapacity = 1
  AppCapacity = 2
  MaxHandshake = 2
  MaxApp = 2
  PacketThreshold = 2
  PersistentThreshold = 1
  Granularity = 1
  InitialRtt = 1
  MaxAckDelay = 0
  MaxBackoff = 2
  DatagramSize = 2
  InitialWindow = 8
  MinimumWindow = 4
  TestingPackets = 0
  HandshakeProbes = 2
  EarlyResends = 1
  AckDelays = {0}
  Paths = {TRUE}
  MaxNow = 2
  MaxBare = 0
  MaxMoves = 0
SYMMETRY Alike
CHECK_DEADLOCK FALSE
INVARIANTS AllRecovers LocalIdsAccepted PeerIdsAccepted
PROPERTIES HalvedOncePerFlight
