SPECIFICATION FairSpec
CONSTANTS
  Size = 2
  Window = 2
  Length = 3
  MaxFrame = 2
  Packets = {p1}
  MaxFaults = 2
PROPERTIES BothEnd
