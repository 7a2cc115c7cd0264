SPECIFICATION Spec
CONSTANTS
  Size = 2
  Window = 2
  Length = 3
  MaxFrame = 2
  Packets = {p1, p2}
  MaxFaults = 1
SYMMETRY Alike
INVARIANTS EndsInStep
PROPERTIES KeepsPromise
