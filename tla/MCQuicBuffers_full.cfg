SPECIFICATION Spec
CONSTANTS
  Conns = {c1, c2}
  Slots = {k1}
  Buffers = {b1, b2, b3, b4}
  Size = 1
SYMMETRY Alike
INVARIANTS ReserveHolds
CHECK_DEADLOCK FALSE
