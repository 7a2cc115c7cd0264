SPECIFICATION ServerSpec
CONSTANTS
  Slots = 2
  Wheel = 4
  Word = 2
  MaxDelay = 5
  MaxNow = 5
  Conns = {c1, c2}
  Buffers = {b1, b2, b3, b4}
SYMMETRY Alike
CHECK_DEADLOCK FALSE
INVARIANTS SlotsSound TimersSound IndexSound LendingSound
