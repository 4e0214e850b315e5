CONSTANTS
  Conns = {a, b}
  None = none
  Takers = {b}
  RingCap = 1
  MaxOut = 2
SPECIFICATION Spec
INVARIANTS PaintedOnce
CHECK_DEADLOCK FALSE
