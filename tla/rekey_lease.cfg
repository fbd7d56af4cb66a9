SPECIFICATION Spec
CONSTANTS
  Parts = {"control"}
  Want = {4, 6}
  MaxLost = 0
  Nil = Nil
INVARIANTS LeaseHeldOnce
CHECK_DEADLOCK FALSE
