SPECIFICATION Spec
CONSTANTS
  Parts = {"aggfrag"}
  Want = {4}
  MaxLost = 1
  Nil = Nil
INVARIANTS NoSplice
CHECK_DEADLOCK FALSE
