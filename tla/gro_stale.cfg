SPECIFICATION Spec
CONSTANTS
  Parts = {"overtaken"}
  Nil = Nil
INVARIANTS StackSees
CHECK_DEADLOCK FALSE
