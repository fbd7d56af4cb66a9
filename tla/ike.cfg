SPECIFICATION Spec
CONSTANTS
  Parts = {"control", "handshake", "fragments", "aggfrag", "suites", "ikev1"}
  Want = {4}
  MaxLost = 1
  Nil = Nil
INVARIANTS LeaseHeldOnce PumpFollows EndsAgree PolicyHolds NoGap Reassembles
CHECK_DEADLOCK FALSE
