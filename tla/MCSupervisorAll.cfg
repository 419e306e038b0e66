SPECIFICATION Spec
CONSTANTS
  Sessions = {1}
  Callers = {a, b}
  Workers = {w1, w2, w3, w4}
  Main = main
  None = none
  Ops = {"create", "reenable", "stop", "delete", "deleteSessions"}
  Faults = {"store", "lost", "slow", "ctx", "term"}
  Capped = TRUE
  InitialRows = {"unborn"}
  SinkCapacity = 1
  MaxRestarts = 0
INVARIANTS Ownership WaitDrains
SYMMETRY ThreadSymmetry
CHECK_DEADLOCK FALSE
