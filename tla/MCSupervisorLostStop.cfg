SPECIFICATION Spec
CONSTANTS
  Sessions = {1}
  Callers = {a}
  Workers = {w1, w2, w3, w4}
  Main = main
  None = none
  Ops = {"stop", "delete"}
  Faults = {"lost"}
  Capped = FALSE
  InitialRows = {"running"}
  SinkCapacity = 1
  MaxRestarts = 0
INVARIANTS DeletedLeavesNothing
SYMMETRY ThreadSymmetry
CHECK_DEADLOCK FALSE
