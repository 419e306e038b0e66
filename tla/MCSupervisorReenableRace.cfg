SPECIFICATION Spec
CONSTANTS
  Sessions = {1}
  Callers = {a}
  Workers = {w1, w2, w3, w4}
  Main = main
  None = none
  Ops = {"reenable"}
  Faults = {}
  Capped = TRUE
  InitialRows = {"running"}
  SinkCapacity = 1
  MaxRestarts = 0
INVARIANTS ReenableStarts
SYMMETRY ThreadSymmetry
CHECK_DEADLOCK FALSE
