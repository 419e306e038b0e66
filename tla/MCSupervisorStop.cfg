SPECIFICATION Spec
CONSTANTS
  Sessions = {1}
  Callers = {a, b}
  Workers = {w1, w2, w3, w4}
  Main = main
  None = none
  Ops = {"stop", "delete"}
  Faults = {"store", "slow", "ctx", "term", "lost"}
  Capped = TRUE
  InitialRows = {"running"}
  SinkCapacity = 1
  MaxRestarts = 1
INVARIANTS RunningIsOwned
SYMMETRY ThreadSymmetry
CHECK_DEADLOCK FALSE
