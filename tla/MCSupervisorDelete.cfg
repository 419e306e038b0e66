SPECIFICATION Spec
CONSTANTS
  Sessions = {1, 2}
  Callers = {a, b}
  Workers = {w1, w2, w3, w4}
  Main = main
  None = none
  Ops = {"deleteSessions", "reenable"}
  Faults = {"store", "slow"}
  Capped = TRUE
  InitialRows = {"running"}
  SinkCapacity = 1
  MaxRestarts = 0
INVARIANTS DeletedLeavesNothing StoppedHasNoWorker NoLockCycle
SYMMETRY ThreadSymmetry
CHECK_DEADLOCK FALSE
