SPECIFICATION Spec
CONSTANTS
  Children = {1, 2}
  Callers = {a, b}
  IPs = {x}
  Texts = {"n", "m"}
  Ops = {"createRun", "stopRun", "reenableRun", "deleteRun", "editRun", "runReport", "stop", "reenable", "delete", "edit"}
  Faults = {"store", "lost"}
  MaxReportObservations = 1
  Free = free
  Single = {2}
INVARIANTS RunsConsistent FanOutReaches NamesFollowRun PoolMatchesCells
PROPERTIES ChosenNamesKept
SYMMETRY CallerSymmetry
CHECK_DEADLOCK FALSE
