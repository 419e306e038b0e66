SPECIFICATION FairSpec
CONSTANTS
  Sessions = {1}
  Callers = {a}
  Workers = {w1, w2, w3}
  Main = main
  None = none
  Ops = {"stop", "delete"}
  Faults = {"store", "slow"}
  Capped = FALSE
  InitialRows = {"running"}
  SinkCapacity = 1
  MaxRestarts = 0
PROPERTIES OperationsReturn SamplingResumes
CHECK_DEADLOCK FALSE
