SPECIFICATION FairSpec
CONSTANTS
  NoIP = "none"
  ProbesPerSample = 2
  MaxConcurrentProbes = 1
  IPs = {"x", "y"}
  MaxTicks = 3
  MaxRuns = 1
INVARIANTS TickConsistent ChangesAreReal
PROPERTIES TicksEnd
CHECK_DEADLOCK FALSE
