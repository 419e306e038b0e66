SPECIFICATION FairSpec
CONSTANTS
  Producers = {p1}
  Flushers = {f1}
  Closers = {k1}
  NoFlusher = nobody
  QueueCapacity = 2
  BatchSize = 2
  Outcomes = {"sent", "failed", "ambiguous"}
  MaxEvents = 3
INVARIANTS FifoAccounting FlushOkMeansStored NoSendOnClosed DrainedWhenDone
PROPERTIES RefinesSink CallsReturn CloseCompletes
CHECK_DEADLOCK FALSE
