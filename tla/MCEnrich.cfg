SPECIFICATION FairSpec
CONSTANTS
  Callers = {a, b}
  Addrs = {1, 2}
  Keys = {k1, k2}
  NoKey = nokey
  Slots = 1
  Providers = 2
  TTL = 2
  MaxTime = 3
INVARIANTS LookupsConsistent
PROPERTIES LookupsReturn RefinesPromise
CHECK_DEADLOCK FALSE
