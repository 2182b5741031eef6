SPECIFICATION FairSpec
CONSTANTS
  Threads = {t1, t2}
  NoRequest = NoRequest
  MaxCalls = 2
  MaxInAll = 4
  MaxInFlight = 1
INVARIANT NoOrphanStop
PROPERTIES
  StopResumed
  InTimeCallReturns
CHECK_DEADLOCK FALSE
