SPECIFICATION FairSpec
CONSTANTS
  Threads = {t1}
  NoRequest = NoRequest
  MaxCalls = 2
  MaxInAll = 2
  MaxInFlight = 1
PROPERTY CallReturns
CHECK_DEADLOCK FALSE
