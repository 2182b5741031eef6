SPECIFICATION Spec
CONSTANTS
  Threads = {t1}
  NoRequest = NoRequest
  MaxCalls = 2
  MaxInAll = 2
  MaxInFlight = 1
INVARIANT ArpAssertion
CHECK_DEADLOCK FALSE
