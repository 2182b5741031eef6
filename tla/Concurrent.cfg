SPECIFICATION Spec
CONSTANTS
  Threads = {t1, t2}
  NoRequest = NoRequest
  MaxCalls = 2
  MaxInAll = 3
  MaxInFlight = 2
INVARIANTS
  TypeOK
  InspectsHaltedThread
  CallbacksMatchWaiters
  OneResumer
  OneAnswerPerRequest
  AnswerAfterBreakpoint
PROPERTY StopsTheWorld
SYMMETRY Symmetry
CHECK_DEADLOCK FALSE
