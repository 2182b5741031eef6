SPECIFICATION Spec
CONSTANTS
  MaxTurns = 2
  MaxDepth = 6
INVARIANTS
  TypeOK
  DropsOnlyOwn
  LeavesNothing
  ErrorOrResult
  ErrorMeansError
CHECK_DEADLOCK FALSE
