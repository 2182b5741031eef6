SPECIFICATION Spec
CONSTANTS
  Threads = {t1, t2}
  Facts = {"size", "quark", "elements", "value"}
  VectorsShared = FALSE
  Modulus = 16
  Header = 4
  Size = 3
  AskedSizes = {2, 4, 13}
  Counts = {0, 6}
  Allocators = {t1}
INVARIANTS
  TypeOK
  BlockHoldsPromise
  AssertsOnlyOnMisuse
  MacroLeavesNothing
PROPERTY KeepsAnswers
CHECK_DEADLOCK FALSE
