SPECIFICATION Spec
CONSTANTS
  Threads = {t1}
  Cells = {c1, c2, c3, c4}
  None = None
  MaxHeld = 2
  FunctionTypes = FALSE
  SizedMacros = FALSE
SYMMETRY Symmetry
INVARIANTS
  TypeOK
  CountsExact
CHECK_DEADLOCK FALSE
