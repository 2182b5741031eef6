SPECIFICATION Spec
CONSTANTS
  Threads = {t1, t2}
  Cells = {c1, c2, c3}
  None = None
  MaxHeld = 1
  FunctionTypes = TRUE
  SizedMacros = TRUE
SYMMETRY Symmetry
INVARIANTS
  CountsCover
  OnlyFrameTypesDangle
CHECK_DEADLOCK FALSE
