SPECIFICATION Spec
INVARIANTS
  TypeOK
  CastsSafe
  FreedAsAllocated
  MembersAnswer
  NoAssertion
CHECK_DEADLOCK FALSE
