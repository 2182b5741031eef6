SPECIFICATION FairSpec
CONSTANT MaxInits = 3
INVARIANTS
  TypeOK
  ReadyForCalls
  NotHeldWithoutLibrary
PROPERTIES
  NoOrphanController
  StopEnds
  InitReturns
  ControllerFollows
  DestroyReturns
CHECK_DEADLOCK FALSE
