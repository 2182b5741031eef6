SPECIFICATION Spec
CONSTANTS
  Inputs <- AllInputs
  Types <- ProgramTypes
  HookSets <- AllHooks
  Modulus <- IntModulus
INVARIANTS
  TypeOK
  SkipsOnlyUnrepresentable
  RoundTrip
CHECK_DEADLOCK FALSE
