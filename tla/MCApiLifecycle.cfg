SPECIFICATION Spec
CONSTANTS
  None = None
  NULL = NULL
  Garbage = Garbage
  MaxCalls = 3
INVARIANTS
  TypeOK
  UsableOrEmpty
  NoDanglingField
  OthersAccountedFor
  UsableMeansConnected
