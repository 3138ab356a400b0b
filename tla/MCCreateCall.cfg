SPECIFICATION Spec
CONSTANTS
  None = None
  NULL = NULL
  MaxParams = 2
INVARIANTS
  TypeOK
  InBounds
  PostedParametersFilled
  CopiesFreed
  IdNamesCreated
  FailureReported
