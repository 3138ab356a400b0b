SPECIFICATION Spec
CONSTANTS
  None = None
  NULL = NULL
  Unknown = Unknown
  Crashed = Crashed
  Bogus = Bogus
  Ids = {i1, i2}
  MaxPolls = 3
INVARIANTS
  TypeOK
  SuccessMeansDone
  WaitOutcome
PROPERTIES
  NoSnapshotOverwritten
  WaitEnds
