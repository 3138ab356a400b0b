SPECIFICATION Spec
CONSTANTS
  None = None
  NULL = NULL
  MaxEntries = 2
INVARIANTS
  TypeOK
  PostedWhole
  PlainMetadataRead
  TemporariesFreed
  FailureReported
