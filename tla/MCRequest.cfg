SPECIFICATION Spec
CONSTANTS
  None = None
  NULL = NULL
  Unknown = Unknown
  Crashed = Crashed
  MaxListing = 3
  MaxMessage = 4
INVARIANTS
  TypeOK
  TemporariesFreed
PROPERTIES
  CallPromised
