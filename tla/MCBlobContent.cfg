SPECIFICATION Spec
CONSTANTS
  None = None
  NULL = NULL
  MaxEntries = 2
INVARIANTS
  ContentFresh
