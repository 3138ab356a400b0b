SPECIFICATION Spec
CONSTANTS
  Methods <- AllMethods
  MaxPieces = 3
  MaxInHeaders = 2
  None = None
  NULL = NULL
  Garbage = Garbage
  Crashed = Crashed
INVARIANTS
  TypeOK
  Released
  BuffersInitialised
  HeadersSent
PROPERTIES
  TransferContract
