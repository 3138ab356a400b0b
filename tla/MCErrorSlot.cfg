SPECIFICATION Spec
CONSTANTS
  t1 = t1
  t2 = t2
  keyInline = keyInline
  keyLate = keyLate
  None = None
  NULL = NULL
  o1 = o1
  e1 = e1
  e2 = e2
  e3 = e3
  e4 = e4
  Threads <- MCThreads
  Codes <- MCCodes
  Errs <- MCErrs
  Others <- MCOthers
  Keys <- MCKeys
  ZeroKey = keyInline
  Holdings <- MCHoldings
  InlineKeys <- MCInlineKeys
  FirstCallers <- OneFirstCaller
  KeyCreateMayFail = TRUE
SYMMETRY SameErrs
INVARIANTS
  TypeOK
  SlotsPrivate
  NoErrorLeak
  HeldPointerValid
  FailureRecordedInline
PROPERTIES
  LastErrorPromised
