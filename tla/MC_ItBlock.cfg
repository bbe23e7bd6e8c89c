CONSTANTS
  Guests <- MCGuests
  MaxInserts = 2
  MaxSplits = 1
  MaxReplaces = 1
  EmptyReplace = FALSE
SPECIFICATION Spec
INVARIANT TypeOK
INVARIANT ItCorrect
INVARIANT PreCallbackCond
CHECK_DEADLOCK FALSE
