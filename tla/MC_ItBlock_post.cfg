CONSTANTS
  Guests <- MCGuests
  MaxInserts = 0
  MaxSplits = 0
  MaxReplaces = 0
  EmptyReplace = FALSE
SPECIFICATION Spec
INVARIANT PostCallbackCond
CHECK_DEADLOCK FALSE
