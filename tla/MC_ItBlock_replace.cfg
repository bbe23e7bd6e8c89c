CONSTANTS
  Guests <- MCGuestsTwo
  MaxInserts = 2
  MaxSplits = 1
  MaxReplaces = 1
  EmptyReplace = TRUE
SPECIFICATION Spec
INVARIANT ItCorrect
CHECK_DEADLOCK FALSE
