CONSTANTS
  T1 = T1
  T2 = T2
  Junk = Junk
  CloneCalls <- MCCloneCalls
  TlsVals = {T1, T2}
  ChildTid = 7
  PthreadMayFail = TRUE
SPECIFICATION Spec
CHECK_DEADLOCK FALSE
PROPERTY ParentReturns
