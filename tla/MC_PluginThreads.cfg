CONSTANTS
  T1 = T1
  T2 = T2
  Junk = Junk
  CloneCalls <- MCCloneCalls
  TlsVals = {T1, T2}
  ChildTid = 7
  PthreadMayFail = FALSE
  BufLen = 2
  MaxCount = 1
SPECIFICATION SpecP
CHECK_DEADLOCK FALSE
INVARIANT TypeOK
INVARIANT ChildStartsAsClone
INVARIANT ParentResumes
 
PROPERTY ParentReturns
