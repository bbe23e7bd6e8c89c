CONSTANTS
  A = A
  B = B
  C = C
  D = D
  E = E
  F = F
  G = G
  NONE = NONE
  Addr <- MCAddr
  Prog <- MCProg
  Entry = A
  NumSlots = 10
  TbCacheSize = 1
  MaxTbIndex = 2
SPECIFICATION Spec
INVARIANT TypeOK
INVARIANT ExecCorrect
INVARIANT NoRelinkDispatch
PROPERTY DispatcherQuiesces
PROPERTY GuestRefinement
