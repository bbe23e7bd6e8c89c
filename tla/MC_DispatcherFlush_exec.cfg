CONSTANTS
  A = A
  B = B
  C = C
  D = D
  E = E
  F = F
  NONE = NONE
  Addr <- MCAddr
  Prog <- MCProg
  Entry = A
  NumSlots = 3
  TbCacheSize = 1
  MaxTbIndex = 2
SPECIFICATION Spec
INVARIANT ExecCorrect
