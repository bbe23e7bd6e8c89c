CONSTANTS
  A = A
  B = B
  C = C
  D = D
  NONE = NONE
  Addr <- MCAddr
  Prog <- MCProg
  Entry = A
  NumSlots = 2
  TbCacheSize = 1
  MaxTbIndex = 2
SPECIFICATION Spec
INVARIANT HashSound
