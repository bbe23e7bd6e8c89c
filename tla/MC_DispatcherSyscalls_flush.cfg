CONSTANTS
  A = A
  B = B
  C = C
  D = D
  E = E
  F = F
  G = G
  NONE = NONE
  Addr <- FlushAddr
  Prog <- FlushProg
  Entry = A
  NumSlots = 3
  TbCacheSize = 1
  MaxTbIndex = 2
  VforkBlocks = {D}
  SigactionBlocks = {A}
  Handler = E
  ExitBlocks = {C}
SPECIFICATION SpecS
INVARIANT CacheAddressesLive
CHECK_DEADLOCK FALSE
