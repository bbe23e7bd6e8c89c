\* POP {rl, pc} over all 256 lists, LDR pc in the forms that keep their
\* base register, BX/BLX rm with no POP before it over
\* every register.
CONSTANTS
  Pop16Lists <- MCPop16Lists
  LdmLists <- MCNone
  BxPops <- MCNoPop
  BxRms <- MCAllRms
  LdrForms <- MCLdrKeepsBase
SPECIFICATION Spec
INVARIANTS IndirectExitCorrect StackNotReleased
