\* BX/BLX rm right after POP {rl} over every rl and rm in r0-r7, and
\* POP.W {rl, pc} over lists of r0-r8 and r12.
CONSTANTS
  Pop16Lists <- MCNone
  LdmLists <- MCLdmLists
  BxPops <- MCLowPops
  BxRms <- MCLowRms
  LdrForms <- MCLdrForms
SPECIFICATION Spec
INVARIANT IndirectExitCorrect
