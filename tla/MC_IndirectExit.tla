-------------------------- MODULE MC_IndirectExit --------------------------
(***************************************************************************)
(* Instances of IndirectExit for TLC.                                     *)
(***************************************************************************)
EXTENDS IndirectExit

\* Every POP {rl, pc} and every BX/BLX rm with no POP before it.
MCPop16Lists == SUBSET (0..7)
MCNoPop == {{}}
MCAllRms == Regs
MCNone == {}

\* LDR pc, [rn, #+/-4]{!} in every addressing mode T4 defines (P = W = 0
\* is undefined), over every base register; and the forms whose base
\* register the translation leaves alone: no writeback to the registers it
\* saves, and from sp only LDR pc, [sp], #4.
MCLdrForms == {f \in [rn : Regs \cup {sp}, pre : BOOLEAN, up : BOOLEAN, wb : BOOLEAN] :
                 f.pre \/ f.wb}
MCLdrKeepsBase == {f \in MCLdrForms : /\ f.wb => f.rn \notin {4, 5, 6}
                                      /\ f.rn = sp => ~f.pre /\ f.up /\ f.wb}

\* POP.W {rl, pc} over the low registers and two high ones, and every
\* POP {rl}; BX/BLX rm pair over r0-r7.
MCLdmLists == SUBSET ((0..7) \cup {8, 12})
MCLowPops == SUBSET (0..7)
MCLowRms == 0..7
====
