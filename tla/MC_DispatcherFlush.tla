------------------------ MODULE MC_DispatcherFlush ------------------------
(***************************************************************************)
(* A guest that makes the code cache flush both ways the code does it,   *)
(* with no stubs:                                                         *)
(*   A: B<c> -> B / D      B: munmap (SVC), B<c> -> C / A             *)
(*   C: CBZ -> A / D       D: B -> E        E: BX rm -> A or C            *)
(* Three slots hold three of the five fragments, so allocate_bb runs out  *)
(* and flushes inside dispatcher(); B's system call flushes while B's     *)
(* fragment is running.  MCProgTb adds a block F that does not fit in   *)
(* one slot and ends in TBB; it is used to reproduce the TB finding.      *)
(***************************************************************************)
EXTENDS Dispatcher

CONSTANTS A, B, C, D, E, F

MCAddr == {A, B, C, D, E}

NoTable == [i \in {} |-> NONE]
Blk(x, t, s, sys) ==
  [exit |-> x, taken |-> t, skipped |-> s, tb |-> NoTable, targets |-> {}, svc |-> sys,
   long |-> FALSE]

MCProg ==
  (A :> Blk("cond", B, D, FALSE)) @@
  (B :> Blk("cond", C, A, TRUE)) @@
  (C :> Blk("cbz", A, D, FALSE)) @@
  (D :> Blk("uncond", E, NONE, FALSE)) @@
  (E :> [Blk("reg", NONE, NONE, FALSE) EXCEPT !.targets = {A, C}])

\* The same guest with a sixth block F: a long block ending in TBB,
\* reached from E's register branch.
MCAddrTb == MCAddr \cup {F}

MCProgTb ==
  [a \in MCAddrTb |->
     IF a = F THEN [Blk("tb", NONE, NONE, FALSE) EXCEPT !.long = TRUE, !.tb = (0 :> A) @@ (1 :> C)]
     ELSE IF a = E THEN [MCProg[E] EXCEPT !.targets = {A, C, F}]
     ELSE MCProg[a]]
=============================================================================
