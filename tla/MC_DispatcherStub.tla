------------------------ MODULE MC_DispatcherStub ------------------------
(***************************************************************************)
(* A guest that makes the code cache flush, both ways the code does it:  *)
(*   A: B<c> -> B / C                                                     *)
(*   B: munmap (SVC) then B -> A, too long for one slot                   *)
(*   C: BX pc -> D (through a stub)                                       *)
(*   D: CBZ -> A / C                                                      *)
(* Two slots hold at most two of the four fragments and the stub, so    *)
(* allocate_bb runs out and flushes in the middle of dispatcher() and of  *)
(* a scan (B's continuation slot, C's stub); B's system call flushes     *)
(* while its fragment is running.                                         *)
(***************************************************************************)
EXTENDS Dispatcher

CONSTANTS A, B, C, D

MCAddr == {A, B, C, D}

NoTable == [i \in {} |-> NONE]
Blk(x, t, s, sys) ==
  [exit |-> x, taken |-> t, skipped |-> s, tb |-> NoTable, targets |-> {}, svc |-> sys,
   long |-> FALSE]

MCProg ==
  (A :> Blk("cond", B, C, FALSE)) @@
  (B :> [Blk("uncond", A, NONE, TRUE) EXCEPT !.long = TRUE]) @@
  (C :> Blk("stubbed", D, NONE, FALSE)) @@
  (D :> Blk("cbz", A, C, FALSE))
=============================================================================
