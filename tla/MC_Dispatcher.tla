--------------------------- MODULE MC_Dispatcher ---------------------------
(***************************************************************************)
(* A guest with one block of every exit kind, all reachable from A:       *)
(*   A: B<c>  -> B / C        B: TBB, index 0 -> A, 1 -> C, 2 -> D       *)
(*   C: CBZ   -> D / A        D: BX rm -> A or E                          *)
(*   E: B     -> F            F: BX pc -> G (through a stub)             *)
(*   G: BLX   -> A                                                        *)
(* MAX_TB_INDEX = 2 makes index 2 take the inline hash lookup and         *)
(* TB_CACHE_SIZE = 1 fills the branch slots after one link.  A and G do   *)
(* not fit in one slot: A's continuation is the next slot, G is scanned   *)
(* over its stub and continues in a slot further on.  Ten slots hold      *)
(* every fragment (B, A and G take two), so allocate_bb never flushes.    *)
(***************************************************************************)
EXTENDS Dispatcher

CONSTANTS A, B, C, D, E, F, G

MCAddr == {A, B, C, D, E, F, G}

NoTable == [i \in {} |-> NONE]
Blk(x, t, s) ==
  [exit |-> x, taken |-> t, skipped |-> s, tb |-> NoTable, targets |-> {}, svc |-> FALSE,
   long |-> FALSE]

MCProg ==
  (A :> [Blk("cond", B, C) EXCEPT !.long = TRUE]) @@
  (B :> [Blk("tb", NONE, NONE) EXCEPT !.tb = (0 :> A) @@ (1 :> C) @@ (2 :> D)]) @@
  (C :> Blk("cbz", D, A)) @@
  (D :> [Blk("reg", NONE, NONE) EXCEPT !.targets = {A, E}]) @@
  (E :> Blk("uncond", F, NONE)) @@
  (F :> Blk("stubbed", G, NONE)) @@
  (G :> [Blk("blxi", A, NONE) EXCEPT !.long = TRUE])
=============================================================================
