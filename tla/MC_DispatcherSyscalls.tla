----------------------- MODULE MC_DispatcherSyscalls -----------------------
(***************************************************************************)
(* The guest of MC_DispatcherFlush (FlushProg: a munmap and too few       *)
(* slots, so the code cache flushes both ways), for DispatcherSyscalls.    *)
(* The .cfg file chooses the blocks that call vfork, rt_sigaction and exit.*)
(***************************************************************************)
EXTENDS DispatcherSyscalls

CONSTANTS A, B, C, D, E, F, G

NoTable == [i \in {} |-> NONE]
Blk(x, t, s, sys) ==
  [exit |-> x, taken |-> t, skipped |-> s, tb |-> NoTable, targets |-> {}, svc |-> sys,
   long |-> FALSE]

FlushAddr == {A, B, C, D, E}

FlushProg ==
  (A :> Blk("cond", B, D, FALSE)) @@
  (B :> Blk("cond", C, A, TRUE)) @@
  (C :> Blk("cbz", A, D, FALSE)) @@
  (D :> Blk("uncond", E, NONE, FALSE)) @@
  (E :> [Blk("reg", NONE, NONE, FALSE) EXCEPT !.targets = {A, C}])
=============================================================================
