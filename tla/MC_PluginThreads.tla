--------------------------- MODULE MC_PluginThreads ---------------------------
(***************************************************************************)
(* The clone calls of MC_CloneVm, with mtrace and branch_count loaded.   *)
(* A two-entry trace buffer is flushed on the second write, and a counter *)
(* bound of 1 lets each counter of each thread's data be written once.    *)
(***************************************************************************)
EXTENDS PluginThreads, MC_CloneVm
=============================================================================
