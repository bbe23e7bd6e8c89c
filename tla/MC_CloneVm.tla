----------------------------- MODULE MC_CloneVm -----------------------------
(***************************************************************************)
(* The clone calls a guest makes through glibc, and one of each other kind:*)
(*   pthread_create: CLONE_VM | SETTLS | PARENT_SETTID | CHILD_CLEARTID    *)
(*   a thread keeping the parent's TLS: CLONE_VM | CHILD_SETTID            *)
(*   fork: CHILD_SETTID | CHILD_CLEARTID                                   *)
(*   posix_spawn: CLONE_VM | CLONE_VFORK                                   *)
(*   a process with its own TLS: SETTLS | PARENT_SETTID                    *)
(* and vfork.  Two TLS values tell the parent's TLS from clone's argument. *)
(***************************************************************************)
EXTENDS CloneVm

CONSTANTS T1, T2

MCCloneCalls ==
  { {"VM", "SETTLS", "PARENT_SETTID", "CHILD_CLEARTID"},
    {"VM", "CHILD_SETTID"},
    {"CHILD_SETTID", "CHILD_CLEARTID"},
    {"VM", "VFORK"},
    {"SETTLS", "PARENT_SETTID"} }
=============================================================================
