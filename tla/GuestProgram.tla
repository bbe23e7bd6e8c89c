---------------------------- MODULE GuestProgram ----------------------------
(***************************************************************************)
(* What MAMBO promises about control flow: running the translated code is *)
(* running the guest.  gpc is the guest block being executed; each step   *)
(* leaves it by one of its arms.  The translation is transparent, so any  *)
(* number of steps of the runtime (scanning, dispatching, linking) may    *)
(* happen between two guest steps: they are stuttering steps here.        *)
(***************************************************************************)
EXTENDS Guest

VARIABLE gpc

Init == gpc = Entry

Next == \E arm \in Arms(gpc) : gpc' = ArmTarget(gpc, arm)

Spec == Init /\ [][Next]_gpc

\* The guest keeps running: every block it enters it eventually leaves.  A
\* branch from a block to itself is a stuttering step here, so this is the
\* promise for guests whose blocks do not branch to themselves.
FairSpec == Spec /\ WF_gpc(Next)
=============================================================================
