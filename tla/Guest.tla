------------------------------- MODULE Guest -------------------------------
(***************************************************************************)
(* The guest program that MAMBO translates, abstracted to its basic-block  *)
(* control-flow graph.  A guest block is named by its start address and    *)
(* described only by the instruction that ends it, since that is all the   *)
(* Thumb scanner and the dispatcher look at when they link fragments:      *)
(*                                                                         *)
(*   "uncond"  B / B.W / BL to an immediate target  (uncond_imm_thumb)     *)
(*   "blxi"    BLX to an immediate target            (uncond_blxi_thumb)   *)
(*   "cond"    B<c> to an immediate target           (cond_imm_thumb)      *)
(*   "cbz"     CBZ / CBNZ                            (cbz_thumb)           *)
(*   "tb"      TBB / TBH [pc, rm]                    (tbb / tbh)           *)
(*   "reg"     BX / BLX / POP pc / LDR pc: a target held in a register,    *)
(*             resolved by the inline hash lookup    (uncond_reg_thumb)    *)
(*   "stubbed" BX pc, or an instruction the scanner does not know: the     *)
(*             fragment branches straight to a stub made by lookup_or_stub *)
(*                                                                         *)
(* "svc" marks a block whose body makes a munmap/cacheflush system call.   *)
(* "long" marks a block whose translation does not fit in one slot: the   *)
(* scanner's free-space check allocates a continuation slot mid-scan.     *)
(* Addresses are model values: the arithmetic that computes a target from *)
(* an offset is guest data, and the translated code reproduces it exactly. *)
(***************************************************************************)
EXTENDS Naturals

CONSTANTS
  Addr,    \* start addresses of the guest's basic blocks
  Prog,    \* Prog[a]: the exit of the block at a, a record (see above)
  Entry,   \* the address the thread starts at
  NONE     \* "no address / no fragment": UINT_MAX in the code

\* The two arms of a conditional exit, valued as their bit in
\* code_cache_meta.branch_cache_status (2 = taken, 1 = skipped).
TAKEN == 2
SKIPPED == 1

ExitKinds == {"uncond", "blxi", "cond", "cbz", "tb", "reg", "stubbed"}

\* The ways the guest can leave block a: which arm is taken is decided by
\* guest data (flags, a register, a table index) and is left open.
Arms(a) ==
  IF a \notin Addr THEN {}
  ELSE CASE Prog[a].exit \in {"uncond", "blxi", "stubbed"} -> {TAKEN}
         [] Prog[a].exit \in {"cond", "cbz"}             -> {TAKEN, SKIPPED}
         [] Prog[a].exit = "tb"                          -> DOMAIN Prog[a].tb
         [] Prog[a].exit = "reg"                         -> Prog[a].targets

\* Where the guest goes when block a leaves by arm.
ArmTarget(a, arm) ==
  CASE Prog[a].exit = "tb"  -> Prog[a].tb[arm]
    [] Prog[a].exit = "reg" -> arm
    [] arm = TAKEN          -> Prog[a].taken
    [] arm = SKIPPED        -> Prog[a].skipped

\* The successors of a guest block.
Succ(a) == {ArmTarget(a, arm) : arm \in Arms(a)}

ASSUME Entry \in Addr /\ NONE \notin Addr
ASSUME \A a \in Addr : Prog[a].exit \in ExitKinds /\ Succ(a) \subseteq Addr
ASSUME \A a \in Addr : Prog[a].svc \in BOOLEAN /\ Prog[a].long \in BOOLEAN
=============================================================================
