------------------------------ MODULE CloneVm ------------------------------
(***************************************************************************)
(* Thread and process creation under MAMBO (src/syscalls.c, 32-bit ARM). *)
(* A guest thread (the parent) makes one clone or vfork system call.      *)
(*                                                                         *)
(* clone with CLONE_VM never reaches the kernel: syscall_handler_pre      *)
(* creates the child's thread data and a host thread (dbm_create_thread), *)
(* which runs dbm_start_thread_pth: it reads the parent's saved registers *)
(* through clone_args (the parent's syscall frame, args), writes the      *)
(* *_SETTID words and the child's stack frame, and publishes its tid      *)
(* after a dmb.  The parent spins until it sees that tid and returns.     *)
(* The child's accesses are not sequentially consistent: each access to   *)
(* clone_args with the store it feeds is performed at any time until the  *)
(* dmb, which waits for all of them.                                      *)
(*                                                                         *)
(* clone without CLONE_VM (and with CLONE_VFORK, which is made into that) *)
(* goes to the kernel with CLONE_SETTLS removed; the child process takes  *)
(* its TLS in syscall_handler_post.  vfork shares the parent's thread     *)
(* data with the child: the parent's scratch registers are saved in the   *)
(* pre handler and restored in the parent's post handler.                 *)
(***************************************************************************)
EXTENDS Integers, FiniteSets

CONSTANTS
  CloneCalls,     \* the flag sets the guest passes to clone
  TlsVals,        \* TLS values
  ChildTid,       \* the tid the child's gettid returns
  Junk,           \* a value read from a frame the parent has reused
  PthreadMayFail  \* whether pthread_create may fail (its result is not checked)

Flags == {"VM", "VFORK", "SETTLS", "PARENT_SETTID", "CHILD_SETTID", "CHILD_CLEARTID"}
Regs == "regs"          \* the parent's saved registers at the system call
NoRet == -1             \* r0 not yet written back
Mambo == "mambo_tls"    \* the host TLS MAMBO itself runs on

ASSUME CloneCalls \subseteq SUBSET Flags /\ PthreadMayFail \in BOOLEAN

VARIABLES
  ppc,    \* the parent: "guest", "spin", "kernel", "post", "vforked", "returned"
  td,     \* the parent's dbm_thread (shared with a vfork child)
  args,   \* the parent's syscall frame: saved registers, r0, the tls word, flags
  mem,    \* the parent's memory: the words ptid and ctid point to
  child,  \* the child: its kind, pc, pending accesses, tid, frame and tls
  call    \* ghost: the call made, and the parent's state when it was made

vars == <<ppc, td, args, mem, child, call>>

NoChild == [kind |-> "none", pc |-> "none", pending |-> {}, tid |-> 0, frame |-> Junk,
            tls |-> Junk, hwtls |-> Mambo, ctid |-> 0, stray |-> FALSE,
            ctd |-> [child_tls |-> Junk, clone_vm |-> FALSE]]

\* The accesses dbm_start_thread_pth makes through clone_args before the dmb
\* (lines 53-68), by the flags it tests.
ChildOps(f) ==
  {"stack", "tls"} \cup
  {o \in {"PARENT_SETTID", "CHILD_SETTID", "CHILD_CLEARTID"} : o \in f}

Init ==
  /\ ppc = "guest"
  /\ td \in [tls : TlsVals, child_tls : TlsVals, clone_vm : BOOLEAN,
             is_vfork_child : {FALSE}, scratch : {"scratch"}, parent_scratch : {Junk}]
  /\ args = [regs |-> Regs, r0 |-> NoRet, tls |-> Junk, flags |-> {}, live |-> TRUE]
  /\ mem = [ptid |-> 0, ctid |-> 0]
  /\ child = NoChild
  /\ call = [kind |-> "none", flags |-> {}, tls |-> Junk, ptls |-> Junk, scratch |-> Junk]

(***************************************************************************)
(* The parent.                                                            *)
(***************************************************************************)

\* __ARM_NR_set_tls: update the shadow TLS, return 0 without the syscall.
SetTls ==
  /\ ppc = "guest" /\ call.kind = "none"
  /\ \E v \in TlsVals : td' = [td EXCEPT !.tls = v]
  /\ UNCHANGED <<ppc, args, mem, child, call>>

\* A faulty variant of StageProcess: CLONE_SETTLS is passed on to the kernel.
StageProcessKeepSettls(fl, tlsArg, tls) ==
  [flags |-> fl, child_tls |-> IF "SETTLS" \in fl THEN tlsArg ELSE tls]

\* Without CLONE_VM: the child's TLS is staged in the thread data and
\* CLONE_SETTLS removed, so the kernel leaves the host TLS alone.
StageProcess(fl, tlsArg, tls) ==
  [flags |-> fl \ {"SETTLS"}, child_tls |-> IF "SETTLS" \in fl THEN tlsArg ELSE tls]

\* dbm_create_thread: fresh thread data with tid = 0 and a detached host
\* thread running dbm_start_thread_pth; pthread_create's result is not
\* checked, so when it fails there is no child and nothing reports it.
CreateThread(created) ==
  [NoChild EXCEPT !.kind = "thread", !.pc = IF created THEN "start" ELSE "none"]

\* syscall_handler_pre, case __NR_clone.  CLONE_VFORK: the child runs on the
\* frame and CLONE_VM is dropped.  CLONE_VM: the tls word of the frame is
\* filled in, the thread is created (dbm_create_thread, pthread_create) and
\* the parent spins.  Otherwise: child_tls is staged and CLONE_SETTLS
\* removed before the system call.
ClonePre(f, tlsArg, created) ==
  LET fl == IF "VFORK" \in f THEN f \ {"VM"} ELSE f
  IN  /\ call' = [kind |-> "clone", flags |-> f, tls |-> tlsArg, ptls |-> td.tls,
                  scratch |-> td.scratch]
      /\ IF "VM" \in fl
         THEN /\ args' = [args EXCEPT !.flags = fl,
                          !.tls = IF "SETTLS" \in fl THEN tlsArg ELSE td.tls]
              /\ td' = [td EXCEPT !.clone_vm = TRUE]
              /\ child' = CreateThread(created)
              /\ ppc' = "spin"
         ELSE LET st == StageProcess(fl, tlsArg, td.tls)
              IN  /\ args' = [args EXCEPT !.flags = st.flags, !.tls = tlsArg]
                  /\ td' = [td EXCEPT !.child_tls = st.child_tls, !.clone_vm = FALSE]
                  /\ ppc' = "kernel"
                  /\ UNCHANGED child

Clone ==
  /\ ppc = "guest" /\ call.kind = "none"
  /\ \E f \in CloneCalls, tlsArg \in TlsVals,
        created \in IF PthreadMayFail THEN BOOLEAN ELSE {TRUE} :
       ClonePre(f, tlsArg, created)
  /\ UNCHANGED mem

\* A faulty variant of ParentSpin: the tid is read once, not waited for.
ParentSpinNoWait ==
  /\ ppc = "spin"
  /\ args' = [args EXCEPT !.r0 = child.tid]
  /\ ppc' = "returned"
  /\ UNCHANGED <<td, mem, child, call>>

\* while(child_data->tid == 0); args[0] = child_data->tid; return 0.
ParentSpin ==
  /\ ppc = "spin"
  /\ child.tid # 0
  /\ args' = [args EXCEPT !.r0 = child.tid]
  /\ ppc' = "returned"
  /\ UNCHANGED <<td, mem, child, call>>

\* The kernel's clone without CLONE_VM: a child process with a copy of the
\* parent's memory and thread data; the *_SETTID stores and CLONE_SETTLS
\* are done by the kernel.
KernelClone ==
  /\ ppc = "kernel"
  /\ LET fl == args.flags
     IN  /\ mem' = [mem EXCEPT !.ptid = IF "PARENT_SETTID" \in fl THEN ChildTid ELSE @]
         /\ child' = [NoChild EXCEPT !.kind = "process", !.pc = "post", !.tid = ChildTid,
                        !.frame = args.regs,
                        !.hwtls = IF "SETTLS" \in fl THEN args.tls ELSE Mambo,
                        !.ctid = IF "CHILD_SETTID" \in fl THEN ChildTid ELSE mem.ctid,
                        !.ctd = [child_tls |-> td.child_tls, clone_vm |-> td.clone_vm]]
  /\ args' = [args EXCEPT !.r0 = ChildTid]
  /\ ppc' = "post"
  /\ UNCHANGED <<td, call>>

\* syscall_handler_post in the parent (args[0] != 0): nothing to do.  With
\* CLONE_VFORK the kernel holds the parent until the child execs or exits.
ParentPost ==
  /\ ppc = "post"
  /\ "VFORK" \in call.flags => child.pc = "gone"
  /\ ppc' = "returned"
  /\ UNCHANGED <<td, args, mem, child, call>>

\* __NR_vfork, pre: assert(!is_vfork_child), mark it, save the scratch
\* registers.  The kernel runs the child on the same memory and thread
\* data, the parent waits until the child execs or exits.
VforkPre ==
  /\ ppc = "guest" /\ call.kind = "none"
  /\ ~td.is_vfork_child
  /\ td' = [td EXCEPT !.is_vfork_child = TRUE, !.parent_scratch = td.scratch]
  /\ call' = [kind |-> "vfork", flags |-> {}, tls |-> Junk, ptls |-> td.tls,
              scratch |-> td.scratch]
  /\ child' = [NoChild EXCEPT !.kind = "vfork", !.pc = "post", !.tid = ChildTid,
                              !.frame = args.regs, !.hwtls = Mambo]
  /\ ppc' = "vforked"
  /\ UNCHANGED <<args, mem>>

\* __NR_vfork, post in the parent (args[0] != 0), once the child is gone:
\* restore the scratch registers, clear is_vfork_child.
VforkPost ==
  /\ ppc = "vforked" /\ child.pc = "gone"
  /\ td' = [td EXCEPT !.scratch = td.parent_scratch, !.is_vfork_child = FALSE]
  /\ args' = [args EXCEPT !.r0 = ChildTid]
  /\ ppc' = "returned"
  /\ UNCHANGED <<mem, child, call>>

\* Back in the guest the parent reuses the memory of its syscall frame.
ReuseFrame ==
  /\ ppc = "returned" /\ args.live
  /\ args' = [args EXCEPT !.live = FALSE]
  /\ UNCHANGED <<ppc, td, mem, child, call>>

(***************************************************************************)
(* The child.                                                             *)
(***************************************************************************)

\* dbm_start_thread_pth up to the dmb: scan the entry, gettid, and issue
\* the accesses through clone_args the flags call for.  The flags are read
\* first: every later store depends on them.
ChildStart ==
  /\ child.pc = "start"
  /\ child' = [child EXCEPT !.pc = "ops", !.pending = ChildOps(args.flags)]
  /\ UNCHANGED <<ppc, td, args, mem, call>>

\* One access through clone_args and the store it feeds takes effect.  If
\* the parent has reused its frame by then, the value or pointer read is
\* junk: the child gets a junk stack frame or TLS, or a *_SETTID store (or
\* the clear-tid address given to the kernel) goes astray.
ChildPerform(o) ==
  /\ o \in child.pending
  /\ LET ok == args.live
     IN  /\ mem' = [mem EXCEPT !.ptid = IF o = "PARENT_SETTID" /\ ok THEN ChildTid ELSE @,
                               !.ctid = IF o = "CHILD_SETTID" /\ ok THEN ChildTid ELSE @]
         /\ child' = [child EXCEPT !.pending = @ \ {o},
                        !.frame = IF o = "stack" THEN (IF ok THEN args.regs ELSE Junk) ELSE @,
                        !.tls = IF o = "tls" THEN (IF ok THEN args.tls ELSE Junk) ELSE @,
                        !.stray = @ \/ (~ok /\ o \in {"PARENT_SETTID", "CHILD_SETTID",
                                                       "CHILD_CLEARTID"})]
  /\ UNCHANGED <<ppc, td, args, call>>

\* A faulty variant of ChildPublish: no barrier before the tid is stored.
ChildPublishNoFence ==
  /\ child.pc = "ops"
  /\ child' = [child EXCEPT !.tid = ChildTid, !.pc = "guest"]
  /\ UNCHANGED <<ppc, td, args, mem, call>>

\* A faulty variant of ChildPublish: th_enter before the tid is stored, so
\* the store is never reached.
ChildPublishAfterEnter ==
  /\ child.pc = "ops" /\ child.pending = {}
  /\ child' = [child EXCEPT !.pc = "guest"]
  /\ UNCHANGED <<ppc, td, args, mem, call>>

\* dmb sy (it waits for every access before it); thread_data->tid = tid;
\* th_enter(child_stack, addr).
ChildPublish ==
  /\ child.pc = "ops" /\ child.pending = {}
  /\ child' = [child EXCEPT !.tid = ChildTid, !.pc = "guest"]
  /\ UNCHANGED <<ppc, td, args, mem, call>>

\* syscall_handler_post in a child process (args[0] == 0): assert that the
\* copy of the thread data says !clone_vm, and take the staged TLS.
ChildPost ==
  /\ child.pc = "post" /\ child.kind = "process"
  /\ child' = [child EXCEPT !.pc = IF child.ctd.clone_vm THEN "abort" ELSE "guest",
                             !.tls = child.ctd.child_tls]
  /\ UNCHANGED <<ppc, td, args, mem, call>>

\* __NR_vfork, post in the child (args[0] == 0): nothing to do.
VforkChildPost ==
  /\ child.pc = "post" /\ child.kind = "vfork"
  /\ child' = [child EXCEPT !.pc = "guest"]
  /\ UNCHANGED <<ppc, td, args, mem, call>>

\* The vfork child runs guest code on the parent's thread data: its trips
\* through the dispatcher trampolines spill its registers to scratch_regs.
VforkChildRun ==
  /\ child.pc = "guest" /\ child.kind = "vfork"
  /\ td.scratch # Junk
  /\ td' = [td EXCEPT !.scratch = Junk]
  /\ UNCHANGED <<ppc, args, mem, child, call>>

\* A child process or vfork child execs or exits.
ChildExit ==
  /\ child.pc = "guest" /\ child.kind \in {"process", "vfork"}
  /\ child' = [child EXCEPT !.pc = "gone"]
  /\ UNCHANGED <<ppc, td, args, mem, call>>

Next ==
  \/ SetTls \/ Clone \/ ParentSpin \/ KernelClone \/ ParentPost
  \/ VforkPre \/ VforkPost \/ ReuseFrame
  \/ ChildStart \/ (\E o \in child.pending : ChildPerform(o)) \/ ChildPublish
  \/ ChildPost \/ VforkChildPost \/ VforkChildRun \/ ChildExit

\* The host thread pthread_create starts is scheduled, its stores become
\* visible, and the spinning parent keeps reading child_data->tid.
Spec ==
  /\ Init /\ [][Next]_vars
  /\ WF_vars(ChildStart) /\ WF_vars(ChildPublish) /\ WF_vars(ParentSpin)
  /\ \A o \in ChildOps(Flags) : WF_vars(ChildPerform(o))

(***************************************************************************)
(* Properties.                                                            *)
(***************************************************************************)

TypeOK ==
  /\ ppc \in {"guest", "spin", "kernel", "post", "vforked", "returned"}
  /\ td.tls \in TlsVals /\ td.scratch \in {"scratch", Junk}
  /\ args.r0 \in {NoRet, ChildTid}
  /\ child.pc \in {"none", "start", "ops", "post", "guest", "gone", "abort"}
  /\ child.pending \subseteq ChildOps(Flags)
  /\ child.tls \in TlsVals \cup {Junk}

\* The TLS a new thread or process should start with: clone's tls argument
\* with CLONE_SETTLS, else the parent's.
ExpectedTls == IF "SETTLS" \in call.flags THEN call.tls ELSE call.ptls

\* The child starts running guest code (th_enter, or the return from the
\* kernel) in the state clone promises: the parent's registers on its
\* stack, the expected TLS in the thread data and MAMBO's own host TLS
\* untouched, its tid at ctid with CLONE_CHILD_SETTID, no store through a
\* pointer read from a reused frame, and no failed assert.  This is about
\* dbm_start_thread_pth's accesses racing the parent's return, and about
\* the CLONE_SETTLS handling of syscall_handler_pre/post.
ChildStartsAsClone ==
  child.kind \in {"thread", "process"} /\ child.pc \in {"guest", "gone", "abort"}
    /\ child.pending = {}
    => /\ child.pc # "abort"
       /\ child.frame = Regs
       /\ child.tls = ExpectedTls /\ child.hwtls = Mambo
       /\ "CHILD_SETTID" \in call.flags =>
             (IF child.kind = "thread" THEN mem.ctid ELSE child.ctid) = ChildTid
       /\ ~child.stray

\* When clone or vfork returns to the parent: r0 holds the child's tid, its
\* tid is at ptid with CLONE_PARENT_SETTID (the kernel's guarantee, which
\* the CLONE_VM path must give through the child's stores and the dmb),
\* and after vfork the scratch registers the child clobbered are restored
\* and is_vfork_child is clear.
ParentResumes ==
  ppc = "returned" =>
    /\ args.r0 = ChildTid
    /\ "PARENT_SETTID" \in call.flags => mem.ptid = ChildTid
    /\ call.kind = "vfork" => td.scratch = call.scratch /\ ~td.is_vfork_child

\* A parent spinning in the CLONE_VM path eventually returns from clone.
ParentReturns == ppc = "spin" ~> ppc = "returned"
====
