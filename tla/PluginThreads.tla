---------------------------- MODULE PluginThreads ----------------------------
(***************************************************************************)
(* The per-thread data of the two plugins in src/plugins (mtrace and     *)
(* branch_count) across the thread and process creation of CloneVm.      *)
(*                                                                         *)
(* Each plugin allocates its data in its PRE_THREAD callback and stores   *)
(* the pointer with mambo_set_thread_plugin_data in the thread's          *)
(* dbm_thread; its PRE_INST callback reads that pointer while the block   *)
(* is scanned and emits code that writes through it (mtrace: the address *)
(* of each load/store into a trace buffer; branch_count: a 64-bit counter *)
(* per branch kind); its POST_THREAD callback, delivered by               *)
(* syscall_handler_pre on __NR_exit, prints the data and frees it.        *)
(*                                                                         *)
(* The buffers are named by the thread data that allocated them:          *)
(*   "parent"  the guest thread making the call (allocated at start-up)   *)
(*   "thread"  a CLONE_VM child's fresh thread data (init_thread)         *)
(*   "copy"    a child process's copy of the parent's, in its own memory  *)
(* A vfork child runs the parent's fragments on the parent's thread data, *)
(* and its __NR_exit runs POST_THREAD on that shared data.  The unmapping *)
(* of the thread data and code cache that follows is DispatcherSyscalls'. *)
(***************************************************************************)
EXTENDS CloneVm

CONSTANTS
  BufLen,    \* BUFLEN: entries of an mtrace buffer
  MaxCount   \* bound on each branch_count counter

ASSUME BufLen \in Nat \ {0} /\ MaxCount \in Nat \ {0}

Bufs == {"parent", "thread", "copy"}
NoData == "null"                      \* mambo_get_thread_plugin_data before PRE_THREAD
Counters == {"return", "direct", "indirect"}
BranchTypes == {"BRANCH_RETURN", "BRANCH_DIRECT", "BRANCH_INDIRECT"}

VARIABLES
  heap,    \* heap[b]: the plugins' data allocated as b, and whether it is live
  cdata,   \* the plugin data pointer in the child's dbm_thread
  ccode,   \* the pointer the PRE_INST callbacks baked into the child's fragments
  pexit,   \* the parent thread has made __NR_exit
  punalloc, \* ghost: emitted code or a callback used data no PRE_THREAD allocated
  pfreed    \* ghost: emitted code or a callback used data a POST_THREAD freed

pvars == <<heap, cdata, ccode, pexit, punalloc, pfreed>>
allVars == <<vars, pvars>>

Unallocated == [mtrace |-> "none", len |-> 0, bc |-> "none", count |-> [c \in Counters |-> 0]]
Live(h, b) == h[b].mtrace = "live" /\ h[b].bc = "live"

\* The ghost flags after a use of the data pointer b by the plugin field f.
Use(b, f) ==
  /\ punalloc' = (punalloc \/ b \notin Bufs \/ heap[b][f] = "none")
  /\ pfreed' = (pfreed \/ (b \in Bufs /\ heap[b][f] = "freed"))

(***************************************************************************)
(* The plugins' callbacks.                                                *)
(***************************************************************************)

\* mtrace_pre_thread_handler: mambo_alloc, len = 0, set as plugin data.
MtracePreThread(d) == [d EXCEPT !.mtrace = "live", !.len = 0]

\* branch_count_pre_thread_handler: mambo_alloc, set as plugin data, zero
\* the three counters.
BranchCountPreThread(d) == [d EXCEPT !.bc = "live", !.count = [c \in Counters |-> 0]]

\* PRE_THREAD, delivered by init_thread to every plugin in registration order.
PreThread(h, b) == [h EXCEPT ![b] = BranchCountPreThread(MtracePreThread(@))]

\* mtrace_print_buf: print len entries, then len = 0.
MtracePrintBuf(d) == [d EXCEPT !.len = 0]

\* The code mtrace_pre_inst_handler emits for a load or store: push, the
\* address into r0, the buffer into r1, call mtrace_buf_write, pop.  The
\* buffer is flushed with mtrace_print_buf when it is full.
MtraceBufWrite(d) ==
  IF d.len + 1 = BufLen THEN MtracePrintBuf(d) ELSE [d EXCEPT !.len = @ + 1]

\* branch_count_pre_inst_handler: the counter a branch of this type
\* increments, a return before a direct before an indirect branch.
BranchCounter(type) ==
  IF "BRANCH_RETURN" \in type THEN "return"
  ELSE IF "BRANCH_DIRECT" \in type THEN "direct"
  ELSE IF "BRANCH_INDIRECT" \in type THEN "indirect"
  ELSE NoData

\* mtrace_post_thread_handler and branch_count_post_thread_handler: print
\* the data and mambo_free it.
MtracePostThread(d) == [MtracePrintBuf(d) EXCEPT !.mtrace = "freed"]
BranchCountPostThread(d) == [d EXCEPT !.bc = "freed"]
PostThread(h, b) == [h EXCEPT ![b] = BranchCountPostThread(MtracePostThread(@))]

(***************************************************************************)
(* CloneVm's steps, with what they do to the plugin data.                 *)
(***************************************************************************)

InitThread(h) == PreThread(h, "thread")

CloneP ==
  /\ Clone
  /\ IF child'.kind = "thread"
     THEN LET h == InitThread(heap)
          IN  /\ heap' = h
              /\ cdata' = IF h["thread"].mtrace = "live" THEN "thread" ELSE NoData
     ELSE UNCHANGED <<heap, cdata>>
  /\ UNCHANGED <<ccode, pexit, punalloc, pfreed>>

\* The kernel's fork copies the memory: the child process has the parent's
\* plugin data, at the same addresses, in its own copy.
KernelCloneP ==
  /\ KernelClone
  /\ heap' = [heap EXCEPT !["copy"] = heap["parent"]]
  /\ cdata' = "copy" /\ ccode' = "copy"
  /\ UNCHANGED <<pexit, punalloc, pfreed>>

\* vfork: the child runs the parent's fragments on the parent's data.
VforkPreP ==
  /\ VforkPre
  /\ cdata' = "parent" /\ ccode' = "parent"
  /\ UNCHANGED <<heap, pexit, punalloc, pfreed>>

\* dbm_start_thread_pth scans the child's first block: the PRE_INST
\* callbacks read the child's plugin data and bake the pointer in.
ChildStartP ==
  /\ ChildStart
  /\ ccode' = cdata
  /\ UNCHANGED <<heap, cdata, pexit, punalloc, pfreed>>

ChildPerformP(o) == ChildPerform(o) /\ UNCHANGED pvars
ChildPublishP == ChildPublish /\ UNCHANGED pvars
ParentSpinP == ParentSpin /\ UNCHANGED pvars

\* A child process or vfork child leaves by execve: no callback runs.
ChildExecP == ChildExit /\ UNCHANGED pvars

OtherStep ==
  /\ \/ SetTls \/ ParentPost \/ VforkPost \/ ReuseFrame
     \/ ChildPost \/ VforkChildPost \/ VforkChildRun
  /\ UNCHANGED pvars

(***************************************************************************)
(* Guest code running the instrumented fragments, and __NR_exit.          *)
(***************************************************************************)

\* One instrumented instruction of the thread whose fragments carry the
\* pointer b: a load/store writes the mtrace buffer, a branch increments
\* its branch_count counter (none for a type without one).
RunInst(b) ==
  \/ /\ heap' = IF b \in Bufs THEN [heap EXCEPT ![b] = MtraceBufWrite(@)] ELSE heap
     /\ Use(b, "mtrace")
  \/ \E type \in SUBSET BranchTypes :
       LET c == BranchCounter(type)
       IN  /\ c # NoData
           /\ b \in Bufs => heap[b].count[c] < MaxCount
           /\ heap' = IF b \in Bufs THEN [heap EXCEPT ![b].count[c] = @ + 1] ELSE heap
           /\ Use(b, "bc")

ParentRunInst ==
  /\ ppc \in {"guest", "returned"} /\ ~pexit
  /\ RunInst("parent")
  /\ UNCHANGED <<vars, cdata, ccode, pexit>>

ChildRunInst ==
  /\ child.pc = "guest"
  /\ RunInst(ccode)
  /\ UNCHANGED <<vars, cdata, ccode, pexit>>

\* syscall_handler_pre, __NR_exit: POST_THREAD for the calling thread's
\* data, then the code cache and the dbm_thread are unmapped and the host
\* thread ends.
ExitThread(b) ==
  /\ heap' = IF b \in Bufs THEN PostThread(heap, b) ELSE heap
  /\ Use(b, "mtrace")

ParentExit ==
  /\ ppc = "returned" /\ ~pexit
  /\ ExitThread("parent")
  /\ pexit' = TRUE
  /\ UNCHANGED <<vars, cdata, ccode>>

ChildExitP ==
  /\ child.pc = "guest" /\ child.kind \in {"thread", "process", "vfork"}
  /\ ExitThread(cdata)
  /\ child' = [child EXCEPT !.pc = "gone"]
  /\ UNCHANGED <<ppc, td, args, mem, call, cdata, ccode, pexit>>

InitP ==
  /\ Init
  /\ heap = PreThread([b \in Bufs |-> Unallocated], "parent")
  /\ cdata = NoData /\ ccode = NoData
  /\ pexit = FALSE /\ punalloc = FALSE /\ pfreed = FALSE

NextP ==
  \/ CloneP \/ KernelCloneP \/ VforkPreP \/ ChildStartP
  \/ (\E o \in child.pending : ChildPerformP(o)) \/ ChildPublishP \/ ParentSpinP
  \/ ChildExecP \/ OtherStep
  \/ ParentRunInst \/ ChildRunInst \/ ParentExit \/ ChildExitP

\* CloneVm's fairness: the new host thread is scheduled, its stores become
\* visible, the spinning parent keeps reading tid.
SpecP ==
  /\ InitP /\ [][NextP]_allVars
  /\ WF_allVars(ChildStartP) /\ WF_allVars(ChildPublishP) /\ WF_allVars(ParentSpinP)
  /\ \A o \in ChildOps(Flags) : WF_allVars(ChildPerformP(o))

(***************************************************************************)
(* Properties.                                                            *)
(***************************************************************************)

PluginDataNotFreed == ~pfreed
====
