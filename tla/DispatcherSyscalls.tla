-------------------------- MODULE DispatcherSyscalls --------------------------
(***************************************************************************)
(* The thread of Dispatcher making the system calls whose handlers use   *)
(* its code cache: vfork and rt_sigaction (src/syscalls.c).  The SVC is   *)
(* translated in place (scanner_thumb.c, THUMB_SVC16: push, r8 = next     *)
(* address, BLX to the syscall wrapper), so a call returns into the       *)
(* calling fragment.                                                      *)
(*                                                                         *)
(* vfork: the kernel suspends the parent there and runs the child on the  *)
(* same memory: the child returns into the same fragment and runs on the  *)
(* same thread data, code cache and hash table (syscalls.c only saves the *)
(* scratch registers for the parent) until it execs or exits; then the    *)
(* parent goes on in its fragment.                                        *)
(*                                                                         *)
(* rt_sigaction: the handler is translated with lookup_or_scan and the    *)
(* kernel is given the fragment's address in the code cache.              *)
(*                                                                         *)
(* exit: the thread unmaps its code cache and its thread data and ends;   *)
(* in a vfork child these are the parent's.                               *)
(***************************************************************************)
EXTENDS Dispatcher

CONSTANTS
  VforkBlocks,      \* guest blocks whose body calls vfork
  SigactionBlocks,  \* guest blocks whose body installs Handler with rt_sigaction
  ExitBlocks,       \* guest blocks whose body ends the thread with __NR_exit
  Handler           \* the guest address of the signal handler

ASSUME VforkBlocks \cup SigactionBlocks \cup ExitBlocks \subseteq Addr /\ Handler \in Addr

VARIABLES
  suspended,   \* NONE, or the vfork parent: its slot and guest block
  sighandler,  \* the handler address the kernel holds: a slot, or NONE
  cache_mapped \* the code cache and thread data are still mapped

allVars == <<vars, suspended, sighandler, cache_mapped>>

InitS == Init /\ suspended = NONE /\ sighandler = NONE /\ cache_mapped = TRUE

SyscallBlocks == VforkBlocks \cup SigactionBlocks \cup ExitBlocks

\* __NR_vfork: syscall_handler_pre marks is_vfork_child and saves the
\* scratch registers; the parent stops in its fragment, and the child comes
\* back from the SVC in the same fragment and runs on to its exit.  A vfork
\* child may not call vfork itself.
Vfork ==
  /\ pc.mode = "body" /\ suspended = NONE
  /\ slot[pc.slot].kind = "block"
  /\ slot[pc.slot].guest \in VforkBlocks
  /\ suspended' = [slot |-> pc.slot, gpc |-> gpc]
  /\ pc' = [pc EXCEPT !.mode = "exit"]
  /\ UNCHANGED <<slot, hash, free_block, gpc, sighandler, cache_mapped>>

\* The child execs or exits the process at a system call in some fragment
\* (execve, or exit_group through dbm_exit); the kernel
\* resumes the parent after its SVC (syscall_handler_post restores its
\* scratch registers), which runs the rest of its fragment to the exit.
ChildExec ==
  /\ suspended # NONE
  /\ pc.mode = "body"
  /\ pc' = [Running(suspended.slot) EXCEPT !.mode = "exit"]
  /\ gpc' = suspended.gpc
  /\ suspended' = NONE
  /\ UNCHANGED <<slot, hash, free_block, sighandler, cache_mapped>>

\* __NR_rt_sigaction with a handler other than SIG_IGN / SIG_DFL:
\* sa_handler = lookup_or_scan(handler) + SIG_FRAG_OFFSET (0 on 32-bit
\* ARM), then the call returns into the fragment.
Sigaction ==
  /\ pc.mode = "body"
  /\ slot[pc.slot].kind = "block"
  /\ slot[pc.slot].guest \in SigactionBlocks
  /\ LET st == LookupOrScan(Handler, CacheState)
     IN  /\ slot' = st.slot /\ hash' = st.hash /\ free_block' = st.free
         /\ sighandler' = st.ret
         /\ pc' = IF st.ok THEN [pc EXCEPT !.mode = "exit"] ELSE Aborted
  /\ UNCHANGED <<gpc, suspended, cache_mapped>>

\* __NR_exit: POST_THREAD callbacks, munmap of thread_data->code_cache and
\* of thread_data, pthread_exit.  A thread ends there; a vfork child's
\* process ends, and the kernel resumes the parent after its SVC.
ThreadExit ==
  /\ pc.mode = "body"
  /\ slot[pc.slot].kind = "block"
  /\ slot[pc.slot].guest \in ExitBlocks
  /\ cache_mapped' = FALSE
  /\ IF suspended # NONE
       THEN /\ pc' = [Running(suspended.slot) EXCEPT !.mode = "exit"]
            /\ gpc' = suspended.gpc
            /\ suspended' = NONE
       ELSE /\ pc' = [Aborted EXCEPT !.mode = "exited"]
            /\ UNCHANGED <<gpc, suspended>>
  /\ UNCHANGED <<slot, hash, free_block, sighandler>>

\* Bodies without these calls run as in Dispatcher.
RunBodyS == RunBody /\ slot[pc.slot].guest \notin SyscallBlocks

NextS ==
  \/ Vfork \/ ChildExec \/ Sigaction \/ ThreadExit
  \/ (RunBodyS \/ StartThread \/ SyscallFlush \/ LeaveFragment \/ StubEntry \/ Dispatch)
       /\ UNCHANGED <<suspended, sighandler, cache_mapped>>

SpecS == InitS /\ [][NextS]_allVars

\* The kernel holds two kinds of addresses in the code cache: the point
\* after the SVC where a vfork parent resumes (the __NR_vfork case of
\* syscall_handler_pre leaves the code cache shared with the child), and
\* the handler address the __NR_rt_sigaction case gives it (a signal may
\* arrive at any time).  Across every later scan, dispatcher(), allocate_bb,
\* flush_code_cache and thread exit, each still holds the block it was
\* taken for: the parent's fragment, and the handler's fragment or its
\* stub; and the thread only runs fragments of a code cache still mapped.
CacheAddressesLive ==
  /\ pc.mode \in {"body", "exit", "disp"} => cache_mapped
  /\ suspended # NONE =>
       /\ slot[suspended.slot].kind = "block"
       /\ slot[suspended.slot].guest = suspended.gpc
  /\ sighandler # NONE =>
       /\ slot[sighandler].kind # "free"
       /\ slot[sighandler].guest = Handler
=============================================================================
