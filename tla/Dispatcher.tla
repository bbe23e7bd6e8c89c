----------------------------- MODULE Dispatcher -----------------------------
(***************************************************************************)
(* One MAMBO thread running a guest out of its code cache (the Thumb      *)
(* build).  The thread executes a fragment's body, leaves it through the  *)
(* exit the scanner wrote, and either lands in another fragment or calls  *)
(* dispatcher() (src/dispatcher.c), which finds or scans the target's     *)
(* fragment with lookup_or_scan and patches the source fragment's exit so *)
(* that the next time it branches there directly.                         *)
(*                                                                         *)
(* The code cache itself (allocate_bb, lookup_or_scan, lookup_or_stub,    *)
(* hash_add, flush_code_cache) lives in dbm.c, which is not part of the   *)
(* sources here; those operators follow the specification's description. *)
(*                                                                         *)
(* Build: DBM_LINK_UNCOND_IMM, DBM_LINK_COND_IMM, DBM_LINK_CBZ,           *)
(* DBM_TB_DIRECT and DBM_D_INLINE_HASH on; FAST_BT, DBM_TRACES and        *)
(* DBM_INLINE_UNCOND_IMM off.                                             *)
(***************************************************************************)
EXTENDS ThumbExits

VARIABLES
  slot,        \* slot[s]: code_cache_meta[s] and the exit code of fragment s
  hash,        \* entry_address: guest address -> fragment, or NONE
  free_block,  \* thread_data->free_block
  pc,          \* where the thread is: a fragment body or exit, the dispatcher
  gpc          \* ghost: the guest block the guest program is executing

vars == <<slot, hash, free_block, pc, gpc>>

EmptyHash == [a \in Addr |-> NONE]

Running(s) == [mode |-> "body", slot |-> s, target |-> NONE, src |-> NONE, arm |-> NONE]
Aborted == [mode |-> "abort", slot |-> NONE, target |-> NONE, src |-> NONE, arm |-> NONE]
InDispatcher(t, src, arm) ==
  [mode |-> "disp", slot |-> NONE, target |-> t, src |-> src, arm |-> arm]

\* The per-thread cache as the dbm.c operations see it; ret is the fragment
\* an operation returns, ok is FALSE once an assert() has failed.
CacheState == [slot |-> slot, hash |-> hash, free |-> free_block, ret |-> NONE, ok |-> TRUE]

(***************************************************************************)
(* Code cache operations (dbm.c, modelled from the specification).        *)
(***************************************************************************)

\* hash_lookup: UINT_MAX for an address with no fragment.
HashLookup(h, a) == IF a \in Addr THEN h[a] ELSE NONE

\* A faulty variant of Unlinked: the links are undone but
\* branch_cache_status is left as it was.
UnlinkedKeepStatus(f) ==
  IF f.kind # "block" THEN f
  ELSE [f EXCEPT !.head = NoHead, !.direct = NONE, !.garbled = NONE,
                 !.tramp = Trampolines(Prog[f.guest].taken, Prog[f.guest].skipped, FALSE, FALSE),
                 !.tbslot = [k \in TbSlots |-> NONE]]

\* A faulty variant of Unlinked: the link records are not walked, so the
\* patched branches stay.
UnlinkedKeepLinks(f) == f

\* Flushing walks the link records and undoes every patched branch: an exit
\* that branched to a fragment calls the dispatcher for its target again.
\* A fragment's branch_cache_status lasts until the flush.
Unlinked(f) ==
  IF f.kind # "block" THEN f
  ELSE [f EXCEPT !.head = NoHead, !.status = 0, !.direct = NONE, !.garbled = NONE,
                 !.tramp = Trampolines(Prog[f.guest].taken, Prog[f.guest].skipped, FALSE, FALSE),
                 !.tbslot = [k \in TbSlots |-> NONE]]

\* A faulty variant of FlushCodeCache: the hash table is not emptied.
FlushCodeCacheKeepHash(st) ==
  [st EXCEPT !.slot = [s \in Slots |-> Unlinked(st.slot[s])], !.free = 0]

\* flush_code_cache: free_block and the hash table are reset, links undone.
FlushCodeCache(st) ==
  [st EXCEPT !.slot = [s \in Slots |-> Unlinked(st.slot[s])], !.hash = EmptyHash, !.free = 0]

\* A faulty variant of AllocateBb: the cache counts as full one slot early.
AllocateBbEarly(st) ==
  LET s == IF st.free >= NumSlots - 1 THEN FlushCodeCache(st) ELSE st
  IN  [s EXCEPT !.free = s.free + 1, !.ret = s.free]

\* allocate_bb: the next slot; when the cache is exhausted, flush first.
AllocateBb(st) ==
  LET s == IF st.free >= NumSlots THEN FlushCodeCache(st) ELSE st
  IN  [s EXCEPT !.free = s.free + 1, !.ret = s.free]

\* thumb_encode_stub_bb: save context and call the dispatcher for target;
\* lookup_or_stub marks the meta as a stub.
StubFragment(t) == [EmptyFragment EXCEPT !.kind = "stub", !.guest = t, !.type = "stub"]

\* lookup_or_stub: the cached fragment of t, or a new stub entered in the hash.
LookupOrStub(t, st) ==
  IF st.hash[t] # NONE THEN [st EXCEPT !.ret = st.hash[t]]
  ELSE LET a == AllocateBb(st)
       IN  [a EXCEPT !.slot[a.ret] = StubFragment(t), !.hash[t] = a.ret]

\* The second slot of a fragment that overflowed: it holds the rest of the
\* code; code_cache_meta stays with the first.
ContFragment(t) == [EmptyFragment EXCEPT !.kind = "cont", !.guest = t]

\* thumb_check_free_space, once the body of a long block reaches data_p:
\* allocate_bb (which may flush) gives the continuation slot; a B.W to it
\* is written unless it is the next slot.  write_p moves there and the
\* exit is written after the body, in the continuation.
CheckFreeSpace(t, idx, st) ==
  IF ~Prog[t].long THEN st
  ELSE LET a == AllocateBb(st) IN [a EXCEPT !.slot[a.ret] = ContFragment(t)]

\* scan_thumb for the guest block at t into slot idx: the body, with the
\* free-space check, then the exit by the case of its last instruction.
\* TBB/TBH takes a second slot, asserting that it is the next free one.
ScanThumb(t, idx, st0) ==
  LET e == Prog[t]
      st == CheckFreeSpace(t, idx, st0)
      f0 == [EmptyFragment EXCEPT !.kind = "block", !.guest = t]
      Put(f) == [st EXCEPT !.slot[idx] = f]
  IN  CASE e.exit = "uncond" -> Put(ScanUncondImm(f0, e, st.hash))
        [] e.exit = "blxi"   -> Put(ScanBlxi(f0, e))
        [] e.exit = "cond"   -> Put(ScanCondImm(f0, e, st.hash))
        [] e.exit = "cbz"    -> Put(ScanCbz(f0, e, st.hash))
        [] e.exit = "reg"    -> Put(ScanReg(f0))
        [] e.exit = "tb"     -> [st EXCEPT !.slot[idx] = ScanTb(f0), !.free = st.free + 1,
                                           !.ok = st.ok /\ st.free = idx + 1]
        [] e.exit = "stubbed" ->
             LET s == LookupOrStub(e.taken, st)
             IN  [s EXCEPT !.slot[idx] = ScanStubbed(f0, s.ret)]

\* scan: translate, then enter the fragment in the hash table.
Scan(t, idx, st) == [ScanThumb(t, idx, st) EXCEPT !.hash[t] = idx]

\* lookup_or_scan: a cached fragment; a stub is scanned over in place;
\* otherwise a new slot is allocated and scanned.
LookupOrScan(t, st) ==
  LET c == st.hash[t]
  IN  IF c # NONE /\ st.slot[c].kind = "block" THEN [st EXCEPT !.ret = c]
      ELSE IF c # NONE THEN [Scan(t, c, st) EXCEPT !.ret = c]
      ELSE LET a == AllocateBb(st) IN [Scan(t, a.ret, a) EXCEPT !.ret = a.ret]

(***************************************************************************)
(* Linking the source fragment's exit (the switch in dispatcher()).       *)
(***************************************************************************)

\* A faulty variant of TbLink: a branch slot is taken even when all
\* TB_CACHE_SIZE of them are in use.
TbLinkNoFullCheck(f, blk) ==
  IF f.rn >= MaxTbIndex THEN f
  ELSE [f EXCEPT !.table[f.rn] = TbSlotEntry(f.free_b), !.tbslot[f.free_b] = blk,
                 !.free_b = f.free_b + 1, !.rn = INT_MAX]

\* tbb / tbh: meta.rn is the index the TB code stored, INT_MAX when the
\* call came from the inline hash lookup.  Link the index to a free branch
\* slot, or to the inline hash lookup once they are all taken; then
\* invalidate rn.
TbLink(f, blk) ==
  IF f.rn >= MaxTbIndex THEN f
  ELSE IF f.free_b = TbCacheSize THEN [f EXCEPT !.table[f.rn] = TbIhlEntry, !.rn = INT_MAX]
  ELSE [f EXCEPT !.table[f.rn] = TbSlotEntry(f.free_b), !.tbslot[f.free_b] = blk,
                 !.free_b = f.free_b + 1, !.rn = INT_MAX]

\* A faulty variant of LinkUncondImm: the exit is left as it is.
LinkUncondImmUnpatched(f, blk) == f

\* uncond_imm_thumb: the trampoline is overwritten by a B.W (or, to an ARM
\* fragment, an LDR pc literal) to the fragment.
LinkUncondImm(f, blk) == [f EXCEPT !.direct = blk]

\* uncond_blxi_thumb: an LDR pc literal to the fragment.
LinkBlxi(f, blk) == [f EXCEPT !.direct = blk]

\* cond_imm_thumb: the arm the target matches is linked to the new fragment,
\* the other one as well when its target is in the hash table.
LinkCondImm(f, target, blk, h) ==
  IF target = f.takenAddr
  THEN LET other == HashLookup(h, f.skippedAddr)
       IN  EncodeCondImm(f, blk, IF other # NONE THEN other ELSE f.skippedAddr,
                         TRUE, other # NONE, TRUE)
  ELSE LET other == HashLookup(h, f.takenAddr)
       IN  EncodeCondImm(f, IF other # NONE THEN other ELSE f.takenAddr, blk,
                         other # NONE, TRUE, TRUE)

\* cbz_thumb: the same through the CBZ encoder.
LinkCbz(f, target, blk, h) ==
  IF target = f.takenAddr
  THEN LET other == HashLookup(h, f.skippedAddr)
       IN  EncodeCbz(f, blk, IF other # NONE THEN other ELSE f.skippedAddr,
                     TRUE, other # NONE, TRUE)
  ELSE LET other == HashLookup(h, f.takenAddr)
       IN  EncodeCbz(f, IF other # NONE THEN other ELSE f.takenAddr, blk,
                     other # NONE, TRUE, TRUE)

LinkedTypes == {"tbb", "uncond_imm_thumb", "cond_imm_thumb", "cbz_thumb", "uncond_blxi_thumb"}

\* The patch is written at the fragment's exit_branch_addr in the layout of
\* the exit type read before lookup_or_scan; if the fragment now there has
\* another exit type, the words written there make it branch to blk.
LinkExit(type, f, target, blk, h) ==
  CASE type \in LinkedTypes /\ type # f.type -> [f EXCEPT !.garbled = blk]
    [] type = "tbb"               -> TbLink(f, blk)
    [] type = "uncond_imm_thumb"  -> LinkUncondImm(f, blk)
    [] type = "cond_imm_thumb"    -> LinkCondImm(f, target, blk, h)
    [] type = "cbz_thumb"         -> LinkCbz(f, target, blk, h)
    [] type = "uncond_blxi_thumb" -> LinkBlxi(f, blk)
    [] OTHER                      -> f

(***************************************************************************)
(* Actions.                                                               *)
(***************************************************************************)

Init ==
  /\ slot = [s \in Slots |-> EmptyFragment]
  /\ hash = EmptyHash
  /\ free_block = 0
  /\ pc = [Aborted EXCEPT !.mode = "start"]
  /\ gpc = Entry

\* dbm_start_thread_pth: scan the first block and enter it (th_enter).
StartThread ==
  /\ pc.mode = "start"
  /\ LET a == AllocateBb(CacheState)
         st == Scan(Entry, a.ret, a)
     IN  /\ slot' = st.slot /\ hash' = st.hash /\ free_block' = st.free
         /\ pc' = IF st.ok THEN Running(a.ret) ELSE Aborted
  /\ UNCHANGED gpc

\* The body of a block without a system call runs to the exit.
RunBody ==
  /\ pc.mode = "body"
  /\ slot[pc.slot].kind = "block"
  /\ ~Prog[slot[pc.slot].guest].svc
  /\ pc' = [pc EXCEPT !.mode = "exit"]
  /\ UNCHANGED <<slot, hash, free_block, gpc>>

\* A body whose SVC is munmap or cacheflush: syscall_handler_pre flushes the
\* code cache, and the fragment goes on to its exit.
SyscallFlush ==
  /\ pc.mode = "body"
  /\ slot[pc.slot].kind = "block"
  /\ Prog[slot[pc.slot].guest].svc
  /\ LET st == FlushCodeCache(CacheState)
     IN  slot' = st.slot /\ hash' = st.hash /\ free_block' = st.free
  /\ pc' = [pc EXCEPT !.mode = "exit"]
  /\ UNCHANGED gpc

\* The guest leaves the fragment by one of the arms of its block.
LeaveFragment ==
  /\ pc.mode = "exit"
  /\ LET s == pc.slot
         g == slot[s].guest
     IN  \E arm \in Arms(g) :
           LET r == ExitRun(slot[s], arm, hash)
           IN  /\ gpc' = ArmTarget(g, arm)
               /\ pc' = IF r.go = "frag" THEN Running(r.slot)
                        ELSE InDispatcher(r.target, s, arm)
               /\ slot' = IF r.saveIndex THEN [slot EXCEPT ![s].rn = arm] ELSE slot
  /\ UNCHANGED <<hash, free_block>>

\* A stub fragment calls the dispatcher for its target.
StubEntry ==
  /\ pc.mode = "body"
  /\ slot[pc.slot].kind = "stub"
  /\ pc' = InDispatcher(slot[pc.slot].guest, pc.slot, NONE)
  /\ UNCHANGED <<slot, hash, free_block, gpc>>

\* A faulty variant of dispatcher: the source's exit type is read after
\* lookup_or_scan, which may have scanned over the source.
DispatcherTypeAfterScan ==
  /\ pc.mode = "disp"
  /\ LET source_index == pc.src
         st == LookupOrScan(pc.target, CacheState)
         source_branch_type == st.slot[source_index].type
     IN  /\ slot' = [st.slot EXCEPT ![source_index] =
                       LinkExit(source_branch_type, @, pc.target, st.ret, st.hash)]
         /\ hash' = st.hash /\ free_block' = st.free
         /\ pc' = IF st.ok THEN Running(st.ret) ELSE Aborted
  /\ UNCHANGED gpc

\* dispatcher(target, next_addr, source_index): read the source's exit type,
\* lookup_or_scan the target, link the source's exit, continue at the
\* fragment (*next_addr = block_address).
Dispatch ==
  /\ pc.mode = "disp"
  /\ LET source_index == pc.src
         source_branch_type == slot[source_index].type
         st == LookupOrScan(pc.target, CacheState)
     IN  /\ slot' = [st.slot EXCEPT ![source_index] =
                       LinkExit(source_branch_type, @, pc.target, st.ret, st.hash)]
         /\ hash' = st.hash /\ free_block' = st.free
         /\ pc' = IF st.ok THEN Running(st.ret) ELSE Aborted
  /\ UNCHANGED gpc

Next ==
  \/ StartThread
  \/ RunBody
  \/ SyscallFlush
  \/ LeaveFragment
  \/ StubEntry
  \/ Dispatch

\* The thread is scheduled: while it can take a step (run a body, leave a
\* fragment, finish dispatcher(), a plain call that always returns) it
\* eventually does.  Which arm a block leaves by is not fair.
Spec == Init /\ [][Next]_vars /\ WF_vars(Next)


(***************************************************************************)
(* Properties.                                                            *)
(***************************************************************************)

TypeOK ==
  /\ slot \in [Slots -> Fragment]
  /\ hash \in [Addr -> Slots \cup {NONE}]
  /\ free_block \in 0..(NumSlots + 1)
  /\ pc.mode \in {"start", "body", "exit", "disp", "abort"}
  /\ gpc \in Addr

\* The translated code runs the guest: the fragment being executed is the
\* translation of (or the stub for) the block the guest is in, and the
\* dispatcher is called with the address the guest branches to.  It covers
\* every exit the scanner writes, every patch dispatcher() makes and the
\* exit type dispatcher() reads before lookup_or_scan; no assert() fails.
ExecCorrect ==
  /\ pc.mode # "abort"
  /\ pc.mode \in {"body", "exit"} =>
       slot[pc.slot].kind # "free" /\ slot[pc.slot].guest = gpc
  /\ pc.mode = "disp" => pc.target = gpc

\* An arm of a conditional fragment that branch_cache_status records as
\* linked never reaches the dispatcher again: the dispatcher is entered at
\* most once per arm (thumb_encode_cond_imm_branch / _cbz_branch with
\* set_cc_imm_links, as patched by dispatcher()).
NoRelinkDispatch ==
  (pc.mode = "disp" /\ slot[pc.src].type \in {"cond_imm_thumb", "cbz_thumb"})
    => ~HasBit(slot[pc.src].status, pc.arm)

\* Every hash table entry names a fragment handed out since the last flush
\* that translates that address or is its stub (scan, lookup_or_stub and
\* flush_code_cache keep entry_address and the slots in step).
HashSound ==
  \A a \in Addr : hash[a] # NONE =>
     /\ hash[a] < free_block
     /\ slot[hash[a]].kind # "free"
     /\ slot[hash[a]].guest = a

\* Without flushes the thread eventually stops entering the dispatcher:
\* every exit taken gets linked by dispatcher() or resolved by the inline
\* hash lookup / TB branch slots, so no exit keeps trapping.
DispatcherQuiesces == <>[](pc.mode # "disp")

(***************************************************************************)
(* Refinement: the translated code implements the guest program.  The     *)
(* guest block is read off the thread's own state, not the ghost gpc: the *)
(* block whose fragment (or stub) is running, the target the dispatcher   *)
(* was called with, Entry before the thread starts; none after a failed   *)
(* assert.                                                                *)
(***************************************************************************)

GuestOf ==
  CASE pc.mode \in {"body", "exit"} -> slot[pc.slot].guest
    [] pc.mode = "disp"             -> pc.target
    [] pc.mode = "start"            -> Entry
    [] OTHER                        -> NONE

GP == INSTANCE GuestProgram WITH gpc <- GuestOf

\* Every step of the thread either leaves the guest block it is running
\* unchanged (scanning, dispatcher(), linking, flushing, the system call)
\* or moves it to a successor of that block in the guest's control flow:
\* every exit scan_thumb writes, every patch dispatcher() makes and every
\* lookup (inline hash, TB table, hash table) lands where the guest goes.
GuestRefinement == GP!FairSpec

=============================================================================
