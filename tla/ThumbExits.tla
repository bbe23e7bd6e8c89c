----------------------------- MODULE ThumbExits -----------------------------
(***************************************************************************)
(* The exits the Thumb scanner (src/scanner_thumb.c) writes at the end of *)
(* a fragment, the changes the dispatcher makes to them, and what the     *)
(* written code does when the guest leaves the fragment by one of its     *)
(* arms.  Code is abstracted to the branches it contains: a branch to a   *)
(* fragment (a slot number), a trampoline that calls the dispatcher with  *)
(* a guest target, or the inline hash lookup.                             *)
(***************************************************************************)
EXTENDS Guest, TLC

CONSTANTS
  NumSlots,     \* CODE_CACHE_SIZE: fragments allocate_bb hands out before a flush
  TbCacheSize,  \* TB_CACHE_SIZE: direct branch slots per TBB/TBH fragment
  MaxTbIndex    \* MAX_TB_INDEX: table indexes the TB code handles itself

ASSUME NumSlots \in Nat \ {0} /\ TbCacheSize \in Nat \ {0}
ASSUME MaxTbIndex \in Nat \ {0}

\* Fragment slots; slot NumSlots is the over-provisioned one the second
\* half of a TBB/TBH fragment may take when it is scanned into the last slot.
Slots == 0..NumSlots
INT_MAX == 2147483647
TbIdx == 0..(MaxTbIndex - 1)
TbSlots == 0..(TbCacheSize - 1)

\* The byte-table values of the TBB code: a halfword offset past the table
\* (MAX_TB_INDEX / 2 halfwords) to branch slot k, to the B16 to the
\* dispatcher path after the slots, or to the inline hash lookup after it.
TbSlotEntry(k) == MaxTbIndex \div 2 + k * 2
TbDispEntry == MaxTbIndex \div 2 + TbCacheSize * 2
TbIhlEntry == TbDispEntry + 1

\* branch_cache_status & b, and branch_cache_status |= b
HasBit(x, b) == (x \div b) % 2 = 1
SetBit(x, b) == IF HasBit(x, b) THEN x ELSE x + b

ExitTypes == {"unknown", "stub", "uncond_imm_thumb", "uncond_blxi_thumb",
              "cond_imm_thumb", "cbz_thumb", "tbb", "uncond_reg_thumb"}

(***************************************************************************)
(* A fragment: the code_cache_meta entry of a slot together with the exit *)
(* code in the slot.                                                      *)
(*   head    the patchable words at exit_branch_addr of a conditional     *)
(*           exit: cond is the arm the IT / CBZ / CBNZ selects for b1     *)
(*           (0: the NOPs reserved at scan time), b2 the unconditional    *)
(*           branch after it, if any                                      *)
(*   tramp   the guest target of the dispatcher trampoline of each arm,   *)
(*           NONE when no trampoline was written for it                  *)
(*   direct  the fragment a B / LDR pc literal exit branches to           *)
(*   garbled a fragment whose exit words were overwritten by a patch     *)
(*           meant for another exit layout: it branches to that fragment  *)
(*   table, tbslot   the TBB byte table (an index goes to the dispatcher  *)
(*           path, to the inline hash lookup, or to a branch slot) and    *)
(*           the TB_CACHE_SIZE branch slots                               *)
(***************************************************************************)
Head == [cond : {0, TAKEN, SKIPPED}, b1 : Slots \cup {NONE}, b2 : Slots \cup {NONE}]

Fragment ==
  [kind : {"free", "block", "stub", "cont"}, guest : Addr \cup {NONE},
   type : ExitTypes, takenAddr : Addr \cup {NONE}, skippedAddr : Addr \cup {NONE},
   status : 0..3, head : Head, tramp : [{TAKEN, SKIPPED} -> Addr \cup {NONE}],
   direct : Slots \cup {NONE}, garbled : Slots \cup {NONE}, rn : TbIdx \cup {INT_MAX}, free_b : 0..TbCacheSize,
   table : [TbIdx -> {TbSlotEntry(k) : k \in TbSlots} \cup {TbDispEntry, TbIhlEntry}],
   tbslot : [TbSlots -> Slots \cup {NONE}]]

NoHead == [cond |-> 0, b1 |-> NONE, b2 |-> NONE]
NoTramp == (TAKEN :> NONE) @@ (SKIPPED :> NONE)

EmptyFragment ==
  [kind |-> "free", guest |-> NONE, type |-> "unknown", takenAddr |-> NONE,
   skippedAddr |-> NONE, status |-> 0, head |-> NoHead, tramp |-> NoTramp,
   direct |-> NONE, garbled |-> NONE, rn |-> INT_MAX, free_b |-> 0,
   table |-> [i \in TbIdx |-> TbDispEntry], tbslot |-> [k \in TbSlots |-> NONE]]

\* The trampolines written at scan time for the arms not found in the cache.
Trampolines(taken, skipped, tc, sc) ==
  (TAKEN :> IF tc THEN NONE ELSE taken) @@ (SKIPPED :> IF sc THEN NONE ELSE skipped)

\* set_cc_imm_links: the arms now branched to directly are recorded in
\* branch_cache_status (the link records it also makes are not modelled).
SetCcImmLinks(status, tc, sc) ==
  LET s1 == IF tc THEN SetBit(status, TAKEN) ELSE status
  IN  IF sc THEN SetBit(s1, SKIPPED) ELSE s1

\* Both arms cached: IT + two B.W; when updating a fragment whose skipped arm
\* is already linked the inverse condition is used and the order swapped.
BothCachedHead(f, taken, skipped, update) ==
  IF update /\ HasBit(f.status, SKIPPED)
  THEN [cond |-> SKIPPED, b1 |-> skipped, b2 |-> taken]
  ELSE [cond |-> TAKEN, b1 |-> taken, b2 |-> skipped]

\* A faulty variant of the encoder below: with both arms cached only the
\* first branch is written, the second word is left as it was.
EncodeCondImmOneBranch(f, taken, skipped, tc, sc, update) ==
  LET head == IF tc /\ sc THEN [BothCachedHead(f, taken, skipped, update) EXCEPT !.b2 = f.head.b2]
              ELSE IF tc THEN [f.head EXCEPT !.cond = TAKEN, !.b1 = taken]
              ELSE IF sc THEN [f.head EXCEPT !.cond = SKIPPED, !.b1 = skipped]
              ELSE f.head
  IN  [f EXCEPT !.head = head,
                !.tramp = IF update \/ (tc /\ sc) THEN f.tramp
                          ELSE Trampolines(taken, skipped, tc, sc),
                !.status = SetCcImmLinks(f.status, tc, sc)]

\* thumb_encode_cond_imm_branch.  taken / skipped are fragments for the arms
\* that are cached (tc, sc) and guest addresses for the others.  With one arm
\* cached, "IT c; B.W" overwrites the head and the words after it stay.
\* At scan time (update = FALSE) the trampolines of the uncached arms follow.
EncodeCondImm(f, taken, skipped, tc, sc, update) ==
  LET head == IF tc /\ sc THEN BothCachedHead(f, taken, skipped, update)
              ELSE IF tc THEN [f.head EXCEPT !.cond = TAKEN, !.b1 = taken]
              ELSE IF sc THEN [f.head EXCEPT !.cond = SKIPPED, !.b1 = skipped]
              ELSE f.head
  IN  [f EXCEPT !.head = head,
                !.tramp = IF update \/ (tc /\ sc) THEN f.tramp
                          ELSE Trampolines(taken, skipped, tc, sc),
                !.status = SetCcImmLinks(f.status, tc, sc)]

\* thumb_encode_cbz_branch: as above with CBZ / CBNZ in place of IT, except
\* that a single cached arm is "CBNZ/CBZ; B.W; NOP; NOP": no second branch.
EncodeCbz(f, taken, skipped, tc, sc, update) ==
  LET head == IF tc /\ sc THEN BothCachedHead(f, taken, skipped, update)
              ELSE IF tc THEN [cond |-> TAKEN, b1 |-> taken, b2 |-> NONE]
              ELSE IF sc THEN [cond |-> SKIPPED, b1 |-> skipped, b2 |-> NONE]
              ELSE f.head
  IN  [f EXCEPT !.head = head,
                !.tramp = IF update \/ (tc /\ sc) THEN f.tramp
                          ELSE Trampolines(taken, skipped, tc, sc),
                !.status = SetCcImmLinks(f.status, tc, sc)]

(***************************************************************************)
(* The exit each scan_thumb case writes into a fresh fragment f of guest  *)
(* block e, given the hash table h at scan time (prelinking).             *)
(***************************************************************************)

\* B16 / B.W / BL: a B.W to the target's fragment when it is cached (and a
\* Thumb address), otherwise save context and a trampoline to the dispatcher.
ScanUncondImm(f, e, h) ==
  [f EXCEPT !.type = "uncond_imm_thumb", !.direct = h[e.taken],
            !.tramp = Trampolines(e.taken, NONE, h[e.taken] # NONE, TRUE)]

\* BLX imm (BL_ARM32): the target is word aligned, so never prelinked.
ScanBlxi(f, e) ==
  [f EXCEPT !.type = "uncond_blxi_thumb", !.tramp = Trampolines(e.taken, NONE, FALSE, TRUE)]

\* B<c> 16 / 32: record both arms in the meta, prelink the cached ones.
ScanCondImm(f, e, h) ==
  LET tc == h[e.taken] # NONE
      sc == h[e.skipped] # NONE
  IN  EncodeCondImm([f EXCEPT !.type = "cond_imm_thumb", !.takenAddr = e.taken,
                              !.skippedAddr = e.skipped],
                    IF tc THEN h[e.taken] ELSE e.taken,
                    IF sc THEN h[e.skipped] ELSE e.skipped, tc, sc, FALSE)

\* CBZ / CBNZ: the same with the CBZ encoder.
ScanCbz(f, e, h) ==
  LET tc == h[e.taken] # NONE
      sc == h[e.skipped] # NONE
  IN  EncodeCbz([f EXCEPT !.type = "cbz_thumb", !.takenAddr = e.taken,
                          !.skippedAddr = e.skipped],
                IF tc THEN h[e.taken] ELSE e.taken,
                IF sc THEN h[e.skipped] ELSE e.skipped, tc, sc, FALSE)

\* TBB / TBH [pc, rm] (DBM_TB_DIRECT, not FAST_BT): rn = INT_MAX, free_b = 0,
\* every table index initially goes to the dispatcher path, and the branch
\* slots fall through to it.
ScanTb(f) ==
  [f EXCEPT !.type = "tbb", !.rn = INT_MAX, !.free_b = 0,
            !.table = [i \in TbIdx |-> TbDispEntry], !.tbslot = [k \in TbSlots |-> NONE]]

\* BX / BLX / POP pc / LDR pc: the inline hash lookup, no meta to patch.
ScanReg(f) == [f EXCEPT !.type = "uncond_reg_thumb"]

\* BX pc, and an instruction the scanner does not know: a branch to the
\* fragment d that lookup_or_stub returned for the target.
ScanStubbed(f, d) == [f EXCEPT !.type = "uncond_reg_thumb", !.direct = d]

(***************************************************************************)
(* What the code of fragment f does when the guest leaves it by arm: go   *)
(* to a fragment, or call the dispatcher with a guest target (saveIndex:  *)
(* the TB code has stored the index in meta.rn first).  h is the hash     *)
(* table the inline hash lookup reads.                                    *)
(***************************************************************************)
ToFragment(d) == [go |-> "frag", slot |-> d, target |-> NONE, saveIndex |-> FALSE]
ToDispatcher(t) == [go |-> "disp", slot |-> NONE, target |-> t, saveIndex |-> FALSE]

\* The exit code of a conditional branch: the IT / CBZ head, then, if no
\* second branch follows it, save context and the trampolines (a B<c> /
\* CBZ to the taken trampoline only when both were written).
CondExitRun(f, arm) ==
  IF f.head.cond = arm THEN ToFragment(f.head.b1)
  ELSE IF f.head.cond # 0 /\ f.head.b2 # NONE THEN ToFragment(f.head.b2)
  ELSE IF f.tramp[TAKEN] # NONE /\ f.tramp[SKIPPED] # NONE THEN ToDispatcher(f.tramp[arm])
  ELSE IF f.tramp[TAKEN] # NONE THEN ToDispatcher(f.tramp[TAKEN])
  ELSE ToDispatcher(f.tramp[SKIPPED])

\* thumb_inline_hash_lookup: a hit branches to the fragment, a miss calls the
\* dispatcher with the target and this fragment as source.
InlineHashLookup(t, h) == IF h[t] # NONE THEN ToFragment(h[t]) ELSE ToDispatcher(t)

\* The TB exit for index i with guest target t: indexes >= MAX_TB_INDEX take
\* the inline hash lookup (CMP rm; IT HI; B), the others go through the
\* byte table; the dispatcher path first stores rm into meta.rn.
TbExitRun(f, i, t, h) ==
  LET k == (f.table[i] - MaxTbIndex \div 2) \div 2
  IN  IF i >= MaxTbIndex \/ f.table[i] = TbIhlEntry THEN InlineHashLookup(t, h)
      ELSE IF f.table[i] = TbDispEntry \/ f.tbslot[k] = NONE
           THEN [ToDispatcher(t) EXCEPT !.saveIndex = TRUE]
      ELSE ToFragment(f.tbslot[k])

\* The exit of fragment f, by the shape the scanner gave it; a stub
\* (thumb_encode_stub_bb) saves context and calls the dispatcher for its
\* target.
ExitRun(f, arm, h) ==
  CASE f.kind = "stub" -> ToDispatcher(f.guest)
    [] f.garbled # NONE -> ToFragment(f.garbled)
    [] Prog[f.guest].exit \in {"cond", "cbz"} -> CondExitRun(f, arm)
    [] Prog[f.guest].exit \in {"uncond", "blxi", "stubbed"} ->
         IF f.direct # NONE THEN ToFragment(f.direct) ELSE ToDispatcher(f.tramp[TAKEN])
    [] Prog[f.guest].exit = "tb" -> TbExitRun(f, arm, ArmTarget(f.guest, arm), h)
    [] Prog[f.guest].exit = "reg" -> InlineHashLookup(arm, h)

=============================================================================
