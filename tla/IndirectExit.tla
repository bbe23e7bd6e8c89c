---------------------------- MODULE IndirectExit ----------------------------
(***************************************************************************)
(* The code scan_thumb emits for the exits that take their target from a  *)
(* register or from the stack (src/scanner_thumb.c, DBM_D_INLINE_HASH):   *)
(*   POP {rl, pc}               (THUMB_POP16 with pc)                    *)
(*   LDMFD sp!, {rl, pc}        (THUMB_LDMFD32 with pc, i.e. POP.W)      *)
(*   [POP {rl};] BX/BLX rm      (THUMB_BX16 / THUMB_BLX16; a POP right   *)
(*                               before the branch is merged into it)   *)
(*   LDR pc, [rn, #+/-4]{!}     (THUMB_LDRI32 with rt = pc)              *)
(* The scanner picks three scratch registers sr[0..2] for the inline hash *)
(* lookup (thumb_inline_hash_lookup), pushes those it must save, loads    *)
(* the target into sr[0], and emits the lookup with its hit path          *)
(* (ihl_result_branch or the predictor literal) and its miss path into    *)
(* the dispatcher.  Scan translates one such instruction; the other       *)
(* actions run the emitted code one instruction at a time, on registers  *)
(* and a stack of symbolic values.  The reference is the architecture:   *)
(* GuestResult is what the guest instruction does.                        *)
(***************************************************************************)
EXTENDS Integers, Sequences, FiniteSets, TLC

CONSTANTS
  Pop16Lists,   \* register lists (subsets of r0-r7) of POP {rl, pc}
  LdmLists,     \* register lists (without pc) of LDMFD sp!, {rl, pc}
  BxPops,       \* lists of a POP/LDMFD sp! right before BX/BLX ({} for none)
  BxRms,        \* branch registers of BX/BLX
  LdrForms      \* base register and addressing mode of LDR pc, [rn, #4]

sp == 13
lr == 14
pc == 15
Regs == (0..12) \cup {lr}            \* the registers besides sp and pc
RegInvalid == 16                     \* what get_n_regs fills missing slots with

ASSUME /\ Pop16Lists \subseteq SUBSET (0..7)
       /\ LdmLists \subseteq SUBSET (0..12)
       /\ BxPops \subseteq SUBSET (0..12)
       /\ BxRms \subseteq Regs
       /\ LdrForms \subseteq [rn : Regs \cup {sp}, pre : BOOLEAN, up : BOOLEAN, wb : BOOLEAN]

\* Symbolic values: what each register and stack word holds initially,
\* the code cache address of a guest address, and constants the code
\* materialises.
RegVal(i) == <<"reg", i>>
StackVal(k) == <<"stack", k>>
Frag(v) == <<"frag", v>>
Junk == <<"junk">>
ScratchPtr == <<"ptr", "scratch_regs">>
LitPtr == <<"ptr", "saved_pc">>
BbId == <<"basic_block">>
RetAddr == <<"read_address + 3">>

StackDepth == 12
InitStack == [k \in 1..StackDepth |-> StackVal(k)]

\* Loaded words and computed addresses: the word at address a, and a + d.
Word(a) == <<"word", a>>
AddrPlus(a, d) == <<"plus", a, d>>

\* Each input names its kind and the fields that kind uses.
NoForm == [rn |-> 0, pre |-> TRUE, up |-> TRUE, wb |-> FALSE]
In(kind, rl, rm, link, form) == [kind |-> kind, rl |-> rl, rm |-> rm, link |-> link, form |-> form]
Inputs ==
  {In("pop16", l, 0, FALSE, NoForm) : l \in Pop16Lists} \cup
  {In("ldm", l, 0, FALSE, NoForm) : l \in LdmLists} \cup
  {In("bx", l, m, k, NoForm) : l \in BxPops, m \in BxRms, k \in BOOLEAN} \cup
  {In("ldr", {}, f.rn, FALSE, f) : f \in LdrForms}

\* LDR (immediate, T4) with imm8 = 4: the address it loads from and the
\* value it writes back to rn.
LdrOffsetAddr(f, base) == AddrPlus(base, IF f.up THEN 4 ELSE -4)
LdrAddr(f, base) == IF f.pre THEN LdrOffsetAddr(f, base) ELSE base

(***************************************************************************)
(* Registers lists and the guest's semantics.                             *)
(***************************************************************************)

\* The place of register i in list S: LDM/STM order registers ascending,
\* the lowest at the lowest address.
Rank(S, i) == Cardinality({j \in S : j < i}) + 1
NthReg(S, k) == CHOOSE i \in S : Rank(S, i) = k

\* POP/LDM sp!, S (S without pc): the lowest register takes the word at sp.
PopRegs(regs, stk, S) ==
  [i \in DOMAIN regs |-> IF i \in S THEN stk[Rank(S, i)] ELSE regs[i]]

Drop(stk, n) == SubSeq(stk, n + 1, Len(stk))

\* PUSH S: the lowest register ends at the new sp.
PushRegs(regs, stk, S) ==
  [k \in 1..Cardinality(S) |-> regs[NthReg(S, k)]] \o stk

\* What the guest instruction does: its registers, its stack, and the
\* guest address it branches to.
GuestResult(in, regs, stk) ==
  CASE in.kind \in {"pop16", "ldm"} ->
         [regs |-> PopRegs(regs, stk, in.rl), stk |-> Drop(stk, Cardinality(in.rl) + 1),
          target |-> stk[Cardinality(in.rl) + 1]]
    [] in.kind = "ldr" /\ in.form.rn = sp ->
         \* the stack is memory from sp up: sp +/- 4 is the next word or
         \* the word below sp
         LET k == IF ~in.form.pre THEN 0 ELSE IF in.form.up THEN 1 ELSE -1
         IN  [regs |-> regs,
              stk |-> CASE ~in.form.wb -> stk
                        [] in.form.up  -> Drop(stk, 1)
                        [] OTHER       -> <<Junk>> \o stk,
              target |-> IF k >= 0 THEN stk[k + 1] ELSE Junk]
    [] in.kind = "ldr" ->
         [regs |-> IF in.form.wb
                   THEN [regs EXCEPT ![in.form.rn] = LdrOffsetAddr(in.form, regs[in.form.rn])]
                   ELSE regs,
          stk |-> stk,
          target |-> Word(LdrAddr(in.form, regs[in.form.rn]))]
    [] in.kind = "bx" ->
         LET popped == PopRegs(regs, stk, in.rl)
         IN  [regs |-> IF in.link THEN [popped EXCEPT ![lr] = RetAddr] ELSE popped,
              stk |-> Drop(stk, Cardinality(in.rl)),
              target |-> popped[in.rm]]

(***************************************************************************)
(* The scanner.                                                           *)
(***************************************************************************)

\* get_n_regs(reglist, sr, n): the n lowest registers of the list, the
\* missing ones filled with a value above pc.
GetNRegs(S, n) ==
  [k \in 1..n |-> IF k <= Cardinality(S) THEN NthReg(S, k) ELSE RegInvalid]

\* The loop that replaces each sr[i] at or above thr by the next register
\* below lowest_reg, to be pushed.  ok is FALSE where lowest_reg leaves
\* r0-r7 (the POP16 case stops on is_valid, the others assert).
RECURSIVE AllocLoop(_, _, _, _, _)
AllocLoop(sr, i, low, push, thr) ==
  IF i > 3 THEN [sr |-> sr, low |-> low, push |-> push, ok |-> TRUE]
  ELSE IF sr[i] < thr THEN AllocLoop(sr, i + 1, low, push, thr)
  ELSE IF low - 1 < 0 THEN [sr |-> sr, low |-> low - 1, push |-> push, ok |-> FALSE]
  ELSE AllocLoop([sr EXCEPT ![i] = low - 1], i + 1, low - 1, push \cup {low - 1}, thr)

AllocScratch(S, thr) ==
  LET sr == GetNRegs(S, 3)
  IN  AllocLoop(sr, 1, IF sr[1] < thr THEN sr[1] ELSE 7, {}, thr)

\* thumb_pop16 encodes a 9-bit list: bits 0-7 are r0-r7, bit 8 is pc.  A
\* list passed with pc as bit 15 pops the low registers only.
Pop16Encode(S) == (S \cap 0..7) \cup (IF 8 \in S THEN {pc} ELSE {})

\* Emitted instructions.
PopIns(S) == IF pc \in S THEN [op |-> "popret", regs |-> S \ {pc}]
                          ELSE [op |-> "pop", regs |-> S]
PushIns(S) == IF S # {} THEN <<[op |-> "push", regs |-> S]>> ELSE <<>>
LdrSp(rt, k) == [op |-> "ldrsp", rt |-> rt, off |-> k]
StrSp(rt, k) == [op |-> "strsp", rt |-> rt, off |-> k]
Mov(rd, rm) == [op |-> "mov", rd |-> rd, rm |-> rm]
MovImm(rd, v) == [op |-> "movimm", rd |-> rd, val |-> v]
Str(rb, rt, k) == [op |-> "str", rb |-> rb, rt |-> rt, off |-> k]

\* The code translating one instruction: the part before the lookup, the
\* hit and the miss paths, and ok = FALSE where an assert fires.
Emitted(ok, pre, hit, miss) == [ok |-> ok, pre |-> pre, hit |-> hit, miss |-> miss]

\* thumb_inline_hash_lookup(reg1 = sr[0], reg2 = sr[1], reg3 = sr[2],
\* reglist): its asserts, the lookup, and the miss path into the dispatcher.
IhlAsserts(sr, list) == sr[1] <= 7 /\ {0, 1} \cap list = {}
Ihl(sr) == [op |-> "ihl", r1 |-> sr[1], r2 |-> sr[2], r3 |-> sr[3]]
\* Mutants of IhlMiss: the ADD SP dropped, and pc_incr given in bytes to
\* an encoder that takes words.
IhlMissNoPcIncr(sr, list, pcIncr) ==
  << MovImm(sr[2], ScratchPtr), [op |-> "stm", rb |-> sr[2], regs |-> {0, 1}],
     Mov(0, sr[1]), Mov(1, sr[2]), PopIns(list \ {pc}), Str(1, 2, 2), MovImm(1, BbId),
     [op |-> "bdisp"] >>
IhlMissPcIncrBytes(sr, list, pcIncr) ==
  << MovImm(sr[2], ScratchPtr), [op |-> "stm", rb |-> sr[2], regs |-> {0, 1}],
     Mov(0, sr[1]), Mov(1, sr[2]), PopIns(list \ {pc}), Str(1, 2, 2), MovImm(1, BbId) >>
  \o (IF pc \in list THEN <<[op |-> "addsp", n |-> pcIncr]>> ELSE <<>>)
  \o <<[op |-> "bdisp"]>>

IhlMiss(sr, list, pcIncr) ==
  << MovImm(sr[2], ScratchPtr),
     [op |-> "stm", rb |-> sr[2], regs |-> {0, 1}],
     Mov(0, sr[1]),
     Mov(1, sr[2]),
     PopIns(list \ {pc}),
     Str(1, 2, 2),
     MovImm(1, BbId) >>
  \o (IF pc \in list THEN <<[op |-> "addsp", n |-> pcIncr \div 4]>> ELSE <<>>)
  \o <<[op |-> "bdisp"]>>

\* IHL_BRANCH_LDR_PC_PC: SUBW sr1, pc, #12 (the saved_pc word);
\* STR sr0, [sr1]; LDMFD sp!, reglist; ADD SP, #pc_incr if pc was on the
\* stack; LDR pc, saved_pc.
IhlBranchLdrPcPc(list, sr, pcIncr) ==
  << MovImm(sr[2], LitPtr), Str(sr[2], sr[1], 0), PopIns(list \ {pc}) >>
  \o (IF pc \in list THEN <<[op |-> "addsp", n |-> pcIncr \div 4]>> ELSE <<>>)
  \o <<[op |-> "brlit"]>>

\* ihl_result_branch on a hit: sr[0] holds the code cache address; it
\* overwrites the word pc is popped from, then pops.
IhlResultBranch(type, list, sr, pcIncr) ==
  CASE type = "POP16_PC" ->
         << StrSp(sr[1], Cardinality(list \cap 0..7)),
            PopIns(Pop16Encode((list \cap 0..7) \cup {8})) >>
    [] type = "POP32_PC" ->
         << StrSp(sr[1], Cardinality(list) - 1), PopIns(list \cup {pc}) >>
    [] type = "LDR_PC_PC" -> IhlBranchLdrPcPc(list, sr, pcIncr)

\* POP {rl, pc}: sr[0] <= r3 or running out of registers falls back to
\* popping rl first and using r4-r6.
Pop16PcCode(rl) ==
  LET a    == AllocScratch(rl \cup {pc}, pc)
      fb   == ~a.ok \/ a.sr[1] <= 3
      sr   == IF fb THEN <<4, 5, 6>> ELSE a.sr
      push == IF fb THEN {4, 5, 6} ELSE a.push
      list == (IF fb THEN {pc} ELSE rl \cup {pc}) \cup push
  IN  Emitted(IhlAsserts(sr, list),
        (IF fb THEN <<PopIns(Pop16Encode(rl \cup {pc}))>> ELSE <<>>)
          \o PushIns(push) \o <<LdrSp(sr[1], Cardinality(list) - 1), Ihl(sr)>>,
        IhlResultBranch("POP16_PC", list, sr, 4),
        IhlMiss(sr, list, 4))

\* LDMFD sp!, {rl, pc}: registers from r7 up are replaced, no fallback.
LdmPcCode(rl) ==
  LET a    == AllocScratch(rl \cup {pc}, 7)
      list == rl \cup {pc} \cup a.push
  IN  Emitted(a.ok /\ IhlAsserts(a.sr, list),
        PushIns(a.push) \o <<LdrSp(a.sr[1], Cardinality(list) - 1), Ihl(a.sr)>>,
        IhlResultBranch("POP32_PC", list, a.sr, 4),
        IhlMiss(a.sr, list, 4))

\* BX/BLX rm, overwriting a POP {poped} right before it: the POP is
\* emitted first only when lowest_reg <= r1, otherwise merged into the
\* registers restored after the lookup.
BxCode(poped, rm, link) ==
  LET a    == AllocScratch(poped, pc)
      fb   == a.low <= 1
      sr   == IF fb THEN <<4, 5, 6>> ELSE a.sr
      push == IF fb THEN {4, 5, 6} ELSE a.push
      list == (IF fb THEN {} ELSE poped) \cup push
  IN  Emitted(a.ok /\ IhlAsserts(sr, list),
        (IF fb THEN <<PopIns(IF poped \cap 8..15 # {} THEN poped ELSE Pop16Encode(poped))>>
               ELSE <<>>)
          \o PushIns(push) \o <<Mov(sr[1], rm)>>
          \o (IF link THEN <<MovImm(lr, RetAddr)>> ELSE <<>>) \o <<Ihl(sr)>>,
        \* SUBW sr1, pc, #12; STR sr0, [sr1]; LDMFD sp!, reglist; LDR pc, saved_pc
        << MovImm(sr[2], LitPtr), Str(sr[2], sr[1], 0), PopIns(list), [op |-> "brlit"] >>,
        IhlMiss(sr, list, 4))

\* LDR pc, [rn, #imm8] (imm8 = 4 here): r4-r6 are pushed, the target is
\* loaded into r4 with the guest's addressing mode, or read from the stack
\* for LDR pc, [sp], #4, the only sp form accepted.
LdrPcCode(f) ==
  LET sr   == <<4, 5, 6>>
      list == {4, 5, 6} \cup (IF f.rn = sp THEN {pc} ELSE {})
  IN  Emitted((f.rn = sp => ~f.pre /\ f.up /\ f.wb) /\ IhlAsserts(sr, list),
        PushIns({4, 5, 6})
          \o <<IF f.rn = sp THEN LdrSp(sr[1], 3)
                            ELSE [op |-> "ldr", rt |-> sr[1], form |-> f]>>
          \o <<Ihl(sr)>>,
        IhlResultBranch("LDR_PC_PC", list, sr, 4),
        IhlMiss(sr, list, 4))

Translate(in) ==
  CASE in.kind = "pop16" -> Pop16PcCode(in.rl)
    [] in.kind = "ldm"   -> LdmPcCode(in.rl)
    [] in.kind = "bx"    -> BxCode(in.rl, in.rm, in.link)
    [] in.kind = "ldr"   -> LdrPcCode(in.form)
(***************************************************************************)
(* The emitted code, run.  mem holds the words the code stores to outside *)
(* the stack: thread_data->scratch_regs[0..2] and the saved_pc literal.   *)
(***************************************************************************)
Cells == {<<"scratch_regs", k>> : k \in 0..2} \cup {<<"saved_pc", 0>>}
Running == [kind |-> "running", addr |-> Junk]

VARIABLES
  inp,     \* the guest instruction being translated
  code,    \* what scan_thumb emitted for it
  part,    \* "scan", then the code part running: "pre", "hit" or "miss"; "done"
  ip,      \* the instruction of that part about to run
  r,       \* registers r0-r12 and lr
  stk,     \* the stack, from sp upwards
  mem,     \* scratch_regs and saved_pc
  out      \* how the code left: branch to an address, dispatcher, abort

vars == <<inp, code, part, ip, r, stk, mem, out>>

InitRegs == [i \in Regs |-> RegVal(i)]

Init == /\ inp \in Inputs
        /\ code = Emitted(TRUE, <<>>, <<>>, <<>>)
        /\ part = "scan"
        /\ ip = 1
        /\ r = InitRegs
        /\ stk = InitStack
        /\ mem = [c \in Cells |-> Junk]
        /\ out = Running

\* scan_thumb translates the instruction; a failed assert aborts MAMBO.
Scan == /\ part = "scan"
        /\ code' = Translate(inp)
        /\ IF code'.ok THEN part' = "pre" /\ out' = out
                       ELSE part' = "done" /\ out' = [kind |-> "abort", addr |-> Junk]
        /\ UNCHANGED <<inp, ip, r, stk, mem>>

Cur == code[part][ip]
RunningOp(op) == part \in {"pre", "hit", "miss"} /\ Cur.op = op
Advance == ip' = ip + 1
Leave(o) == part' = "done" /\ out' = o /\ UNCHANGED ip

\* Stores through a register of the words w (offset -> value): they land in
\* mem where the register points there, anywhere else is a wild store.
Store(ptr, w) ==
  IF ptr[1] = "ptr" /\ \A k \in DOMAIN w : <<ptr[2], k>> \in Cells
  THEN /\ mem' = [c \in Cells |-> IF c[1] = ptr[2] /\ c[2] \in DOMAIN w
                                  THEN w[c[2]] ELSE mem[c]]
       /\ Advance /\ UNCHANGED <<part, out>>
  ELSE Leave([kind |-> "wild_store", addr |-> ptr]) /\ UNCHANGED mem

ExecPush == /\ RunningOp("push")
            /\ stk' = PushRegs(r, stk, Cur.regs)
            /\ Advance
            /\ UNCHANGED <<inp, code, part, r, mem, out>>

ExecPop == /\ RunningOp("pop")
           /\ Cardinality(Cur.regs) <= Len(stk)
           /\ r' = PopRegs(r, stk, Cur.regs)
           /\ stk' = Drop(stk, Cardinality(Cur.regs))
           /\ Advance
           /\ UNCHANGED <<inp, code, part, mem, out>>

\* POP/LDMFD sp!, {.., pc}: leaves the code to the address popped into pc.
ExecPopPc == /\ RunningOp("popret")
             /\ Cardinality(Cur.regs) < Len(stk)
             /\ r' = PopRegs(r, stk, Cur.regs)
             /\ stk' = Drop(stk, Cardinality(Cur.regs) + 1)
             /\ Leave([kind |-> "branch", addr |-> stk[Cardinality(Cur.regs) + 1]])
             /\ UNCHANGED <<inp, code, mem>>

ExecLdrSp == /\ RunningOp("ldrsp")
             /\ Cur.off < Len(stk)
             /\ r' = [r EXCEPT ![Cur.rt] = stk[Cur.off + 1]]
             /\ Advance
             /\ UNCHANGED <<inp, code, part, stk, mem, out>>

\* LDR rt, [rn, #+/-4]{!}: with writeback and rt = rn the result is
\* UNPREDICTABLE, either the loaded word or the written-back address.
ExecLdr == /\ RunningOp("ldr")
           /\ LET f == Cur.form
                  loaded == Word(LdrAddr(f, r[f.rn]))
                  back == LdrOffsetAddr(f, r[f.rn])
              IN  IF ~f.wb THEN r' = [r EXCEPT ![Cur.rt] = loaded]
                  ELSE IF f.rn # Cur.rt
                       THEN r' = [r EXCEPT ![Cur.rt] = loaded, ![f.rn] = back]
                       ELSE \E v \in {loaded, back} : r' = [r EXCEPT ![Cur.rt] = v]
           /\ Advance
           /\ UNCHANGED <<inp, code, part, stk, mem, out>>

ExecStrSp == /\ RunningOp("strsp")
             /\ Cur.off < Len(stk)
             /\ stk' = [stk EXCEPT ![Cur.off + 1] = r[Cur.rt]]
             /\ Advance
             /\ UNCHANGED <<inp, code, part, r, mem, out>>

ExecMov == /\ RunningOp("mov")
           /\ r' = [r EXCEPT ![Cur.rd] = r[Cur.rm]]
           /\ Advance
           /\ UNCHANGED <<inp, code, part, stk, mem, out>>

ExecMovImm == /\ RunningOp("movimm")
              /\ r' = [r EXCEPT ![Cur.rd] = Cur.val]
              /\ Advance
              /\ UNCHANGED <<inp, code, part, stk, mem, out>>

\* The lookup finds the target: reg1 becomes its code cache address.
HashHit == /\ RunningOp("ihl")
           /\ r' = [r EXCEPT ![Cur.r1] = Frag(r[Cur.r1]), ![Cur.r2] = Junk,
                             ![Cur.r3] = r[Cur.r1]]
           /\ part' = "hit"
           /\ ip' = 1
           /\ UNCHANGED <<inp, code, stk, mem, out>>

\* The lookup reaches an empty entry.
HashMiss == /\ RunningOp("ihl")
            /\ r' = [r EXCEPT ![Cur.r2] = Junk, ![Cur.r3] = Junk]
            /\ part' = "miss"
            /\ ip' = 1
            /\ UNCHANGED <<inp, code, stk, mem, out>>

\* STMIA rb, {r0, r1}
ExecStm == /\ RunningOp("stm")
           /\ Store(r[Cur.rb], (0 :> r[0]) @@ (1 :> r[1]))
           /\ UNCHANGED <<inp, code, r, stk>>

ExecStr == /\ RunningOp("str")
           /\ Store(r[Cur.rb], Cur.off :> r[Cur.rt])
           /\ UNCHANGED <<inp, code, r, stk>>

ExecAddSp == /\ RunningOp("addsp")
             /\ Cur.n <= Len(stk)
             /\ stk' = Drop(stk, Cur.n)
             /\ Advance
             /\ UNCHANGED <<inp, code, part, r, mem, out>>

\* B dispatcher_trampoline
ExecToDispatcher == /\ RunningOp("bdisp")
                    /\ Leave([kind |-> "dispatcher", addr |-> Junk])
                    /\ UNCHANGED <<inp, code, r, stk, mem>>

\* LDR pc, saved_pc
ExecBranchLit == /\ RunningOp("brlit")
                 /\ Leave([kind |-> "branch", addr |-> mem[<<"saved_pc", 0>>]])
                 /\ UNCHANGED <<inp, code, r, stk, mem>>

\* The translated code has left to the fragment or the dispatcher.
Done == part = "done" /\ UNCHANGED vars

Next == \/ Scan
        \/ ExecPush \/ ExecPop \/ ExecPopPc \/ ExecLdrSp \/ ExecLdr \/ ExecStrSp
        \/ ExecMov \/ ExecMovImm \/ HashHit \/ HashMiss \/ ExecStm \/ ExecStr
        \/ ExecAddSp \/ ExecToDispatcher \/ ExecBranchLit
        \/ Done

Spec == Init /\ [][Next]_vars
(***************************************************************************)
(* Properties.                                                            *)
(***************************************************************************)
\* While the emitted code runs, sp never rises above where the guest
\* instruction leaves it (scanner_thumb.c: the pushes, pops and the miss
\* path's ADD SP of thumb_inline_hash_lookup): a signal delivered between
\* two emitted instructions writes its frame below sp, and must not
\* overwrite a stack word the guest still owns.
StackNotReleased ==
  part # "scan" => Len(stk) >= Len(GuestResult(inp, InitRegs, InitStack).stk)

\* Every translation of a valid POP {.., pc}, POP.W {.., pc} or
\* [POP;] BX/BLX rm is emitted without an assert firing, and the emitted
\* code (scanner_thumb.c, thumb_inline_hash_lookup and ihl_result_branch)
\* either branches to the code cache copy of the guest's target with every
\* register and the stack as the guest instruction leaves them, or enters
\* the dispatcher with r0 = the target, r1 = the basic block, the guest's
\* r0-r2 in scratch_regs and the guest's r3-r12, lr and stack.
IndirectExitCorrect ==
  part = "done" =>
    LET g == GuestResult(inp, InitRegs, InitStack)
    IN  \/ /\ out.kind = "branch"
           /\ out.addr = Frag(g.target)
           /\ r = g.regs
           /\ stk = g.stk
        \/ /\ out.kind = "dispatcher"
           /\ r[0] = g.target
           /\ r[1] = BbId
           /\ \A k \in 0..2 : mem[<<"scratch_regs", k>>] = g.regs[k]
           /\ \A i \in Regs \ {0, 1, 2} : r[i] = g.regs[i]
           /\ stk = g.stk
====
