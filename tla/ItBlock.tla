------------------------------ MODULE ItBlock ------------------------------
(***************************************************************************)
(* How scan_thumb keeps Thumb IT blocks correct while it changes the code *)
(* inside them: rewriting an instruction into a longer sequence           *)
(* (modify_in_it_pre / modify_in_it_post), plugin callbacks inserting or  *)
(* replacing code (thumb_scanner_deliver_callbacks), and the fragment     *)
(* running out of space (thumb_check_free_space).  The scanner's          *)
(* thumb_it_state is modelled field by field; the emitted code is a       *)
(* sequence of items, and write_p an index into it (writing at write_p    *)
(* overwrites what an earlier, abandoned write left there).               *)
(*                                                                         *)
(* The reference is the architecture: both the guest and the translated   *)
(* code are executed through ITSTATE, and every guest instruction must    *)
(* run under the same condition in both, every inserted item             *)
(* unconditionally.  One plugin is registered (free_plugin = 1); no       *)
(* instruction of the modelled stretch ends the block, so allow_write =   *)
(* !stop is TRUE for both callbacks.                                      *)
(***************************************************************************)
EXTENDS Integers, Sequences, FiniteSets, Bitwise

CONSTANTS
  Guests,       \* the guest instruction sequences to scan (see GuestInst)
  MaxInserts,   \* how many callbacks may insert code in one scan
  MaxSplits,    \* how many times the fragment may run out of space
  MaxReplaces,  \* how many instructions PRE_INST callbacks may replace
  EmptyReplace  \* whether a plugin may replace an instruction by no code

AL == 14
NoCond == -1

\* arm_inverse_cond_code, for the conditions below AL.
Inverse(c) == IF c % 2 = 0 THEN c + 1 ELSE c - 1

Bit(x, i) == shiftR(x, i) % 2
Shl(x, i, w) == (x * 2^i) % 2^w

\* The length of an IT block, from the position of the mask's last 1.
it_get_no_of_inst(mask) ==
  CASE Bit(mask, 0) = 1 -> 4 [] Bit(mask, 1) = 1 -> 3 [] Bit(mask, 2) = 1 -> 2 [] OTHER -> 1

\* The mask of an IT block cut to its first len instructions (it_clip_len).
ClipLen(mask, len) ==
  CASE len = 1 -> 8
    [] len = 2 -> (mask & 8) | 4
    [] len = 3 -> (mask & 12) | 2
    [] len = 4 -> (mask & 14) | 1

\* Architectural ITSTATE: the conditions of the instructions an IT
\* <cond, mask> covers (the mask bits are the low bit of each condition).
ItConds(cond, mask) ==
  [j \in 1..it_get_no_of_inst(mask) |->
     IF j = 1 THEN cond ELSE (cond - (cond % 2)) + Bit(mask, 5 - j)]

(***************************************************************************)
(* Code items.  A guest instruction is an IT or an ordinary instruction   *)
(* the scanner either copies or rewrites into a PC-free sequence.  The    *)
(* emitted items are IT instructions, translated guest instructions "g",  *)
(* the B<c> over a rewritten sequence "skip", plugin code "p", and the    *)
(* branch to a new block "b".                                             *)
(***************************************************************************)
Item(t, c, m, k) == [t |-> t, cond |-> c, mask |-> m, k |-> k]
ITItem(c, m) == Item("it", c, m, 0)
GItem(k) == Item("g", AL, 0, k)
SkipItem(c) == Item("skip", c, 0, 0)
PItem == Item("p", AL, 0, 0)
BItem == Item("b", AL, 0, 0)

\* The ITSTATE in force before item i of code c.
RECURSIVE ItStateBefore(_, _)
ItStateBefore(c, i) ==
  IF i = 1 THEN <<>>
  ELSE LET prev == ItStateBefore(c, i - 1)
       IN  IF c[i - 1].t = "it" THEN ItConds(c[i - 1].cond, c[i - 1].mask)
           ELSE IF prev = <<>> THEN <<>> ELSE Tail(prev)

\* The condition item i of code c executes under.
ExecCond(c, i) == LET st == ItStateBefore(c, i) IN IF st = <<>> THEN AL ELSE Head(st)

(***************************************************************************)
(* Scanner state: thumb_it_state, the code, write_p, and whether a        *)
(* while(1) / failed assert stopped the scanner.                          *)
(***************************************************************************)
VARIABLES
  guest,     \* the guest instructions being scanned
  k,         \* index of the instruction being scanned
  step,      \* where in the scan loop: pre, body, tail, post, done, hang
  s,         \* [it, out, wp, hang]
  skip,      \* skip_inst: the PRE_INST callback replaced the instruction
  replaced,  \* the guest instructions replaced by a plugin
  seen,      \* the condition each callback reported, per instruction
  used       \* insertions, splits and replacements used so far

vars == <<guest, k, step, s, skip, replaced, seen, used>>

NoIt == [count |-> 0, cond |-> AL, mask |-> 0, init |-> 0, addr |-> 0, over |-> FALSE]

Put(o, p, x) == IF p <= Len(o) THEN [o EXCEPT ![p] = x] ELSE Append(o, x)

\* Write an item at write_p and advance it.
Emit(st, x) == [st EXCEPT !.out = Put(st.out, st.wp, x), !.wp = st.wp + 1]

\* thumb_it16 at an earlier address (the IT at it_inst_addr).
WriteAt(st, p, x) == [st EXCEPT !.out[p] = x]

\* A faulty variant of do_it_iter: the count is decremented unguarded.
do_it_iter_unguarded(st) ==
  [st EXCEPT !.it.count = @ - 1, !.it.mask = Shl(@, 1, 6)]

\* do_it_iter: one instruction of the IT block done.
do_it_iter(st) ==
  IF st.it.count > 0
  THEN [st EXCEPT !.it.count = @ - 1, !.it.mask = Shl(@, 1, 6)]
  ELSE st

\* create_it_gap: cut the IT at it_inst_addr after the instructions already
\* emitted; with none emitted, take the IT back (it must be the last item).
create_it_gap(st) ==
  LET it == st.it
      done == it_get_no_of_inst(it.init) - it.count
  IN  IF it.count > 0 /\ ~it.over
      THEN IF done > 0 THEN WriteAt(st, it.addr, ITItem(it.cond, ClipLen(it.init, done)))
           ELSE IF it.addr = st.wp - 1 THEN [st EXCEPT !.wp = it.addr, !.it.over = TRUE]
           ELSE [st EXCEPT !.hang = TRUE]
      ELSE st

\* A faulty variant of close_it_gap: the reopened IT keeps the first
\* condition even when the next instruction is an "else".
close_it_gap_no_invert(st) ==
  LET it == st.it
      off == it_get_no_of_inst(it.init) - it.count
      m == IF off > 0 THEN Shl(it.init, off, 4) ELSE it.init
  IN  IF it.count = 0 THEN st
      ELSE IF off < 0 \/ off >= it_get_no_of_inst(it.init) THEN [st EXCEPT !.hang = TRUE]
      ELSE [Emit(st, ITItem(it.cond, m)) EXCEPT !.it.init = m,
                                               !.it.addr = st.wp, !.it.over = FALSE]

\* close_it_gap / it_clip_from_offset: a new IT for the instructions left,
\* its condition inverted when the next one is an "else".
close_it_gap(st) ==
  LET it == st.it
      off == it_get_no_of_inst(it.init) - it.count
      flip == off > 0 /\ Bit(it.init, 4 - off) # it.cond % 2
      c == IF flip THEN Inverse(it.cond) ELSE it.cond
      m == IF off > 0 THEN Shl(it.init, off, 4) ELSE it.init
  IN  IF it.count = 0 THEN st
      ELSE IF off < 0 \/ off >= it_get_no_of_inst(it.init) THEN [st EXCEPT !.hang = TRUE]
      ELSE [Emit(st, ITItem(c, m)) EXCEPT !.it.cond = c, !.it.init = m,
                                          !.it.addr = st.wp, !.it.over = FALSE]

\* thumb_check_free_space when a new, not adjacent, block is needed: branch
\* to it, closing the IT block before the branch and reopening it after.
\* (An adjacent block, or enough room, leaves the code unchanged.)
thumb_check_free_space(st, handle_it, split) ==
  LET gap == handle_it /\ st.it.count > 0
      s1 == IF gap THEN create_it_gap(st) ELSE st
      s2 == Emit(s1, BItem)
  IN  IF ~split THEN st ELSE IF gap THEN close_it_gap(s2) ELSE s2

\* modify_in_it_pre: end the IT block before the instruction (take the IT
\* back if it is the last item, else cut it), then a B<c> over the sequence
\* that replaces the instruction.
modify_in_it_pre(st) ==
  LET it == st.it
      keep == it_get_no_of_inst(it.init) - it.count
      same == Bit(it.mask, 5) = it.cond % 2
      s1 == IF st.wp = it.addr + 1 THEN [st EXCEPT !.wp = @ - 1]
            ELSE IF keep \in 1..4
            THEN [WriteAt(st, it.addr, ITItem(it.cond, ClipLen(it.init, keep)))
                    EXCEPT !.it.init = ClipLen(it.init, keep)]
            ELSE [st EXCEPT !.hang = TRUE]
  IN  IF it.count = 0 THEN st
      ELSE Emit(s1, SkipItem(IF same THEN Inverse(it.cond) ELSE it.cond))

\* modify_in_it_post: a new IT for the instructions after this one.
modify_in_it_post(st) ==
  LET it == st.it
      same == Bit(it.mask, 4) = it.cond % 2
      m0 == it.mask % 16
      m == IF same THEN m0
           ELSE CASE it.count - 1 = 3 -> (m0 & 12) | 2
                  [] it.count - 1 = 2 -> (m0 & 8) | 4
                  [] OTHER            -> 8
      c == IF same THEN it.cond ELSE Inverse(it.cond)
  IN  IF it.count <= 1 THEN st
      ELSE [Emit(st, ITItem(c, m)) EXCEPT !.it.init = m, !.it.cond = c, !.it.addr = st.wp]

\* The case of scan_thumb for guest instruction j, then the loop's
\* do_it_iter.  THUMB_IT16 sets up thumb_it_state and copies the IT.
ScanInst(st, j) ==
  LET x == guest[j]
      n == it_get_no_of_inst(x.mask)
      s1 == CASE x.t = "it" ->
                   [Emit(st, ITItem(x.cond, x.mask)) EXCEPT
                      !.it = [st.it EXCEPT !.count = n + 1, !.addr = st.wp, !.cond = x.cond,
                                           !.mask = x.mask | ((x.cond % 2) * 16), !.init = x.mask]]
              [] x.t = "copy" -> Emit(st, GItem(j))
              [] x.t = "rewrite" -> modify_in_it_post(Emit(modify_in_it_pre(st), GItem(j)))
  IN  do_it_iter(s1)

\* A faulty variant of CbCond: the IT's first condition for every
\* instruction of the block, "else" ones included.
CbCondNoElse(it) == IF it.count = 0 THEN AL ELSE it.cond

\* The condition thumb_scanner_deliver_callbacks reports to the plugin.
CbCond(it) ==
  IF it.count = 0 THEN AL
  ELSE IF Bit(it.mask, 5) = it.cond % 2 THEN it.cond ELSE Inverse(it.cond)

\* thumb_scanner_deliver_callbacks for one plugin that inserts code (ins),
\* asks to replace the instruction (rep, honoured for PRE_INST only), and
\* after which the fragment may run out of space (split).
DeliverCallbacks(st, cb, ins, rep, split) ==
  LET it == st.it
      replaced_ == rep /\ cb = "pre"
      w0 == IF it.count > 0 /\ it.addr = st.wp - 1
            THEN [st EXCEPT !.wp = @ - 1, !.it.over = TRUE] ELSE st
      w1 == IF ins THEN Emit(w0, PItem) ELSE w0
      w2 == thumb_check_free_space(w1, FALSE, split)
      gap == create_it_gap(w2)
      w3 == IF it.count = 0 THEN w2
            ELSE IF w2.wp # w0.wp
                 THEN close_it_gap(IF replaced_ THEN do_it_iter(gap) ELSE gap)
            ELSE IF w2.it.over THEN [w2 EXCEPT !.wp = @ + 1, !.it.over = FALSE]
            ELSE w2
  IN  [st |-> w3, replaced |-> replaced_, cond |-> CbCond(it)]

(***************************************************************************)
(* The scan loop of scan_thumb over the guest instructions: PRE_INST      *)
(* callbacks, the instruction's case (skipped when replaced) with the     *)
(* loop's do_it_iter, thumb_check_free_space, POST_INST callbacks.        *)
(***************************************************************************)
B2N(b) == IF b THEN 1 ELSE 0

Init ==
  /\ guest \in Guests
  /\ k = 1
  /\ step = "pre"
  /\ s = [it |-> NoIt, out |-> <<>>, wp |-> 1, hang |-> FALSE]
  /\ skip = FALSE
  /\ replaced = {}
  /\ seen = [c \in {"pre", "post"} |-> [j \in DOMAIN guest |-> NoCond]]
  /\ used = [ins |-> 0, split |-> 0, rep |-> 0]

PreInst ==
  /\ step = "pre"
  /\ \E ins \in BOOLEAN, rep \in BOOLEAN, split \in BOOLEAN :
       /\ ins => used.ins < MaxInserts
       /\ rep => used.rep < MaxReplaces /\ guest[k].t # "it" /\ (ins \/ EmptyReplace)
       /\ split => used.split < MaxSplits
       /\ LET r == DeliverCallbacks(s, "pre", ins, rep, split)
          IN  /\ s' = r.st
              /\ skip' = r.replaced
              /\ replaced' = IF r.replaced THEN replaced \cup {k} ELSE replaced
              /\ seen' = [seen EXCEPT !.pre[k] = r.cond]
              /\ used' = [ins |-> used.ins + B2N(ins), split |-> used.split + B2N(split),
                          rep |-> used.rep + B2N(rep)]
              /\ step' = IF r.st.hang THEN "hang" ELSE "body"
  /\ UNCHANGED <<guest, k>>

ScanInstruction ==
  /\ step = "body"
  /\ s' = IF skip THEN s ELSE ScanInst(s, k)
  /\ step' = IF s'.hang THEN "hang" ELSE "tail"
  /\ UNCHANGED <<guest, k, skip, replaced, seen, used>>

FreeSpace ==
  /\ step = "tail"
  /\ \E split \in BOOLEAN :
       /\ split => used.split < MaxSplits
       /\ s' = thumb_check_free_space(s, TRUE, split)
       /\ used' = [used EXCEPT !.split = @ + B2N(split)]
  /\ step' = IF s'.hang THEN "hang" ELSE "post"
  /\ UNCHANGED <<guest, k, skip, replaced, seen>>

PostInst ==
  /\ step = "post"
  /\ \E ins \in BOOLEAN, split \in BOOLEAN :
       /\ ins => used.ins < MaxInserts
       /\ split => used.split < MaxSplits
       /\ LET r == DeliverCallbacks(s, "post", ins, FALSE, split)
          IN  /\ s' = r.st
              /\ seen' = [seen EXCEPT !.post[k] = r.cond]
              /\ used' = [used EXCEPT !.ins = @ + B2N(ins), !.split = @ + B2N(split)]
              /\ step' = IF r.st.hang THEN "hang" ELSE IF k = Len(guest) THEN "done" ELSE "pre"
  /\ k' = k + 1
  /\ UNCHANGED <<guest, skip, replaced>>

Next == PreInst \/ ScanInstruction \/ FreeSpace \/ PostInst

\* The scan is one sequential loop; it ends (done) or spins (hang).
Spec == Init /\ [][Next]_vars

(***************************************************************************)
(* Properties.                                                            *)
(***************************************************************************)
Code == SubSeq(s.out, 1, s.wp - 1)

\* The condition guest instruction j runs under natively.
GuestCond(j) == ExecCond(guest, j)

\* A translated instruction after a "skip" runs when the B<c> is not taken.
Effective(c, i) ==
  IF i > 1 /\ c[i - 1].t = "skip"
  THEN IF ExecCond(c, i) = AL THEN Inverse(c[i - 1].cond) ELSE NoCond
  ELSE ExecCond(c, i)

\* The scan state keeps its types: cond_inst_after_it never goes below 0
\* or above an IT block and its own IT, write_p stays within the code.
TypeOK ==
  /\ k \in 1..(Len(guest) + 1)
  /\ step \in {"pre", "body", "tail", "post", "done", "hang"}
  /\ s.it.count \in 0..5
  /\ s.wp \in 1..(Len(s.out) + 1)
  /\ skip \in BOOLEAN
  /\ replaced \subseteq DOMAIN guest
  /\ used.ins \in 0..MaxInserts /\ used.split \in 0..MaxSplits /\ used.rep \in 0..MaxReplaces

\* The fragment scan_thumb emits runs every guest instruction it did not
\* let a plugin replace exactly once and under the condition the guest's IT
\* block gives it; every IT, skip branch, plugin code and block-to-block
\* branch it adds runs unconditionally; no IT block leaks past the code; and
\* the scanner never spins in one of its "check me" loops or asserts.
ItCorrect ==
  /\ step # "hang"
  /\ step = "done" =>
       LET c == Code
       IN  /\ \A i \in 1..Len(c) :
                IF c[i].t = "g" THEN Effective(c, i) = GuestCond(c[i].k)
                ELSE ExecCond(c, i) = AL
           /\ ItStateBefore(c, Len(c) + 1) = <<>>
           /\ \A j \in DOMAIN guest :
                (guest[j].t # "it" /\ j \notin replaced) =>
                  Cardinality({i \in 1..Len(c) : c[i] = GItem(j)}) = 1

\* The condition a PRE_INST callback is given (mambo_get_cond) is the one
\* the instruction it is about runs under.
PreCallbackCond ==
  \A j \in DOMAIN guest : seen.pre[j] # NoCond => seen.pre[j] = GuestCond(j)

\* The same for POST_INST callbacks.
PostCallbackCond ==
  \A j \in DOMAIN guest : seen.post[j] # NoCond => seen.post[j] = GuestCond(j)
====
