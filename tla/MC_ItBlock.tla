----------------------------- MODULE MC_ItBlock -----------------------------
(***************************************************************************)
(* Guests for ItBlock: one IT block of every mask (1 to 4 instructions,    *)
(* every then/else pattern), under EQ and NE (both values of the          *)
(* condition's low bit), each instruction copied or rewritten, then one   *)
(* instruction after the block.                                          *)
(***************************************************************************)
EXTENDS ItBlock

Kinds == {"copy", "rewrite"}

Inst(kind) == Item(kind, AL, 0, 0)

OneBlock(c, m, ks) ==
  <<ITItem(c, m)>> \o [j \in DOMAIN ks |-> Inst(ks[j])] \o <<Inst("copy")>>

MCGuests ==
  UNION {{OneBlock(c, m, ks) : ks \in [1..it_get_no_of_inst(m) -> Kinds]} :
           c \in {0, 1}, m \in 1..15}

\* Two IT blocks in one scan, so that thumb_it_state carries over: a
\* one-instruction block, then a block of every mask, all copied.
TwoBlocks(c, m) ==
  <<ITItem(0, 8), Inst("copy"), ITItem(c, m)>>
    \o [j \in 1..it_get_no_of_inst(m) |-> Inst("copy")] \o <<Inst("copy")>>

MCGuestsTwo == {TwoBlocks(c, m) : c \in {0, 1}, m \in 1..15}
====
