------------------------------- MODULE CopyProp -------------------------------
(***************************************************************************)
(* Copy propagation outside SSA form (opt/copyprop.c) and the forward data *)
(* flow problem it shares with lazy code motion (compute_available,        *)
(* opt/lcm.c).  A copy is identified by the number of its move.            *)
(***************************************************************************)
EXTENDS Names

InnerBlocks(p) == Blocks(p) \ {Entry, Exit}
Uids(insns) == {insn.uid : insn \in ToSet(insns)}
AllInsns(p) == ToSet(Code(p))

\* compute_available: what is available at the start of a block is available at
\* the end of every block before it, nothing is where the function begins.
\* Greatest solution.
AvailIn(p, out, ones, b) ==
  LET from == ToSet(p.preds[b]) \ {Entry} IN
  IF b \in ToSet(p.succs[Entry]) \cup {Entry, Exit} THEN {}
  ELSE {n \in ones : \A a \in from : n \in out[a]}
AvailOut(p, ones, avloc, kill) ==
  LET step(out) == [b \in Block |-> IF b \notin InnerBlocks(p) THEN ones
                      ELSE Listed(avloc[b] \cup (AvailIn(p, out, ones, b) \ kill[b]))]
      shrink[out \in [Block -> SUBSET Nat]] == IF step(out) = out THEN out ELSE shrink[step(out)]
  IN shrink[[b \in Block |-> ones]]

-----------------------------------------------------------------------------
\* Assignments that read or write v: _uses and _defines.
Mentions(p, v) == {insn.uid : insn \in {i \in AllInsns(p) : i.def = v \/ v \in ToSet(i.use)}}

\* compute_local_properties.  From the last instruction on, one clears every
\* assignment that mentions what it writes, except those already passed.
Killed(p, b) == UNION {Mentions(p, v) : v \in Defs(p.insns[b])}
Clears(p, insns, i) ==
  Mentions(p, insns[i].def) \ {insns[j].uid : j \in {k \in (i + 1)..Len(insns) : insns[k].def # NoVar}}
Computed(p, b, ones) ==
  LET insns == p.insns[b] IN
  (ones \cap Uids(insns)) \ UNION {Clears(p, insns, i) : i \in {j \in DOMAIN insns : insns[j].def # NoVar}}

Assignments(p) ==
  {insn.uid : insn \in {i \in AllInsns(p) :
     i.op = "move" \/ (i.op = "load" /\ IsConst(i.use[1]))}}

\* find_avail_set: the pairs <<x, y>> of the available copies, x once.
AvailPairs(p, in) ==
  LET copies == SelectSeq(Code(p), LAMBDA i : i.uid \in in) IN
  {<<i.def, i.use[1]>> : i \in {c \in ToSet(copies) : \A d \in ToSet(copies) :
     d.def = c.def => d.uid =< c.uid}}

\* do_local_copyprop: an operand that is a copy reads the original; a definition
\* ends the pairs it is part of, a move begins one.
Original(pairs, v) ==
  IF \E c \in pairs : c[1] = v THEN (CHOOSE c \in pairs : c[1] = v)[2] ELSE v
StillCopies(pairs, v) == {c \in pairs : c[1] # v /\ c[2] # v}
LocalCopyProp(insns, avail) ==
  FoldLeft(LAMBDA s, insn :
      LET new == [insn EXCEPT !.use = [k \in DOMAIN @ |-> Original(s.pairs, @[k])]]
          left == StillCopies(s.pairs, insn.def)
      IN [code |-> Append(s.code, new),
          pairs |-> IF insn.op = "move" THEN left \cup {<<new.def, new.use[1]>>} ELSE left],
    [code |-> <<>>, pairs |-> avail], insns).code

OneCopyPropPass(p) ==
  LET ones == Assignments(p)
      avloc == [b \in Block |-> Computed(p, b, ones)]
      kill == [b \in Block |-> Killed(p, b)]
      out == AvailOut(p, ones, avloc, kill)
  IN [p EXCEPT !.insns = [b \in Block |->
        LocalCopyProp(p.insns[b], AvailPairs(p, AvailIn(p, out, ones, b)))]]

\* copyprop: until nothing changes.
CopyPropagation(p) ==
  LET pass[q \in Program] == LET r == OneCopyPropPass(q) IN IF r = q THEN q ELSE pass[r]
  IN pass[p]
=============================================================================
