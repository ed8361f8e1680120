-------------------------------- MODULE Names --------------------------------
(***************************************************************************)
(* What the optimisation passes share: the names operands have, the node   *)
(* set that collects them (IR/varpool.c), inserting instructions           *)
(* (IR/IRCode.c) and live variables (compute_liveness, IR/cfg.c).          *)
(***************************************************************************)
EXTENDS IR, TLC

\* f itself: TLC would calculate a value of it again at every look.
Tabled(f) == f @@ [x \in {} |-> 0]

\* A local or global lives in memory and is read by load and written by store; a
\* temp is like a register.  The number of a constant is its value, that of a
\* global, up to whole words, its initial value.
Name == [kind : {"temp", "local", "global", "const"}, uid : Nat, ver : Nat]

Const(n) == [kind |-> "const", uid |-> n, ver |-> 0]
IsConst(v) == v.kind = "const"
IsLocal(v) == v.kind = "local"
IsGlobal(v) == v.kind = "global"
Symbol(v) == [kind |-> v.kind, uid |-> v.uid]
NameValue(v) == IF IsConst(v) \/ IsGlobal(v) THEN v.uid % Width ELSE 0

\* compare_varpool_node
Before(v, w) ==
  IF IsConst(v) # IsConst(w) THEN IsConst(w)
  ELSE \/ v.uid < w.uid
       \/ v.uid = w.uid /\ v.ver < w.ver

-----------------------------------------------------------------------------
Blocks(p) == ToSet(p.order)
Code(p) == FlattenSeq([i \in DOMAIN p.order |-> p.insns[p.order[i]]])
Operands(insn) == (IF insn.def = NoVar THEN <<>> ELSE <<insn.def>>) \o insn.use
Defs(insns) == {insn.def : insn \in ToSet(insns)} \ {NoVar}

\* varpool_node_set_new: the names in the order they are met; a node's number is
\* its place.
NodeSet(p) ==
  LET all == FlattenSeq([i \in DOMAIN p.order |->
               FlattenSeq([j \in DOMAIN p.insns[p.order[i]] |-> Operands(p.insns[p.order[i]][j])])])
      first == SelectSeq([i \in DOMAIN all |-> i], LAMBDA i : \A j \in 1..(i - 1) : all[j] # all[i])
  IN [n \in DOMAIN first |-> all[first[n]]]
NodeAdd(set, v) == IF v \in ToSet(set) THEN set ELSE Append(set, v)
Uid(set, v) == CHOOSE i \in DOMAIN set : set[i] = v

Largest(S) == IF S = {} THEN 0 ELSE Max(S)
\* stDeclareSym: a number no name of the function has.
NewSymbol(p) == 1 + Largest({v.uid : v \in {w \in ToSet(NodeSet(p)) : ~ IsConst(w)}})

Insert(op, d, u) == [uid |-> 0, op |-> op, def |-> d, use |-> u, lit |-> 0, to |-> <<>>]
BeforeLast(insns, new) == Front(insns) \o new \o <<Last(insns)>>
InsertBefore(p, b, i, new) == [p EXCEPT !.insns[b] = SubSeq(@, 1, i - 1) \o new \o SubSeq(@, i, Len(@))]

\* Instructions get their numbers when they are added; only that they differ
\* matters between passes.
CodeBefore(p, b) ==
  Len(FlattenSeq([i \in 1..(Uid(p.order, b) - 1) |-> p.insns[p.order[i]]]))
Numbered(p) ==
  [p EXCEPT !.insns = [b \in Block |-> [i \in DOMAIN p.insns[b] |->
     [p.insns[b][i] EXCEPT !.uid = i + CodeBefore(p, b)]]]]

\* alloc_block and link_block: a new block at the end of the list, with one jump.
NewBlock(p) == CHOOSE b \in Block \ Blocks(p) : \A c \in Block \ Blocks(p) : b =< c
Linked(p, b, d) == [p EXCEPT !.order = Append(@, b), !.insns[b] = <<Goto(d)>>]

-----------------------------------------------------------------------------
\* compute_liveness: the variables live into the blocks, least solution.
Upward(insns) ==
  FoldRight(LAMBDA insn, live : (live \ {insn.def}) \cup ToSet(insn.use), insns, {})
LiveIn(p) ==
  LET gen == Tabled([b \in Block |-> Upward(p.insns[b])])
      kill == Tabled([b \in Block |-> Defs(p.insns[b])])
      step(L) == Tabled([b \in Block |-> gen[b] \cup
                    (UNION {L[c] : c \in ToSet(p.succs[b])} \ kill[b])])
      grow[L \in [Block -> SUBSET Name]] ==
        LET next == step(L) IN IF next = L THEN L ELSE grow[next]
  IN grow[gen]
LiveOut(p, in, b) == UNION {in[c] : c \in ToSet(p.succs[b])}

-----------------------------------------------------------------------------
\* Every name has at most one definition, which is executed before its uses:
\* what build_ssa makes and every pass on SSA form relies on.
SsaForm(p) ==
  LET dom == Dominators(p, p.preds, Entry)
      at == {<<b, i>> : b \in Blocks(p), i \in 1..Largest({Len(p.insns[c]) : c \in Blocks(p)})}
      places == {x \in at : x[2] =< Len(p.insns[x[1]])}
      insn(x) == p.insns[x[1]][x[2]]
      defines(v) == {x \in places : insn(x).def = v}
      above(x, y) == IF x[1] = y[1] THEN x[2] < y[2] ELSE <<y[1], x[1]>> \in dom
      uses(y) == {<<insn(y).use[k],
                    IF insn(y).op = "phi"
                    THEN LET a == p.preds[y[1]][k] IN <<a, Len(p.insns[a]) + 1>> ELSE y>> :
                    k \in DOMAIN insn(y).use}
  IN \A y \in places :
       /\ insn(y).def # NoVar => defines(insn(y).def) = {y}
       /\ \A u \in uses(y) : \A x \in defines(u[1]) : above(x, u[2])
=============================================================================
