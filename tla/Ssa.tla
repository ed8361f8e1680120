--------------------------------- MODULE Ssa ---------------------------------
(***************************************************************************)
(* Into and out of SSA form (opt/ssa.c).  build_ssa puts phis where values *)
(* of a live variable meet and numbers the versions along the dominator    *)
(* tree.  remove_ssa_form schedules the copies the phis stand for, edge by *)
(* edge, and gives every version a variable of its own; rewrite_out_of_ssa *)
(* merges the versions of a variable again.                                *)
(* The functions that come here have no calls left, so the versions a call *)
(* gives to the globals it may write are left out.                         *)
(***************************************************************************)
EXTENDS Names

\* adjvex of every block but entry.
Idom(p) == LET dom == Dominators(p, p.preds, Entry)
           IN Tabled([b \in Blocks(p) \ {Entry} |-> ImmediateDominator(b, dom)])

\* Blocks a depth-first walk down the dominator tree meets, children in list order.
Children(p, idom, b) == SelectSeq(p.order, LAMBDA c : c # Entry /\ idom[c] = b)
TreeOrder(p, idom) ==
  LET walk[b \in Block] == FoldLeft(LAMBDA met, c : met \o walk[c], <<b>>, Children(p, idom, b))
  IN walk[Entry]

\* compute_dominance_frontiers: <<a, b>> when b is in the frontier of a.
Frontier(p, idom) ==
  LET climb(a, top) == LET up[b \in Block] == IF b = top THEN {} ELSE {b} \cup up[idom[b]]
                       IN up[a]
      joins == {b \in Blocks(p) : Len(p.preds[b]) >= 2}
  IN UNION {UNION {climb(a, idom[b]) \X {b} : a \in ToSet(p.preds[b]) \ {Entry}} : b \in joins}

-----------------------------------------------------------------------------
\* Blocks where a phi for v is inserted: the frontiers of its definitions, phis
\* included, as far as v is live.
MutantFrontierOnce(p, frontier, in, v) ==
  {x[2] : x \in {y \in frontier : v \in Defs(p.insns[y[1]]) /\ v \in in[y[2]]}}
PhiBlocks(p, frontier, in, v) ==
  LET sites == {b \in Blocks(p) : v \in Defs(p.insns[b])}
      more(S) == {x[2] : x \in {y \in frontier : y[1] \in sites \cup S /\ v \in in[y[2]]}}
      grow[S \in SUBSET Block] == IF more(S) = S THEN S ELSE grow[more(S)]
  IN grow[{}]

\* insert_phi_nodes: one variable after the other, each phi at the front.
WithPhis(p, idom) ==
  LET in == LiveIn(p)
      frontier == Frontier(p, idom)
      vars == SelectSeq(NodeSet(p), LAMBDA v : v \in Defs(Code(p)))
      where == Tabled([v \in ToSet(vars) |-> PhiBlocks(p, frontier, in, v)])
      phis(b) == Reverse(SelectSeq(vars, LAMBDA v : b \in where[v]))
      phi(b, v) == Insert("phi", v, [i \in DOMAIN p.preds[b] |-> v])
  IN [p EXCEPT !.insns = Tabled([b \in Block |->
        IF b \in Blocks(p) THEN [i \in DOMAIN phis(b) |-> phi(b, phis(b)[i])] \o p.insns[b]
        ELSE <<>>])]

\* rewrite_blocks: a definition gets the next version of its variable, in the
\* order of the walk; a use the version on top of the stack, which is that of the
\* nearest definition up the tree.  A phi takes an argument for the first edge
\* from a block.
Versioned(v, n) == IF IsConst(v) THEN v ELSE [v EXCEPT !.ver = n]
Versions(q, tree) ==
  LET rank == Tabled([b \in ToSet(tree) |-> Uid(tree, b)])
      places == UNION {{b} \X DOMAIN q.insns[b] : b \in ToSet(tree)}
      def(x) == q.insns[x[1]][x[2]].def
      sites == {x \in places : def(x) # NoVar}
      upTo(x, y) == rank[x[1]] < rank[y[1]] \/ (x[1] = y[1] /\ x[2] =< y[2])
  IN Tabled([y \in sites |-> Cardinality({x \in sites : Symbol(def(x)) = Symbol(def(y)) /\ upTo(x, y)})])
RenamedBlocks(q, idom, version) ==
  LET top[x \in Block \X Nat \X Name] ==
        LET here == {i \in 1..(x[2] - 1) : q.insns[x[1]][i].def = x[3]}
        IN IF here # {} THEN version[<<x[1], Max(here)>>]
           ELSE IF x[1] = Entry THEN 0
           ELSE top[<<idom[x[1]], Len(q.insns[idom[x[1]]]) + 1, x[3]>>]
      argument(b, k, v) ==
        LET a == q.preds[b][k] IN
        IF \E j \in 1..(k - 1) : q.preds[b][j] = a THEN 0
        ELSE top[<<a, Len(q.insns[a]) + 1, v>>]
      use(b, i, k) == LET v == q.insns[b][i].use[k] IN
        Versioned(v, IF q.insns[b][i].op = "phi" THEN argument(b, k, v) ELSE top[<<b, i, v>>])
      rename(b, i) == [q.insns[b][i] EXCEPT
        !.def = IF @ = NoVar THEN @ ELSE Versioned(@, version[<<b, i>>]),
        !.use = [k \in DOMAIN @ |-> use(b, i, k)]]
  IN [q EXCEPT !.insns = [b \in Block |-> [i \in DOMAIN q.insns[b] |-> rename(b, i)]]]
RewriteBlocks(q, idom) == RenamedBlocks(q, idom, Versions(q, TreeOrder(q, idom)))

InSsaForm(p, idom) == RewriteBlocks(WithPhis(p, idom), idom)
BuildSsa(p) == InSsaForm(p, Idom(p))

-----------------------------------------------------------------------------
\* The state of insert_copies: the function, the node set, Stacks, the next
\* symbol, and the destinations saved so far in this block.
CopyState(p) == [p |-> p, set |-> NodeSet(p), stacks |-> [v \in ToSet(NodeSet(p)) |-> <<>>],
                 next |-> NewSymbol(p), pushed |-> {}]
Stack(s, v) == IF v \in DOMAIN s.stacks THEN s.stacks[v] ELSE <<>>
Temp(n) == [kind |-> "temp", uid |-> n, ver |-> 1]

\* emit_copy_insn, before the i-th instruction of b.
CopyInsns(dst, src, t) ==
  IF IsLocal(dst) /\ IsLocal(src)
  THEN <<Insert("load", t, <<src>>), Insert("store", dst, <<t>>)>>
  ELSE <<Insert(IF IsLocal(src) \/ IsConst(src) THEN "load"
                ELSE IF IsLocal(dst) THEN "store" ELSE "move", dst, <<src>>)>>
EmitCopy(s, b, i, dst, src) ==
  [s EXCEPT !.p = InsertBefore(@, b, i, CopyInsns(dst, src, Temp(s.next))),
            !.set = IF IsLocal(dst) /\ IsLocal(src) THEN NodeAdd(@, Temp(s.next)) ELSE @,
            !.next = @ + 1]
\* With no destination given it copies to a new temp.
EmitTemp(s, b, i, src) ==
  LET t == Temp(s.next) IN
  EmitCopy([s EXCEPT !.set = NodeAdd(@, t), !.next = @ + 1], b, i, t, src)
Bottom(s, b) == Len(s.p.insns[b])

\* The value of a phi that is still live where it is assigned is saved in a temp
\* at the phi, for the blocks below.
SaveAtPhi(s, dest) ==
  LET at == CHOOSE x \in UNION {{c} \X DOMAIN s.p.insns[c] : c \in Blocks(s.p)} :
              s.p.insns[x[1]][x[2]].op = "phi" /\ s.p.insns[x[1]][x[2]].def = dest
      saved == EmitTemp(s, at[1], at[2], dest)
  IN [saved EXCEPT !.stacks = (dest :> Append(Stack(s, dest), Temp(s.next))) @@ @,
                   !.pushed = @ \cup {dest}]

FirstPair(S) == CHOOSE c \in S : \A d \in S : c[1] < d[1] \/ (c[1] = d[1] /\ c[2] =< d[2])

\* The copies <<src, dest>> at the end of b, by node numbers.
PhiCopies(s, b) ==
  UNION {LET c == s.p.succs[b][i]
             k == Nth(s.p.preds[c], b, 1)
             phis == SelectSeq(s.p.insns[c], LAMBDA insn : insn.op = "phi")
         IN {<<Uid(s.set, phis[j].use[k]), Uid(s.set, phis[j].def)>> : j \in DOMAIN phis} :
         i \in DOMAIN s.p.succs[b]}

\* Pass Three of schedule_copies.  w: the state s, the copies not begun, the
\* worklist, and map: where the value of a node is now.
OneCopy(w, b, live) ==
  LET c == FirstPair(w.work)
      dest == w.s.set[c[2]]
      t == IF dest \in live THEN SaveAtPhi(w.s, dest) ELSE w.s
  IN [s |-> EmitCopy(t, b, Bottom(t, b), dest, t.set[w.map[c[1]]]),
      copies |-> w.copies,
      work |-> (w.work \ {c}) \cup {d \in w.copies : d[2] = c[1] /\ d[1] # d[2]},
      map |-> [w.map EXCEPT ![c[1]] = c[2]]]
BreakCycle(w, b) ==
  LET c == FirstPair(w.copies)
      t == EmitTemp(w.s, b, Bottom(w.s, b), w.s.set[c[2]])
  IN [s |-> t, copies |-> w.copies \ {c}, work |-> {c},
      map |-> (c[2] :> Uid(t.set, Temp(w.s.next))) @@ w.map]

RECURSIVE Scheduled(_, _, _)
Scheduled(w, b, live) ==
  IF w.work # {} THEN Scheduled(OneCopy(w, b, live), b, live)
  ELSE IF w.copies # {} THEN Scheduled(BreakCycle(w, b), b, live)
  ELSE w.s

ScheduleCopies(s, b, live) ==
  LET all == PhiCopies(s, b)
      free == {c \in all : \A d \in all : d[1] # c[2]}
      nodes == {c[1] : c \in all} \cup {c[2] : c \in all}
  IN Scheduled([s |-> s, copies |-> all \ free, work |-> free, map |-> [n \in nodes |-> n]],
               b, live)

\* insert_copies: uses read the saved values, the copies of the block are
\* scheduled, then the blocks below in the tree; what was saved is popped.
Reads(s, insn) ==
  IF insn.uid = 0 THEN insn
  ELSE [insn EXCEPT !.use = [k \in DOMAIN @ |->
          IF Stack(s, @[k]) = <<>> THEN @[k] ELSE Last(Stack(s, @[k]))]]
RECURSIVE InsertCopies(_, _, _, _)
InsertCopies(s, b, idom, in) ==
  LET read == [s EXCEPT !.pushed = {},
                 !.p.insns[b] = [i \in DOMAIN @ |-> Reads(s, @[i])]]
      here == ScheduleCopies(read, b, LiveOut(s.p, in, b))
      below == FoldLeft(LAMBDA t, c : InsertCopies(t, c, idom, in), here,
                        Children(s.p, idom, b))
  IN [below EXCEPT !.stacks = [v \in DOMAIN @ |->
        IF v \in here.pushed THEN Front(@[v]) ELSE @[v]], !.pushed = {}]

WithoutPhis(p) ==
  [p EXCEPT !.insns = [b \in Block |-> SelectSeq(p.insns[b], LAMBDA i : i.op # "phi")]]

MapNames(p, F(_)) ==
  [p EXCEPT !.insns = [b \in Block |-> [i \in DOMAIN p.insns[b] |->
     [p.insns[b][i] EXCEPT !.def = IF @ = NoVar THEN @ ELSE F(@),
                           !.use = [k \in DOMAIN @ |-> F(@[k])]]]]]

\* The first version of a variable keeps it, every other gets a copy of it.
OneVersion(p) ==
  LET names == SortSeq(SelectSeq(NodeSet(p), LAMBDA v : ~ IsConst(v)), Before)
      first(v) == names[Min({i \in DOMAIN names : Symbol(names[i]) = Symbol(v)})]
      base == NewSymbol(p)
      rename(v) == IF IsConst(v) \/ first(v) = v THEN v
                   ELSE [v EXCEPT !.uid = base + Uid(names, v), !.ver = first(v).ver]
  IN MapNames(p, rename)

RemoveSsaForm(p) ==
  OneVersion(WithoutPhis(InsertCopies(CopyState(p), Entry, Idom(p), LiveIn(p)).p))

-----------------------------------------------------------------------------
\* rewrite_out_of_ssa: versions are dropped; a constant argument of a phi is
\* assigned at the end of the block its edge comes from.
ConstArgs(p, b) ==
  LET insns == Reverse(SelectSeq(p.insns[b], LAMBDA i : i.op = "phi"))
      args(i) == SelectSeq([k \in DOMAIN i.use |-> k], LAMBDA k : IsConst(i.use[k]))
      copy(i, k) == <<p.preds[b][k], Insert(IF IsLocal(i.def) THEN "store" ELSE "load",
                                            i.def, <<i.use[k]>>)>>
  IN FlattenSeq([n \in DOMAIN insns |->
       [m \in DOMAIN args(insns[n]) |-> copy(insns[n], args(insns[n])[m])]])
RewriteOutOfSsa(p) ==
  LET copies == FlattenSeq([i \in DOMAIN p.order |-> ConstArgs(p, p.order[i])])
      q == FoldLeft(LAMBDA f, c : [f EXCEPT !.insns[c[1]] = BeforeLast(@, <<c[2]>>)], p, copies)
      rename(v) == Versioned(v, 0)
  IN MapNames(WithoutPhis(q), rename)
=============================================================================
