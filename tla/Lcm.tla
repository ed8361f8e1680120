--------------------------------- MODULE Lcm ---------------------------------
(***************************************************************************)
(* Lazy code motion (opt/lcm.c): every calculation is moved to the latest  *)
(* place where it is done no more often than it was, which takes what does *)
(* not change in a loop out of it.  An expression is the number of the     *)
(* instruction that calculates it; ones are the numbers of all of them.    *)
(***************************************************************************)
EXTENDS CopyProp, Loops

CONSTANT MaxIterations    \* MAX_ITERATIONS

\* split_critical_edges.  An edge of a branch to a block with other predecessors
\* gets a block; so do, together, all edges to exit.
SplitEdge(p, b, d) ==
  LET n == NewBlock(p)
      q == MakeEdge(MakeEdge(Linked(p, n, d), n, d), b, n)
  IN RemoveEdge(Retarget(q, n, d), b, Nth(q.succs[b], d, 1))
SplitExit(p) ==
  LET n == NewBlock(p) IN
  Retarget(MakeEdge(Redirect(Linked(p, n, Exit), Exit, Blocks(p), n), n, Exit), n, Exit)
SplitFrom(p, b) ==
  FoldLeft(LAMBDA q, d :
      IF Len(q.preds[d]) < 2 THEN q
      ELSE IF Len(q.succs[b]) >= 2 THEN SplitEdge(q, b, d)
      ELSE IF d = Exit THEN SplitExit(q) ELSE q,
    p, p.succs[b])
SplitCriticalEdges(p) == FoldLeft(SplitFrom, p, p.order)

\* should_skip: loads of globals stay; so do calls, those of pure functions too,
\* which the code moves: none is left when it comes here.
Moves(insn) ==
  \/ insn.op \in Arith \cup {"move"}
  \/ insn.op = "load" /\ ~ IsGlobal(insn.use[1])

-----------------------------------------------------------------------------
\* compute_local_properties.  Use maps names to the instructions that use them.
UseOf(p) == [v \in ToSet(NodeSet(p)) |-> {i.uid : i \in {j \in AllInsns(p) : v \in ToSet(j.use)}}]
UsesIn(use, v) == IF v \in DOMAIN use THEN use[v] ELSE {}
MutantTransparent(p, use, b) == {}
Opaque(p, use, b) == UNION {UsesIn(use, v) : v \in Defs(p.insns[b])}
\* Calculated in b, except those an operand of which is assigned at some i in
\* the block, unless they have been passed by then.
LocallyDone(p, use, b, ones, Passed(_)) ==
  LET insns == p.insns[b]
      writes == {i \in DOMAIN insns : insns[i].def # NoVar}
  IN (ones \cap Uids(insns))
     \ UNION {UsesIn(use, insns[i].def) \ {insns[j].uid : j \in writes \cap Passed(i)} : i \in writes}
Anticipated(p, use, b, ones) == LET Passed(i) == 1..(i - 1) IN LocallyDone(p, use, b, ones, Passed)
ComputedIn(p, use, b, ones) ==
  LET Passed(i) == (i + 1)..Len(p.insns[b]) IN LocallyDone(p, use, b, ones, Passed)

\* compute_antinout, greatest solution.
MutantFirstWayOnly(p, antin, ones, b) ==
  IF Exit \in ToSet(p.succs[b]) THEN {} ELSE antin[p.succs[b][1]]
AntOut(p, antin, ones, b) ==
  IF Exit \in ToSet(p.succs[b]) THEN {} ELSE {n \in ones : \A c \in ToSet(p.succs[b]) : n \in antin[c]}
AntIn(p, ones, antloc, transp) ==
  LET step(in) == [b \in Block |-> IF b \notin InnerBlocks(p) THEN ones
                     ELSE Listed(antloc[b] \cup (AntOut(p, in, ones, b) \cap transp[b]))]
      shrink[in \in [Block -> SUBSET Nat]] == IF step(in) = in THEN in ELSE shrink[step(in)]
  IN shrink[[b \in Block |-> ones]]

\* Edges <<a, b, n>>: the n-th from a to b.
EdgesInto(p, b) == [i \in DOMAIN p.preds[b] |->
  <<p.preds[b][i], b, Cardinality({j \in 1..i : p.preds[b][j] = p.preds[b][i]})>>]
Edges(p) == FlattenSeq([i \in DOMAIN p.order |-> EdgesInto(p, p.order[i])])

\* The local and global properties of one round.
Properties(p, use, ones) ==
  LET antloc == [b \in Block |-> Anticipated(p, use, b, ones)]
      comp == [b \in Block |-> ComputedIn(p, use, b, ones)]
      transp == [b \in Block |-> ones \ Opaque(p, use, b)]
      kill == [b \in Block |-> ones \ (transp[b] \cup comp[b])]
      avout == AvailOut(p, ones, comp, kill)
      antin == AntIn(p, ones, antloc, transp)
  IN [antloc |-> antloc, kill |-> kill, avout |-> avout, antin |-> antin,
      antout |-> [b \in Block |-> AntOut(p, antin, ones, b)]]

\* compute_earliest
Earliest(f, ones, e) ==
  IF e[1] = Entry THEN f.antin[e[2]]
  ELSE IF e[2] = Exit THEN {}
  ELSE (f.antin[e[2]] \ f.avout[e[1]]) \cap (f.kill[e[1]] \cup (ones \ f.antout[e[1]]))

\* compute_laterin, greatest solution.
LaterIn(later, ones, b) == {n \in ones : \A e \in {x \in DOMAIN later : x[2] = b} : n \in later[e]}
Later(p, f, ones) ==
  LET E == ToSet(Edges(p))
      earliest == [e \in E |-> Earliest(f, ones, e)]
      step(l) == [e \in E |-> IF e[1] = Entry THEN earliest[e]
                   ELSE Listed(earliest[e] \cup (LaterIn(l, ones, e[1]) \ f.antloc[e[1]]))]
      shrink[l \in [E -> SUBSET Nat]] == IF step(l) = l THEN l ELSE shrink[step(l)]
  IN shrink[[e \in E |-> IF e[1] = Entry THEN earliest[e] ELSE ones]]

-----------------------------------------------------------------------------
InsnNumbered(p, uid) == CHOOSE insn \in AllInsns(p) : insn.uid = uid
Ascending(S) ==
  LET list[T \in SUBSET S] == IF T = {} THEN <<>> ELSE <<Min(T)>> \o list[T \ {Min(T)}] IN list[S]

\* insert_instructions: at the end of the block the edge e leaves, n is calculated
\* into a new name, the same for every edge.  s: the function, ones, map, and the
\* next symbol and instruction number.
InsertOne(s, e, n) ==
  LET insn == InsnNumbered(s.p, n)
      new == IF n \in DOMAIN s.map THEN s.map[n] ELSE [insn.def EXCEPT !.uid = s.next, !.ver = 0]
  IN [s EXCEPT !.p.insns[e[1]] = BeforeLast(@, <<[insn EXCEPT !.uid = s.uid, !.def = new]>>),
               !.ones = @ \cup {s.uid},
               !.map = [m \in DOMAIN @ \cup {n} |-> IF m = n THEN new ELSE @[m]],
               !.next = @ + 1, !.uid = @ + 1]
InsertInstructions(s, insert) ==
  FoldLeft(LAMBDA t, e : FoldLeft(LAMBDA u, n : InsertOne(u, e, n), t, Ascending(insert[e])),
           s, Edges(s.p))

\* delete_instructions: the calculation gives way to a copy, or goes.
DeleteInstructions(s, del) ==
  LET gone == UNION {del[b] : b \in Blocks(s.p)}
      copied(i) == IF i.uid \in gone THEN [i EXCEPT !.op = "move", !.use = <<s.map[i.uid]>>] ELSE i
      code(insns) == LET kept == SelectSeq(insns, LAMBDA i : i.uid \notin gone \/ i.uid \in DOMAIN s.map)
                     IN [i \in DOMAIN kept |-> copied(kept[i])]
  IN [s EXCEPT !.p.insns = [b \in Block |-> code(s.p.insns[b])], !.ones = @ \ gone]

\* Lazy_Code_Motion, one round: uses are those before copies were propagated.
LocalCopies(p) == [p EXCEPT !.insns = [b \in Block |-> LocalCopyProp(p.insns[b], {})]]
OneRound(s) ==
  LET p == LocalCopies(s.p)
      f == Properties(p, UseOf(s.p), s.ones)
      later == Later(p, f, s.ones)
      insert == [e \in DOMAIN later |-> later[e] \ LaterIn(later, s.ones, e[2])]
      del == [b \in Block |-> IF b \notin InnerBlocks(p) THEN f.antloc[b]
                              ELSE f.antloc[b] \ LaterIn(later, s.ones, b)]
      empty == [n \in {} |-> NoVar]
      t == DeleteInstructions(InsertInstructions([s EXCEPT !.p = p, !.map = empty], insert), del)
  IN [t EXCEPT !.updated = \/ \E e \in DOMAIN insert : insert[e] # {}
                           \/ \E b \in Blocks(p) : del[b] # {}]

RECURSIVE Rounds(_, _)
Rounds(n, s) == IF n = 0 \/ ~ s.updated THEN s ELSE Rounds(n - 1, OneRound(s))

LazyCodeMotion(p) ==
  LET q == Numbered(SplitCriticalEdges(CreatePreheaders(p)))
      s == [p |-> q, ones |-> {i.uid : i \in {j \in AllInsns(q) : Moves(j)}},
            map |-> [n \in {} |-> NoVar], next |-> NewSymbol(q),
            uid |-> 1 + Largest({i.uid : i \in AllInsns(q)}), updated |-> TRUE]
  IN Rounds(MaxIterations, s).p
=============================================================================
