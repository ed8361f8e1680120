---------------------------------- MODULE Gvn ----------------------------------
(***************************************************************************)
(* Global value numbering on SSA form (opt/gvn.c): two names with the same *)
(* number have the same value; an instruction whose value a dominating one *)
(* has calculated becomes a copy.  A number is the expression it stands    *)
(* for, so that looking an expression up in the graph is building it.      *)
(***************************************************************************)
EXTENDS Ssa

Zero == <<"zero">>
One == <<"one">>
Undef == <<"undef">>
Fresh(v) == <<"fresh", v>>    \* what is known of v is only that it is v

\* is_relevant, phis and what is not an expression.
IsExpression(insn) == insn.op \in Arith \cup {"load", "move", "store"}

\* The numbers UpdateVN starts from: constants, and what no expression defines.
\* Phis are never joined.  Locals nothing defines share a number.
FirstNumber(v, defined) ==
  IF v = Const(0) THEN Zero ELSE IF v = Const(1) THEN One
  ELSE IF IsLocal(v) /\ v \notin defined THEN Undef ELSE Fresh(v)
FirstNumbers(p) ==
  LET defined == Defs(Code(p))
      later == Defs(SelectSeq(Code(p), IsExpression))
  IN [v \in ToSet(NodeSet(p)) \ later |-> FirstNumber(v, defined)]

\* find_insert: the algebraic identities, then createExpression.
MutantMinusIsPlus(op, a) ==
  IF op \in {"load", "store", "move"} THEN a[1]
  ELSE IF op \in {"add", "sub"} /\ a[1] = Zero THEN a[2]
  ELSE <<op>> \o a
FindInsert(op, a) ==
  IF op \in {"load", "store", "move"} THEN a[1]
  ELSE IF op \in {"add", "sub"} /\ a[2] = Zero THEN a[1]
  ELSE IF op = "add" /\ a[1] = Zero THEN a[2]
  ELSE IF op = "sub" /\ a[1] = a[2] THEN Zero
  ELSE IF op \in {"mul", "div"} /\ a[2] = One THEN a[1]
  ELSE IF op = "mul" /\ a[1] = One THEN a[2]
  ELSE IF op = "mul" /\ Zero \in ToSet(a) THEN Zero
  ELSE <<op>> \o a

-----------------------------------------------------------------------------
\* The table of a block (struct block_info_def g).  A number may turn out to be
\* another (true); subst has its value; identities are the sums and differences
\* met on the way down the dominator tree, the latest first.
NoTable == [true |-> [t \in {} |-> Zero], subst |-> [t \in {} |-> NoVar], identities |-> <<>>]
TrueVal(table, t) == IF t \in DOMAIN table.true THEN table.true[t] ELSE t
With(f, x, y) == (x :> y) @@ f

\* The sums <<x, y, z>>, x + y = z, that c tells about an instruction op, other
\* than by being the same instruction.
Sums(c, op) ==
  IF c.op = "add"
  THEN {<<c.use[2], c.use[1], c.def>>} \cup (IF op = "sub" THEN {<<c.use[1], c.use[2], c.def>>} ELSE {})
  ELSE {<<c.def, c.use[2], c.use[1]>>} \cup (IF op = "add" THEN {<<c.use[2], c.def, c.use[1]>>} ELSE {})
Known(c, insn, Same(_, _)) ==
  IF insn.op = "add"
  THEN {s[3] : s \in {t \in Sums(c, "add") : Same(t[1], insn.use[1]) /\ Same(t[2], insn.use[2])}}
  ELSE IF insn.op = "sub"
  THEN {s[2] : s \in {t \in Sums(c, "sub") : Same(t[1], insn.use[2]) /\ Same(t[3], insn.use[1])}}
  ELSE {}

\* verify_expr: n, the number of insn, is that of a name one of the identities gives.
VerifyExpr(num, table, insn, n) ==
  LET value(v) == TrueVal(table, num[v])
      Same(v, w) == value(v) = value(w)
      hits == SelectSeq(table.identities, LAMBDA c : Known(c, insn, Same) # {})
  IN IF hits = <<>> THEN table
     ELSE LET v == CHOOSE w \in Known(hits[1], insn, Same) : TRUE IN
          [table EXCEPT !.true = With(@, n, value(v)),
                        !.subst = IF n \in DOMAIN @ THEN @ ELSE With(@, n, v)]

\* eliminateInstructions for one instruction of block b.  s: the new code, the
\* numbers and the table.
Eliminate(s, insn) ==
  LET n == FindInsert(insn.op, [k \in DOMAIN insn.use |-> s.num[insn.use[k]]])
      table == VerifyExpr(s.num, s.table, insn, n)
      x == TrueVal(table, n)
      copy == Insert(IF IsLocal(insn.def) THEN "store" ELSE "move", insn.def, <<table.subst[x]>>)
      numbered == [s EXCEPT !.num = With(@, insn.def, n)]
  IN IF insn.op = "store" THEN [numbered EXCEPT !.code = Append(@, insn)]
     ELSE IF x \notin DOMAIN table.subst
     THEN [numbered EXCEPT !.code = Append(@, insn),
             !.table = [table EXCEPT !.subst = With(@, x, insn.def),
               !.identities = IF insn.op \in {"add", "sub"} THEN <<insn>> \o @ ELSE @]]
     ELSE [numbered EXCEPT !.table = table,
             !.code = Append(@, IF insn.op = "load" /\ IsConst(insn.use[1]) THEN insn ELSE copy)]

\* GlobalValueNumbering: blocks in reverse postorder, each with the table of its
\* immediate dominator.
MutantTableOf(p, tables, idom, b) == tables[p.preds[b][1]]
TableOf(p, tables, idom, b) == tables[idom[b]]
NumberBlock(p, idom, s, b) ==
  LET start == [code |-> <<>>, num |-> s.num, table |-> TableOf(p, s.tables, idom, b)]
      end == FoldLeft(LAMBDA t, insn : IF IsExpression(insn) THEN Eliminate(t, insn)
                                       ELSE [t EXCEPT !.code = Append(@, insn)], start, p.insns[b])
  IN [p |-> [s.p EXCEPT !.insns[b] = end.code], num |-> end.num,
      tables |-> [s.tables EXCEPT ![b] = end.table]]
GlobalValueNumbering(p) ==
  LET idom == Idom(p) IN
  FoldLeft(LAMBDA s, b : NumberBlock(p, idom, s, b),
           [p |-> p, num |-> FirstNumbers(p), tables |-> [b \in Block |-> NoTable]],
           Tail(RevPostOrder(p.succs))).p
=============================================================================
