------------------------------ MODULE TreeHeight ------------------------------
(***************************************************************************)
(* Tree-height reduction (opt/treeheight.c) and the reduction of products  *)
(* and quotients by powers of two to shifts (opt/divcnst.c).  In a run of  *)
(* sums and products, an expression of one operator is taken to pieces and *)
(* put together again from the lightest pieces on.                         *)
(***************************************************************************)
EXTENDS Ssa

\* get_priority
Reorders(insn) == insn.op \in {"add", "mul"}

\* The instructions of a region by what they define, and the roots: used more than
\* once, or not by an instruction of the region with the same operator.
RegionOf(insns) == [v \in Defs(insns) |-> CHOOSE i \in ToSet(insns) : i.def = v]
AllUsers(p, v) == {u \in ToSet(Code(p)) : v \in ToSet(u.use)}
Roots(p, insns) ==
  SelectSeq(insns, LAMBDA i :
    \/ Cardinality(AllUsers(p, i.def)) > 1
    \/ \E u \in AllUsers(p, i.def) : u \notin ToSet(insns) \/ u.op # i.op)

\* s: the new code, the weights of names, the leaves of the tree being taken to
\* pieces, and the next symbol.
FirstLightest(s, leaves) ==
  CHOOSE i \in DOMAIN leaves : \A j \in DOMAIN leaves :
    s.weight[leaves[i]] < s.weight[leaves[j]] \/ (s.weight[leaves[i]] = s.weight[leaves[j]] /\ i =< j)
Weigh(s, v, n) == [s EXCEPT !.weight = (v :> n) @@ @]
ALeaf(s, v) == [s EXCEPT !.leaves = Append(@, v)]

\* The two lightest leaves become one, until the root is all that is left.
RECURSIVE PutTogether(_, _)
PutTogether(s, root) ==
  LET i == FirstLightest(s, s.leaves)
      rest == RemoveAt(s.leaves, i)
      j == FirstLightest(s, rest)
      left == RemoveAt(rest, j)
      v == IF left = <<>> THEN root.def ELSE Temp(s.next)
      t == [Weigh(s, v, s.weight[s.leaves[i]] + s.weight[rest[j]]) EXCEPT
              !.code = Append(@, Insert(root.op, v, <<s.leaves[i], rest[j]>>)), !.next = @ + 1]
  IN IF left = <<>> THEN [t EXCEPT !.leaves = <<>>]
     ELSE PutTogether([t EXCEPT !.leaves = Append(left, v)], root)

\* do_flatten, BalanceTree.  A root among the leaves is balanced first.
RECURSIVE Flatten_(_, _, _, _), BalanceTree(_, _, _, _)
Flatten_(s, region, roots, v) ==
  IF IsConst(v) THEN ALeaf(Weigh(s, v, 0), v)
  ELSE IF v \notin DOMAIN region THEN ALeaf(Weigh(s, v, 1), v)
  ELSE IF v \in roots
  THEN ALeaf([BalanceTree(s, region, roots, v) EXCEPT !.leaves = s.leaves], v)
  ELSE Flatten_(Flatten_(s, region, roots, region[v].use[1]), region, roots, region[v].use[2])
BalanceTree(s, region, roots, v) ==
  IF v \in DOMAIN s.weight THEN s
  ELSE LET one == Flatten_([s EXCEPT !.leaves = <<>>], region, roots, region[v].use[1]) IN
       PutTogether(Flatten_(one, region, roots, region[v].use[2]), region[v])

\* FindRoots for one region: the sums are balanced before the products.
Balanced(p, insns, next) ==
  LET roots == Roots(p, insns)
      order == SelectSeq(roots, LAMBDA i : i.op = "add") \o SelectSeq(roots, LAMBDA i : i.op = "mul")
  IN FoldLeft(LAMBDA s, i : BalanceTree(s, RegionOf(insns), {r.def : r \in ToSet(roots)}, i.def),
              [code |-> <<>>, weight |-> [v \in {} |-> 0], leaves |-> <<>>, next |-> next], order)

\* FindRoots: a region is a longest run of two or more sums and products.
BalanceRegions(p, b, next) ==
  LET flush(s) == IF Len(s.run) < 2 THEN [s EXCEPT !.code = @ \o s.run, !.run = <<>>]
                  ELSE LET t == Balanced(p, s.run, s.next)
                       IN [code |-> s.code \o t.code, run |-> <<>>, next |-> t.next]
      step(s, insn) == IF Reorders(insn) THEN [s EXCEPT !.run = Append(@, insn)]
                       ELSE LET t == flush(s) IN [t EXCEPT !.code = Append(@, insn)]
  IN FoldLeft(step, [code |-> <<>>, run |-> <<>>, next |-> next], p.insns[b])
TreeHeightReduction(p) ==
  FoldLeft(LAMBDA s, b : LET t == BalanceRegions(p, b, s.next)
                         IN [p |-> [s.p EXCEPT !.insns[b] = t.code], next |-> t.next],
           [p |-> p, next |-> NewSymbol(p)], p.order).p

-----------------------------------------------------------------------------
WordBits == CHOOSE n \in 0..Width : 2^n = Width
\* exact_log2 of the absolute value: 0 when a product is left as it is.
Log2(v) ==
  IF ~ IsConst(v) THEN 0
  ELSE LET fits == {n \in 0..WordBits : 2^n = Abs(Signed(v.uid))} IN
       IF fits = {} THEN 0 ELSE CHOOSE n \in fits : TRUE
Negative(v) == Signed(v.uid) < 0
Scratch(n) == [kind |-> "temp", uid |-> n, ver |-> 0]

\* expand_mult: x * 2^n is a shift, x * -2^n a shift and a difference.
ExpandMult(insn, next) ==
  LET isPower(v) == IsConst(v) /\ \E n \in 0..WordBits : Abs(Signed(v.uid)) = 2^n
      x == IF isPower(insn.use[1]) THEN insn.use[2] ELSE insn.use[1]
      c == IF isPower(insn.use[1]) THEN insn.use[1] ELSE insn.use[2]
      t == Scratch(next)
  IN IF Log2(c) = 0 THEN <<[insn EXCEPT !.use = <<x, c>>]>>
     ELSE IF Negative(c) THEN <<Insert("lsl", t, <<x, Const(Log2(c))>>),
                                Insert("sub", insn.def, <<Const(0), t>>)>>
     ELSE <<Insert("lsl", insn.def, <<x, Const(Log2(c))>>)>>

\* expand_divmod: 2^n - 1 is added to a negative dividend before it is shifted.
MutantNoRounding(insn, next) ==
  IF Log2(insn.use[2]) = 0 \/ Negative(insn.use[2]) THEN <<insn>>
  ELSE <<Insert("asr", insn.def, <<insn.use[1], Const(Log2(insn.use[2]))>>)>>
ExpandDivMod(insn, next) ==
  LET x == insn.use[1]
      n == Log2(insn.use[2])
      quotient == IF Negative(insn.use[2])
                  THEN <<Insert("asr", Scratch(next + 3), <<Scratch(next + 2), Const(n)>>),
                         Insert("sub", insn.def, <<Const(0), Scratch(next + 3)>>)>>
                  ELSE <<Insert("asr", insn.def, <<Scratch(next + 2), Const(n)>>)>>
  IN IF n = 0 THEN <<insn>>
     ELSE <<Insert("asr", Scratch(next), <<x, Const(WordBits - 1)>>),
            Insert("lsr", Scratch(next + 1), <<Scratch(next), Const(WordBits - n)>>),
            Insert("add", Scratch(next + 2), <<x, Scratch(next + 1)>>)>> \o quotient

StraightLineStrengthReduce(p) ==
  LET expand(s, insn) ==
        [code |-> s.code \o (IF insn.op = "mul" THEN ExpandMult(insn, s.next)
                             ELSE IF insn.op = "div" THEN ExpandDivMod(insn, s.next) ELSE <<insn>>),
         next |-> s.next + 4]
      block(s, b) == LET t == FoldLeft(expand, [code |-> <<>>, next |-> s.next], p.insns[b])
                     IN [p |-> [s.p EXCEPT !.insns[b] = t.code], next |-> t.next]
  IN FoldLeft(block, [p |-> p, next |-> NewSymbol(p)], p.order).p
=============================================================================
