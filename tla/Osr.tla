---------------------------------- MODULE Osr ----------------------------------
(***************************************************************************)
(* Operator strength reduction outside SSA form (opt/osr.c): the product   *)
(* of an induction variable and a name the loop does not assign is kept    *)
(* up to date beside the variable, and the multiplication becomes a copy.  *)
(***************************************************************************)
EXTENDS Loops

CONSTANT OsrIterations    \* MAX_ITERATIONS

Inside(p, inside) == FlattenSeq([i \in DOMAIN p.order |->
  IF p.order[i] \in inside THEN p.insns[p.order[i]] ELSE <<>>])

\* rc: names, not constants, the loop mentions and does not assign.
RegionConstants(insns) ==
  {v \in UNION {ToSet(Operands(i)) : i \in ToSet(insns)} : ~ IsConst(v)} \ Defs(insns)

\* findivars: what sums, differences and copies of induction variables and region
\* constants define.
InductionVars(insns, rc) ==
  LET steps == {i \in ToSet(insns) : i.op \in {"add", "sub", "move"}}
      keep(S) == S \ {i.def : i \in {j \in steps : ~ ToSet(j.use) \subseteq S \cup rc}}
      shrink[S \in SUBSET {i.def : i \in steps}] == IF keep(S) = S THEN S ELSE shrink[keep(S)]
  IN shrink[{i.def : i \in steps}]

\* findcands: <<the multiplication, its induction variable, its region constant>>.
Candidates(insns, iv, rc) ==
  UNION {IF i.use[1] \in iv /\ i.use[2] \in rc THEN {<<i, i.use[1], i.use[2]>>}
         ELSE IF i.use[1] \in rc /\ i.use[2] \in iv THEN {<<i, i.use[2], i.use[1]>>} ELSE {} :
         i \in {j \in ToSet(insns) : j.op = "mul"}}

\* findaffect: what an induction variable is calculated from, itself included.
Affect(insns, iv, x) ==
  LET more(S) == S \cup UNION {ToSet(i.use) : i \in {j \in ToSet(insns) : j.def \in S \cap iv}}
      grow[S \in SUBSET Name] == IF more(S) = S THEN S ELSE grow[more(S)]
  IN grow[{x}]

\* What streduce finds out about a loop.
Region(insns) ==
  LET rc == RegionConstants(insns)
      iv == InductionVars(insns, rc)
  IN [insns |-> insns, rc |-> rc, iv |-> iv, cands |-> Candidates(insns, iv, rc)]

\* The factors of an induction variable: those of the candidates it affects.
Factors(p, r, y) ==
  SelectSeq(NodeSet(p), LAMBDA c : \E k \in r.cands : k[3] = c /\ y \in Affect(r.insns, r.iv, k[2]))
Products(p, r) ==
  FlattenSeq([i \in DOMAIN NodeSet(p) |->
    LET y == NodeSet(p)[i] IN
    IF y \notin r.iv \cup r.rc THEN <<>> ELSE [j \in DOMAIN Factors(p, r, y) |-> <<y, Factors(p, r, y)[j]>>]])

\* A product of two region constants is made once.
Increments(pairs, rc) ==
  SelectSeq([i \in DOMAIN pairs |-> i], LAMBDA i :
    ~ (pairs[i][1] \in rc /\ \E j \in 1..(i - 1) : pairs[j] = <<pairs[i][2], pairs[i][1]>>))

\* streduce.  name gives the temp that has y * c for every y that affects the
\* variable of a candidate with the factor c.
Rewritten(p, prolog, inside, r, pairs, fresh) ==
  LET name(y, c) == LET n == CHOOSE m \in DOMAIN fresh : pairs[fresh[m]] \in {<<y, c>>, <<c, y>>}
                    IN [kind |-> "temp", uid |-> NewSymbol(p) + n, ver |-> 0]
      start == [m \in DOMAIN fresh |->
                  LET k == pairs[fresh[m]] IN Insert("mul", name(k[1], k[2]), <<k[1], k[2]>>)]
      beside(i) == IF i.def \notin r.iv THEN <<>>
        ELSE LET f == Reverse(Factors(p, r, i.def)) IN
             [n \in DOMAIN f |-> Insert(i.op, name(i.def, f[n]),
                                        [k \in DOMAIN i.use |-> name(i.use[k], f[n])])]
      copied(i) == IF \E k \in r.cands : k[1] = i
                   THEN LET k == CHOOSE c \in r.cands : c[1] = i
                        IN [i EXCEPT !.op = "move", !.use = <<name(k[2], k[3])>>]
                   ELSE i
      code(list) == FlattenSeq([i \in DOMAIN list |-> <<copied(list[i])>> \o beside(list[i])])
  IN [p EXCEPT !.insns = [b \in Block |-> IF b \in inside THEN code(p.insns[b])
        ELSE IF b = prolog THEN BeforeLast(p.insns[b], start) ELSE p.insns[b]]]
ReduceRegion(p, prolog, inside, r) ==
  LET pairs == Products(p, r)
  IN [p |-> Rewritten(p, prolog, inside, r, pairs, Increments(pairs, r.rc)), count |-> Cardinality(r.cands)]
Reduce(p, prolog, inside) == ReduceRegion(p, prolog, inside, Region(Inside(p, inside)))

RECURSIVE ReduceLoop(_, _, _, _)
ReduceLoop(n, p, prolog, inside) ==
  LET r == Reduce(p, prolog, inside) IN
  IF n = 0 \/ r.count = 0 THEN p ELSE ReduceLoop(n - 1, Numbered(r.p), prolog, inside)

\* OSR: inner loops first, all of them found before the first is changed.
OperatorStrengthReduction(p) ==
  LET dom == Dominators(p, p.preds, Entry)
      heads == SelectSeq(Reverse(LoopHeads(p, dom)), LAMBDA h : h # Entry)
      body == [h \in ToSet(heads) |-> LoopBody(p, dom, h)]
  IN FoldLeft(LAMBDA q, h : ReduceLoop(OsrIterations, WithPreheader(q, h, body[h]), NewBlock(q), body[h]),
              p, heads)
=============================================================================
