------------------------------- MODULE FrontEnd -------------------------------
(***************************************************************************)
(* From the syntax tree of a function to its control flow graph: genIR     *)
(* (IR/IRGenerator.c) emits linear code with jumps to be filled in later,  *)
(* cfgbuild (IR/cfg.c) cuts it into blocks.  Types other than int, arrays  *)
(* and scopes are left out: a name is the variable it stands for.          *)
(*                                                                         *)
(* A node is an operator, a name (of a leaf, or of what is assigned) and   *)
(* children.  The conditions of if and while may be and, or, not and       *)
(* comparisons, which may hold comparisons of their own.                   *)
(***************************************************************************)
EXTENDS Loops

Node(op, v, kids) == [op |-> op, v |-> v, kids |-> kids]

-----------------------------------------------------------------------------
\* The code so far.  sym is the value of the last expression, or NoVar when it is
\* a condition whose jumps are in yes and no; next, brk and ret are the jumps that
\* leave the last statement, its loop and the function.  A jump is a place
\* <<instruction, destination>>.
Nothing == [code |-> <<>>, fresh |-> 1000, sym |-> NoVar, yes |-> {}, no |-> {},
            next |-> {}, brk |-> {}, ret |-> {}]
NextInsn(s) == Len(s.code) + 1
Added(s, insn) == [s EXCEPT !.code = Append(@, [insn EXCEPT !.uid = NextInsn(s)])]
Open(op, use, n) == [Insert(op, NoVar, use) EXCEPT !.to = [i \in 1..n |-> 0]]

\* DoBackpatch
Backpatch(s, jumps, n) ==
  [s EXCEPT !.code = [i \in DOMAIN @ |->
     [@[i] EXCEPT !.to = [k \in DOMAIN @ |-> IF <<i, k>> \in jumps THEN n ELSE @[k]]]]]

\* A value in a new temp.
Result(s, op, use) ==
  LET t == [kind |-> "temp", uid |-> s.fresh, ver |-> 0] IN
  [Added(s, Insert(op, t, use)) EXCEPT !.fresh = @ + 1, !.sym = t]
EmitLoad(s, v) == IF IsLocal(v) \/ IsGlobal(v) THEN Result(s, "load", <<v>>) ELSE [s EXCEPT !.sym = v]

\* FoldIntUnop, FoldIntBinop: operations on constants are done at once.
Folds(use) == \A i \in DOMAIN use : IsConst(use[i])
Fold(op, use) == Const(Calculate(op, NameValue(use[1]), NameValue(Last(use))))

\* create_cmp_insn: a branch on two loaded operands with both destinations open, or
\* a jump when they are constants.
CreateCmp(s, op, v, w) ==
  LET s1 == EmitLoad(s, v)
      s2 == EmitLoad(s1, w)
      n == NextInsn(s2)
      yes == Holds(op, Signed(NameValue(s1.sym)), Signed(NameValue(s2.sym)))
  IN IF Folds(<<s1.sym, s2.sym>>)
     THEN [Added(s2, Open("goto", <<>>, 1)) EXCEPT !.sym = NoVar,
             !.yes = IF yes THEN {<<n, 1>>} ELSE {}, !.no = IF yes THEN {} ELSE {<<n, 1>>}]
     ELSE [Added(s2, Open("if" \o op, <<s1.sym, s2.sym>>, 2)) EXCEPT !.sym = NoVar,
             !.yes = {<<n, 1>>}, !.no = {<<n, 2>>}]
\* A value where a condition is needed.
AsCondition(s) == IF s.sym = NoVar THEN s ELSE CreateCmp(s, "ne", s.sym, Const(0))

-----------------------------------------------------------------------------
RECURSIVE Visit(_, _, _), Stripped(_)

\* place tells what an expression is for: "tested" by if, while, and, or, or a not
\* that is tested; "compared" by a comparison; "used" by anything else.
VisitUnary(s, e, place) ==
  LET inverts == e.op = "not" /\ place = "tested"
      s1 == Visit(s, e.kids[1], IF inverts THEN "tested" ELSE "used")
      s2 == EmitLoad(s1, s1.sym)
  IN IF inverts
     THEN IF s1.sym # NoVar THEN CreateCmp(s1, "eq", s1.sym, Const(0))
          ELSE [s1 EXCEPT !.yes = s1.no, !.no = s1.yes]
     ELSE IF Folds(<<s2.sym>>) THEN [s2 EXCEPT !.sym = Fold(e.op, <<s2.sym>>)]
     ELSE Result(s2, e.op, <<s2.sym>>)

\* Both operands are visited, then both are loaded.  A comparison has a value only
\* for another one; it is a branch, without a value, wherever else it stands.
VisitBinary(s, e, place) ==
  LET inner == IF e.op \in Relation THEN "compared" ELSE "used"
      s1 == Visit(s, e.kids[1], inner)
      s2 == Visit(s1, e.kids[2], inner)
      s3 == EmitLoad(s2, s1.sym)
      s4 == EmitLoad(s3, s2.sym)
      use == <<s3.sym, s4.sym>>
  IN IF Folds(use) THEN [s4 EXCEPT !.sym = Fold(e.op, use)]
     ELSE IF e.op \in Relation /\ place # "compared" THEN CreateCmp(s4, e.op, use[1], use[2])
     ELSE Result(s4, e.op, use)

\* The second operand is reached where the first does not decide.
AndLists(s1, s2, n) == [Backpatch(s2, s1.yes, n) EXCEPT !.no = s1.no \cup s2.no]
OrLists(s1, s2, n) == [Backpatch(s2, s1.no, n) EXCEPT !.yes = s1.yes \cup s2.yes]
VisitLogical(s, e) ==
  LET s1 == AsCondition(Visit(s, e.kids[1], "tested"))
      s2 == AsCondition(Visit(s1, e.kids[2], "tested"))
  IN IF e.op = "and" THEN AndLists(s1, s2, NextInsn(s1)) ELSE OrLists(s1, s2, NextInsn(s1))

VisitAsg(s, e) ==
  LET s1 == Visit(s, e.kids[1], "used")
      s2 == EmitLoad(s1, s1.sym)
  IN [Added(s2, Insert("store", e.v, <<s2.sym>>)) EXCEPT !.sym = e.v]

\* The arguments are visited, then loaded, then passed.
VisitCall(s, e) ==
  LET visited[n \in 0..Len(e.kids)] ==
        IF n = 0 THEN [s |-> s, syms |-> <<>>]
        ELSE LET t == Visit(visited[n - 1].s, e.kids[n], "used")
             IN [s |-> t, syms |-> Append(visited[n - 1].syms, t.sym)]
      load(t, v) == LET l == EmitLoad(t.s, v) IN [s |-> l, syms |-> Append(t.syms, l.sym)]
      all == visited[Len(e.kids)]
      loaded == FoldLeft(load, [s |-> all.s, syms |-> <<>>], all.syms)
      call == Result(loaded.s, IF e.v = NoVar THEN "obs" ELSE "call", loaded.syms)
  IN IF e.v = NoVar THEN call ELSE [call EXCEPT !.code[Len(call.code)].lit = e.v.uid]

-----------------------------------------------------------------------------
\* A minus before the whole condition does not change it and is taken away.
Stripped(e) == IF e.op = "neg" THEN Stripped(e.kids[1]) ELSE e

VisitIf(s, e, start) ==
  LET s1 == AsCondition(Visit(s, Stripped(e.kids[1]), "tested"))
      then == [Visit(s1, e.kids[2], start) EXCEPT !.yes = {}, !.no = {}]
      jump == [Added(then, Open("goto", <<>>, 1)) EXCEPT !.next = {}]
      else == [Visit(jump, e.kids[3], start) EXCEPT !.yes = {}, !.no = {}]
  IN IF Len(e.kids) = 2
     THEN [Backpatch(then, s1.yes, NextInsn(s1)) EXCEPT !.next = s1.no \cup then.next]
     ELSE [Backpatch(Backpatch(else, s1.yes, NextInsn(s1)), s1.no, NextInsn(jump))
             EXCEPT !.next = then.next \cup else.next \cup {<<NextInsn(then), 1>>}]

VisitWhile(s, e) ==
  LET s1 == AsCondition(Visit([s EXCEPT !.brk = {}], Stripped(e.kids[1]), "tested"))
      body == Visit(s1, e.kids[2], NextInsn(s))
      s2 == Backpatch(Backpatch(body, body.next, NextInsn(s)), s1.yes, NextInsn(s1))
      s3 == Added(s2, [Open("goto", <<>>, 1) EXCEPT !.to = <<NextInsn(s)>>])
  IN [s3 EXCEPT !.next = body.brk \cup s1.no, !.brk = s.brk, !.yes = {}, !.no = {}]

VisitReturn(s, e) ==
  LET s1 == Visit(s, e.kids[1], "used")
      s2 == EmitLoad(s1, s1.sym)
      s3 == Added(s2, Insert("store", e.v, <<s2.sym>>))
  IN [Added(s3, Open("goto", <<>>, 1)) EXCEPT !.ret = @ \cup {<<NextInsn(s3), 1>>}]

\* The jumps out of a statement go to the first instruction of the next one.
VisitBlock(s, e, start) ==
  LET one(t, kid) ==
        LET u == Visit([t EXCEPT !.next = {}], kid, start) IN Backpatch(u, t.next, NextInsn(t))
      mark == [Added(s, Insert("nop", NoVar, <<>>)) EXCEPT !.next = {}]
  IN Added(FoldLeft(one, mark, e.kids), Insert("nop", NoVar, <<>>))

\* ir_visit_ast_node.  arg: the place of an expression; the number a continue in a
\* statement jumps to.
Visit(s, e, arg) ==
  CASE e.op = "leaf" -> [s EXCEPT !.sym = e.v, !.yes = {}, !.no = {}]
    [] e.op \in {"neg", "not"} -> VisitUnary(s, e, arg)
    [] e.op \in Arith \ {"neg", "not"} -> VisitBinary(s, e, arg)
    [] e.op \in {"and", "or"} -> VisitLogical(s, e)
    [] e.op = "call" -> VisitCall(s, e)
    [] e.op = "asg" -> VisitAsg(s, e)
    [] e.op = "if" -> VisitIf(s, e, arg)
    [] e.op = "while" -> VisitWhile(s, e)
    [] e.op = "break" -> [Added(s, Open("goto", <<>>, 1)) EXCEPT !.brk = @ \cup {<<NextInsn(s), 1>>}]
    [] e.op = "continue" -> Added(s, [Open("goto", <<>>, 1) EXCEPT !.to = <<arg>>])
    [] e.op = "return" -> VisitReturn(s, e)
    [] e.op = "block" -> VisitBlock(s, e, arg)
    [] e.op = "empty" -> s

\* VisitTN_FuncDef of the n-th of the functions fs, the last of which is the one
\* the program begins with: its result, retv, is 0 unless something is returned.
Begin(fs, n) ==
  FoldLeft(Added, [Nothing EXCEPT !.fresh = 1000 * n],
    <<Insert("entry", NoVar, <<>>)>>
    \o [i \in DOMAIN fs[n].params |-> [Insert("fparam", fs[n].params[i], <<>>) EXCEPT !.lit = i]]
    \o IF n = Len(fs) THEN <<Insert("store", fs[n].retv, <<Const(0)>>)>> ELSE <<>>)
Finished(body, retv) ==
  LET open == Backpatch(body, body.next \cup body.ret, NextInsn(body))
      end == EmitLoad(open, retv)
  IN IF retv = NoVar THEN Added(open, Insert("exit", NoVar, <<>>)).code
     ELSE Added(end, Insert("exit", NoVar, <<end.sym>>)).code
GenIR(fs, n) == Finished(Visit(Begin(fs, n), fs[n].body, 0), fs[n].retv)

-----------------------------------------------------------------------------
\* cfgbuild.  The first instructions of blocks: entry, the one after the fparams,
\* exit, where branches go and what comes after them.
Leaders(code) ==
  LET branches == {i \in DOMAIN code : code[i].to # <<>>}
      params == {i \in DOMAIN code : code[i].op = "fparam"}
  IN {1, 2 + Cardinality(params), Len(code)} \cup {i + 1 : i \in branches}
     \cup UNION {ToSet(code[i].to) : i \in branches}
BlockAt(code, i) ==
  LET n == Cardinality({l \in Leaders(code) : l =< i}) IN
  IF n = 1 THEN Entry ELSE IF n = Cardinality(Leaders(code)) THEN Exit ELSE n + 1

\* A block that does not end in a branch gets a jump to the next one.
Ended(insns, next) ==
  IF Last(insns).to # <<>> \/ Last(insns).op = "exit" THEN insns ELSE Append(insns, Goto(next))

CfgBuild(code) ==
  LET first == SelectSeq([i \in DOMAIN code |-> i], LAMBDA i : i \in Leaders(code))
      order == [n \in DOMAIN first |-> BlockAt(code, first[n])]
      last(n) == IF n = Len(first) THEN Len(code) ELSE first[n + 1] - 1
      insns(n) == [j \in 1..(last(n) - first[n] + 1) |->
                     [code[first[n] + j - 1] EXCEPT !.to = [k \in DOMAIN @ |-> BlockAt(code, @[k])]]]
      full == [n \in DOMAIN first |-> Ended(insns(n), IF n = Len(first) THEN Exit ELSE order[n + 1])]
      bare == [order |-> order, succs |-> [b \in Block |-> <<>>], preds |-> [b \in Block |-> <<>>],
               insns |-> [b \in Block |-> IF b \in ToSet(order) THEN full[Uid(order, b)] ELSE <<>>]]
  IN FoldLeft(LAMBDA p, b : FoldLeft(LAMBDA q, d : MakeEdge(q, b, d), p, Last(p.insns[b]).to),
              bare, order)

-----------------------------------------------------------------------------
\* What the source means: a state has the variables, the values shown, the value
\* of the last expression, how the last statement ended, the functions of the
\* program, how much deeper calls may go and whether they wanted to; at most Fuel
\* rounds of loops are run and Fuel calls are active.
CONSTANT Fuel

RECURSIVE Meaning(_, _)

MeaningWhile(st, e) ==
  LET round[n \in 0..Fuel] ==
        IF n = 0 THEN [st EXCEPT !.how = "next"]
        ELSE LET s == round[n - 1]
                 c == Meaning(s, Stripped(e.kids[1]))
                 t == Meaning(c, e.kids[2])
             IN IF s.how \in {"left", "return", "stuck"} THEN s
                ELSE IF c.val = 0 THEN [c EXCEPT !.how = "left"]
                ELSE IF t.how = "break" THEN [t EXCEPT !.how = "left"]
                ELSE IF t.how = "continue" THEN [t EXCEPT !.how = "next"] ELSE t
  IN CASE round[Fuel].how = "left" -> [round[Fuel] EXCEPT !.how = "next"]
       [] round[Fuel].how = "next" -> [round[Fuel] EXCEPT !.how = "stuck"]
       [] OTHER -> round[Fuel]

\* A call of a function of the program.
MeaningBody(st, f, args) ==
  LET globals(env) == {v \in DOMAIN env : IsGlobal(v)}
      env == [v \in ToSet(f.params) \cup globals(st.env) |->
                IF IsGlobal(v) THEN st.env[v] ELSE args[Uid(f.params, v)]]
      t == Meaning([st EXCEPT !.env = env, !.how = "next", !.depth = @ - 1], f.body)
  IN [t EXCEPT !.env = [v \in DOMAIN st.env \cup globals(@) |->
                          IF v \in globals(@) THEN @[v] ELSE st.env[v]],
               !.val = IF f.retv = NoVar THEN 0 ELSE Val(t.env, f.retv),
               !.how = st.how, !.depth = st.depth, !.deep = @ \/ t.how = "stuck"]

MeaningCall(st, e) ==
  LET arg(t, kid) == LET u == Meaning(t.st, kid) IN [st |-> u, args |-> Append(t.args, u.val)]
      all == FoldLeft(arg, [st |-> st, args |-> <<>>], e.kids)
      sum == FoldLeft(LAMBDA n, m : (n + m) % Width, 0, all.args)
  IN IF e.v = NoVar THEN [all.st EXCEPT !.out = Append(@, sum), !.val = sum]
     ELSE IF all.st.depth = 0 THEN [all.st EXCEPT !.deep = TRUE, !.val = 0]
     ELSE MeaningBody(all.st, all.st.fns[e.v.uid], all.args)

MeaningBinary(st, e) ==
  LET s1 == Meaning(st, e.kids[1])
      s2 == Meaning(s1, Last(e.kids))
  IN [(IF Len(e.kids) = 1 THEN s1 ELSE s2) EXCEPT !.val = Calculate(e.op, s1.val, s2.val)]

Meaning(st, e) ==
  CASE e.op = "leaf" -> [st EXCEPT !.val = Val(st.env, e.v)]
    [] e.op \in Arith -> MeaningBinary(st, e)
    [] e.op = "and" -> LET s == Meaning(st, e.kids[1]) IN IF s.val = 0 THEN s ELSE Meaning(s, e.kids[2])
    [] e.op = "or" -> LET s == Meaning(st, e.kids[1]) IN IF s.val # 0 THEN s ELSE Meaning(s, e.kids[2])
    [] e.op = "call" -> MeaningCall(st, e)
    [] e.op \in {"asg", "return"} ->
         LET s == Meaning(st, e.kids[1]) IN
         [s EXCEPT !.env = Assign(@, e.v, s.val), !.how = IF e.op = "return" THEN "return" ELSE @]
    [] e.op = "if" -> LET c == Meaning(st, Stripped(e.kids[1])) IN
         IF c.val # 0 THEN Meaning(c, e.kids[2])
         ELSE IF Len(e.kids) = 3 THEN Meaning(c, e.kids[3]) ELSE c
    [] e.op = "while" -> MeaningWhile(st, e)
    [] e.op \in {"break", "continue"} -> [st EXCEPT !.how = e.op]
    [] e.op = "block" -> FoldLeft(LAMBDA s, kid : IF s.how = "next" THEN Meaning(s, kid) ELSE s, st, e.kids)
    [] e.op = "empty" -> st

\* What the program shows on an input, the result of its last function at the end;
\* how tells whether it came to its end.
Promised(fs, input) ==
  LET f == Last(fs)
      env == [v \in ToSet(f.params) |-> input[Uid(f.params, v)]]
      end == Meaning([env |-> Assign(env, f.retv, 0), out |-> <<>>, val |-> 0, how |-> "next",
                      fns |-> fs, depth |-> Fuel, deep |-> FALSE], f.body)
  IN [end EXCEPT !.out = Append(@, Val(end.env, f.retv)), !.how = IF end.deep THEN "stuck" ELSE @]
=============================================================================
