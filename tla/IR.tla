---------------------------------- MODULE IR ----------------------------------
(***************************************************************************)
(* The intermediate code of one function as the optimisation passes see    *)
(* it: basic blocks with their instructions and edges (IR/IRInst.c,        *)
(* IR/IRCode.c, IR/cfg.c), and what the code does when it runs.            *)
(*                                                                         *)
(* A branch names its destination by the number of the destination's first *)
(* instruction; update_destinations keeps that number right whenever the   *)
(* first instruction changes, so it is modelled as the block itself.       *)
(* Words have Width values; a call with its params is one instruction:     *)
(* "call" of the lit-th function of the program, "obs" of an external one  *)
(* that shows them.  "set" stands for arithmetic where only the operands   *)
(* matter: a sum of them and a number.                                     *)
(***************************************************************************)
EXTENDS Integers, SequencesExt

CONSTANTS
  Block, Entry, Exit,   \* entry_block_ptr, exit_block_ptr
  Var, NoVar,           \* a variable and its SSA version, or a constant
  Initial(_),           \* value of a name nothing has assigned
  Width,                \* values are 0..Width - 1
  MaxBlocks             \* BOUND on the blocks an execution is followed through

Value == 0..(Width - 1)
Compare == {"ifeq", "ifne", "iflt", "ifge", "ifgt", "ifle"}
Relation == {"eq", "ne", "lt", "ge", "gt", "le"}
Arith == {"add", "sub", "mul", "div", "neg", "not", "lsl", "lsr", "asr"} \cup Relation
\* "nop" also stands for the marks of lexical blocks.
Op == {"entry", "fparam", "set", "phi", "obs", "call", "if", "goto", "exit", "load", "store", "move", "nop"}
      \cup Compare \cup Arith

\* uid 0 belongs to instructions a pass has created; the n-th fparam has lit = n.
Insn == [uid : Nat, op : Op, def : Var \cup {NoVar}, use : Seq(Var),
         lit : Nat, to : Seq(Block)]

Goto(d) == [uid |-> 0, op |-> "goto", def |-> NoVar, use |-> <<>>, lit |-> 0, to |-> <<d>>]

\* order is basic_block_info, succs and preds the edge lists of the blocks.
Program == [order : Seq(Block), insns : [Block -> Seq(Insn)],
            succs : [Block -> Seq(Block)], preds : [Block -> Seq(Block)]]

-----------------------------------------------------------------------------
\* Position of the n-th x in the list s; the edges between two blocks are told
\* apart by their order, which make_edge gives both lists.
Nth(s, x, n) == CHOOSE i \in DOMAIN s : s[i] = x /\ Cardinality({j \in 1..i : s[j] = x}) = n
Without(s, x) == SelectSeq(s, LAMBDA y : y # x)

\* S itself: TLC keeps a filter as it is and would apply it again at every look.
Listed(S) == {x : x \in S}

MakeEdge(p, a, b) == [p EXCEPT !.succs[a] = Append(@, b), !.preds[b] = Append(@, a)]

RemoveEdge(p, a, i) ==
  LET b == p.succs[a][i]
      n == Cardinality({j \in 1..i : p.succs[a][j] = b})
  IN [p EXCEPT !.succs[a] = RemoveAt(@, i), !.preds[b] = RemoveAt(@, Nth(@, a, n))]

\* Every edge into b, one after the other, is made anew into d and removed.
MoveEdges(p, b, d) ==
  [p EXCEPT
     !.succs = [a \in Block |->
       LET n == Cardinality({i \in DOMAIN p.succs[a] : p.succs[a][i] = b}) IN
       Without(p.succs[a], b) \o [i \in 1..n |-> d]],
     !.preds = [p.preds EXCEPT ![d] = @ \o p.preds[b], ![b] = <<>>]]

\* free_block
FreeBlocks(p, B) ==
  [order |-> SelectSeq(p.order, LAMBDA b : b \notin B),
   insns |-> [b \in Block |-> IF b \in B THEN <<>> ELSE p.insns[b]],
   succs |-> [b \in Block |-> IF b \in B THEN <<>>
                              ELSE SelectSeq(p.succs[b], LAMBDA c : c \notin B)],
   preds |-> [b \in Block |-> IF b \in B THEN <<>>
                              ELSE SelectSeq(p.preds[b], LAMBDA c : c \notin B)]]

\* update_destinations (d, first instruction of old, first instruction of d)
Retarget(p, d, old) ==
  [p EXCEPT !.insns = [a \in Block |->
     IF a \in ToSet(p.preds[d])
     THEN [p.insns[a] EXCEPT ![Len(p.insns[a])].to =
             [i \in DOMAIN @ |-> IF @[i] = old THEN d ELSE @[i]]]
     ELSE p.insns[a]]]

SetLast(p, b, insn) == [p EXCEPT !.insns[b] = Append(Front(@), insn)]

\* pre_and_rev_post_order_compute (module BlockOrder has it step by step).
RevPostOrder(succs) ==
  LET State == [seen : SUBSET Block, stack : Seq(Block \X Nat), rpo : Seq(Block)]
      walk[s \in State] ==
        IF s.stack = <<>> THEN <<Entry>> \o s.rpo
        ELSE LET top == Last(s.stack)
                 dest == succs[top[1]][top[2]]
             IN IF dest \notin s.seen
                THEN walk[[seen |-> s.seen \cup {dest},
                           stack |-> IF succs[dest] = <<>> THEN s.stack
                                     ELSE Append(s.stack, <<dest, 1>>),
                           rpo |-> IF succs[dest] = <<>> THEN <<dest>> \o s.rpo ELSE s.rpo]]
                ELSE IF top[2] < Len(succs[top[1]])
                THEN walk[[s EXCEPT !.stack[Len(s.stack)][2] = @ + 1]]
                ELSE walk[[s EXCEPT !.stack = Front(@),
                                    !.rpo = IF top[1] = Entry THEN @ ELSE <<top[1]>> \o @]]
  IN walk[[seen |-> {Exit}, stack |-> << <<Entry, 1>> >>, rpo |-> <<Exit>>]]

\* compute_dominators: <<b, d>> stays while d dominates every block an edge into
\* b comes from; reversed, the edges are followed to where they go.
Dominators(p, edges, root) ==
  LET B == ToSet(p.order)
      keep(S) == Listed({bd \in S : \/ bd[1] = bd[2]
                                    \/ \A c \in ToSet(edges[bd[1]]) : <<c, bd[2]>> \in S})
      shrink[S \in SUBSET (Block \X Block)] == IF keep(S) = S THEN S ELSE shrink[keep(S)]
  IN shrink[Listed({bd \in B \X B : bd[1] = root => bd[2] = root})]

\* get_immediate_dominator: the dominator of b that all its others dominate.
ImmediateDominator(b, dom) ==
  LET above == {bd[2] : bd \in {x \in dom : x[1] = b}} \ {b} IN
  CHOOSE d \in above : \A c \in above : <<d, c>> \in dom

-----------------------------------------------------------------------------
\* What the code does.  A state of an execution: the next block, the block it
\* comes from, the variables, the values shown and the calculations done so far;
\* lib has the other functions of the program.
Val(env, v) == IF v \in DOMAIN env THEN env[v] ELSE Initial(v)
Assign(env, v, n) ==
  IF v = NoVar THEN env ELSE [x \in DOMAIN env \cup {v} |-> IF x = v THEN n ELSE env[x]]

Sum(insn, env) ==
  (insn.lit + FoldLeft(LAMBDA n, v : n + Val(env, v), 0, insn.use)) % Width

\* The upper half of the words are the negative numbers.
Abs(n) == IF n < 0 THEN -n ELSE n
Signed(n) == IF 2 * n < Width THEN n ELSE n - Width
Holds(op, x, y) ==
  CASE op \in {"ifeq", "eq"} -> x = y
    [] op \in {"ifne", "ne"} -> x # y
    [] op \in {"iflt", "lt"} -> x < y
    [] op \in {"ifge", "ge"} -> x >= y
    [] op \in {"ifgt", "gt"} -> x > y
    [] op \in {"ifle", "le"} -> x =< y
Truncated(m, n) ==   \* a quotient is rounded towards 0, that by 0 is 0
  IF n = 0 THEN 0 ELSE IF (m < 0) = (n < 0) THEN Abs(m) \div Abs(n) ELSE -(Abs(m) \div Abs(n))
Calculate(op, x, y) ==
  CASE op = "add" -> (x + y) % Width
    [] op = "sub" -> (x - y) % Width
    [] op = "mul" -> (x * y) % Width
    [] op = "div" -> Truncated(Signed(x), Signed(y)) % Width
    [] op = "lsl" -> (x * 2^y) % Width
    [] op = "lsr" -> x \div 2^y
    [] op = "asr" -> (Signed(x) \div 2^y) % Width
    [] op = "neg" -> (-x) % Width
    [] op = "not" -> IF x = 0 THEN 1 ELSE 0
    [] op \in Relation -> IF Holds(op, Signed(x), Signed(y)) THEN 1 ELSE 0
Taken(insn, env) ==
  IF insn.op = "if" THEN Val(env, insn.use[1]) # 0
  ELSE Holds(insn.op, Signed(Val(env, insn.use[1])), Signed(Val(env, insn.use[2])))

RECURSIVE RunOn(_, _, _, _)

\* A function called has variables of its own; globals (module Names) are shared.
Call(s, insn) ==
  LET globals(env) == {v \in DOMAIN env : v.kind = "global"}
      input == [k \in DOMAIN insn.use |-> Val(s.env, insn.use[k])]
      t == RunOn(s.lib[insn.lit], input,
                 [s EXCEPT !.env = [v \in globals(@) |-> @[v]], !.next = Entry], MaxBlocks)
      back == [v \in DOMAIN s.env \cup globals(t.env) |->
                 IF v \in globals(t.env) THEN t.env[v] ELSE s.env[v]]
  IN [s EXCEPT !.env = Assign(back, insn.def, Last(t.out)), !.out = Front(t.out), !.work = t.work]

Execute(p, input, s, insn) ==
  CASE insn.op = "fparam" -> [s EXCEPT !.env = Assign(@, insn.def, input[insn.lit])]
    [] insn.op = "set"  -> [s EXCEPT !.env = Assign(@, insn.def, Sum(insn, @))]
    [] insn.op = "phi"  ->   \* all phis of a block read the values at its entry
         [s EXCEPT !.env = Assign(@, insn.def,
            Val(s.entered, insn.use[Nth(p.preds[s.at], s.from, 1)]))]
    [] insn.op = "obs"  -> [s EXCEPT !.out = Append(@, Sum(insn, s.env)),
                                     !.env = Assign(@, insn.def, Sum(insn, @))]
    [] insn.op = "call" -> Call(s, insn)
    [] insn.op \in {"load", "store", "move"} ->
         [s EXCEPT !.env = Assign(@, insn.def, Val(@, insn.use[1]))]
    [] insn.op \in Arith ->
         [s EXCEPT !.work = @ + 1, !.env = Assign(@, insn.def,
            Calculate(insn.op, Val(@, insn.use[1]), Val(@, Last(insn.use))))]
    [] insn.op \in Compare \cup {"if"} ->
         [s EXCEPT !.next = insn.to[IF Taken(insn, s.env) THEN 1 ELSE 2]]
    [] insn.op = "goto" -> [s EXCEPT !.next = insn.to[1]]
    [] insn.op = "exit" -> [s EXCEPT !.out = Append(@, Sum(insn, s.env)), !.halted = TRUE]
    [] OTHER -> s

Start(b) == [at |-> b, from |-> b, next |-> b, env |-> [v \in {} |-> 0],
             entered |-> [v \in {} |-> 0], out |-> <<>>, work |-> 0, halted |-> FALSE,
             lib |-> <<>>]

RunBlock(p, input, s) ==
  LET here == [s EXCEPT !.at = s.next, !.from = s.at, !.entered = s.env] IN
  FoldLeft(LAMBDA t, insn : Execute(p, input, t, insn), here, p.insns[s.next])

\* The execution through at most MaxBlocks blocks.
RunOn(p, input, s, n) ==
  IF s.halted \/ n = 0 THEN s ELSE RunOn(p, input, RunBlock(p, input, s), n - 1)
RunWith(p, input, lib) == RunOn(p, input, [Start(Entry) EXCEPT !.lib = lib], MaxBlocks)
Run(p, input) == RunWith(p, input, <<>>)

Halts(p, input) == Run(p, input).halted
Output(p, input) == Run(p, input).out
Work(p, input) == Run(p, input).work

-----------------------------------------------------------------------------
Target(p, b) == IF p.insns[b] = <<>> THEN <<>> ELSE Last(p.insns[b]).to
SameElements(s, t) == \A x \in ToSet(s) \cup ToSet(t) :
  Cardinality({i \in DOMAIN s : s[i] = x}) = Cardinality({i \in DOMAIN t : t[i] = x})

\* The edge lists describe the same edges from both ends, and they are where
\* the branches go.
EdgesAgree(p) ==
  \A b \in ToSet(p.order) :
    /\ \A c \in ToSet(p.order) :
         Cardinality({i \in DOMAIN p.succs[b] : p.succs[b][i] = c}) =
         Cardinality({i \in DOMAIN p.preds[c] : p.preds[c][i] = b})
    /\ p.succs[b] # <<>> => SameElements(Target(p, b), p.succs[b])

\* A phi that can run has one argument for every edge into its block.
PhisFit(p) ==
  \A b \in ToSet(RevPostOrder(p.succs)) : \A i \in DOMAIN p.insns[b] :
    p.insns[b][i].op = "phi" => Len(p.insns[b][i].use) = Len(p.preds[b])
=============================================================================
