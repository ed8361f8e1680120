----------------------------- MODULE MCPipeline -----------------------------
(* Functions of one parameter n: a straight piece of code, a branch, a loop   *)
(* and a loop with a branch in it, around lists of statements.                *)
EXTENDS Pipeline

CONSTANT Size

MCBlock == 1..Size
Local(n) == [kind |-> "local", uid |-> n, ver |-> 0]
N == Local(1)
A == Local(2)
B == Local(3)
C == Local(4)
T == Local(5)
R == Local(6)

Leaf(v) == Node("leaf", v, <<>>)
Num(n) == Leaf(Const(n))
Two(op, x, y) == Node(op, NoVar, <<x, y>>)
Asg(v, e) == Node("asg", v, <<e>>)
Copy(v, w) == Asg(v, Leaf(w))
Show(e) == Node("call", NoVar, <<e>>)
Seq_(S) == Node("block", NoVar, S)
If1(c, s) == Node("if", NoVar, <<c, s>>)
If2(c, s, t) == Node("if", NoVar, <<c, s, t>>)
While(c, s) == Node("while", NoVar, <<c, s>>)
Return(e) == Node("return", R, <<e>>)
Fun(S) == <<[params |-> <<N>>, retv |-> R, body |-> Seq_(S)]>>

\* while (n != 0) { body; n = n - 1; }
Step == Asg(N, Two("sub", Leaf(N), Num(1)))
Loop(init, body, after) ==
  Fun(init \o <<While(Two("ne", Leaf(N), Num(0)), Seq_(body \o <<Step>>))>> \o after)
Start3 == <<Copy(A, Const(0)), Copy(B, Const(1)), Copy(C, Const(2))>>
ShowAll == <<Show(Leaf(A)), Show(Leaf(B)), Return(Leaf(A))>>

Rot3 == Loop(Start3, <<Copy(T, A), Copy(A, B), Copy(B, C), Copy(C, T)>>, ShowAll)
Rot2 == Loop(Start3, <<Copy(T, A), Copy(A, B), Copy(B, T)>>, ShowAll)

\* Conditions, as the grammar allows them: and, or, not and minus as a test, a
\* comparison as a value, and conditions that are decided when the code is generated.
Is(op, v, n) == Two(op, Leaf(v), Num(n))
Not(e) == Node("not", NoVar, <<e>>)
Neg(e) == Node("neg", NoVar, <<e>>)
Conditions ==
  {Leaf(N), Not(Leaf(N)), Neg(Leaf(N)),
   Two("and", Is("lt", N, 2), Is("ne", N, 0)),
   Two("or", Is("eq", N, 1), Is("gt", N, 2)),
   Two("or", Is("eq", N, 0), Two("and", Not(Not(Leaf(A))), Is("le", N, 3))),
   Two("or", Two("and", Leaf(A), Leaf(N)), Not(Two("sub", Leaf(N), Num(1)))),
   Two("eq", Two("lt", Leaf(N), Leaf(A)), Not(Leaf(N))),
   Two("lt", Num(2), Num(1)), Two("or", Num(0), Two("eq", Num(1), Num(1)))}
IfSources(c) ==
  {Fun(Start3 \o <<If2(c, Copy(A, Const(3)), Seq_(<<Copy(B, N), Copy(C, A)>>)), If1(c, Copy(B, C))>>
       \o ShowAll)}
JumpSources(c) ==
  {Loop(Start3, <<If1(c, Seq_(<<Copy(B, C), s>>)), Asg(C, Two("add", Leaf(C), Leaf(A)))>>, ShowAll) :
     s \in {Node("break", NoVar, <<>>), Seq_(<<Step, Node("continue", NoVar, <<>>)>>), Return(Leaf(C))}}

\* Expressions: the same one in two places, in two forms, taken apart again.
Plus(x, y) == Two("add", x, y)
Minus(x, y) == Two("sub", x, y)
Times(x, y) == Two("mul", x, y)
LA == Leaf(A)
LB == Leaf(B)
LN == Leaf(N)
Identities ==
  {Fun(<<Asg(A, Plus(LN, Num(3))), Asg(B, Plus(Num(3), LN)), Show(Minus(LA, Num(3))), Return(Minus(LB, LN))>>),
   Fun(<<Asg(C, Minus(LN, Num(5))), Show(Plus(Num(5), Leaf(C))), Show(Plus(Leaf(C), Num(5))),
         Return(Minus(LN, Leaf(C)))>>),
   Fun(<<Show(Plus(Times(Num(1), LN), Num(0))), Show(Minus(Num(0), LN)), Return(Times(LN, Minus(LN, LN)))>>)}
Trees ==
  {Fun(<<Asg(A, Plus(Plus(Plus(LN, Num(1)), LN), Num(2))), Return(Plus(LA, Plus(Num(3), LA)))>>),
   Fun(<<Asg(A, Plus(LN, Times(LN, Times(Num(3), LN)))), Asg(B, Times(Times(LA, Num(2)), LA)), Show(LA),
         Return(Plus(LB, Plus(LA, LB)))>>),
   Fun(<<Show(Times(LN, Num(2))), Show(Times(Num(6), LN)), Show(Times(LN, Num(1))),
         Show(Times(Num(0), LN)), Return(Times(LN, Num(4)))>>)}
Quotients ==
  Fun(<<Show(Two("div", LN, Num(2))), Show(Two("div", LN, Num(6))), Show(Two("div", LN, Num(4))),
        Show(Two("div", LN, Num(1))), Return(Two("div", LN, Num(3)))>>)
Partly(c, notC) ==
  Fun(Start3 \o <<If1(c, Asg(A, Times(LN, LB))), Asg(C, Times(LN, LB)), If1(c, Asg(N, Num(2))),
                  Show(Times(LN, LB)), If1(notC, Asg(B, LN)), Show(Times(LN, LB))>> \o ShowAll)
Invariants ==
  Loop(Start3, <<Asg(T, Times(Plus(LB, Leaf(C)), LB)), If1(Is("lt", N, 2), Asg(A, Plus(LA, Leaf(T)))),
                 Show(Plus(LB, Leaf(C)))>>, ShowAll)
Nested ==
  Loop(Start3 \o <<Copy(T, Const(0))>>,
       <<Copy(C, N), While(Is("gt", C, 1), Seq_(<<Asg(T, Plus(Leaf(T), Times(LA, Num(2)))),
                                                 Asg(C, Minus(Leaf(C), Num(1)))>>)),
         Asg(A, Plus(LA, LB))>>, <<Show(Leaf(T))>> \o ShowAll)

\* Products of what a loop counts with, by something it does not change.
Multiples ==
  {Fun(<<Asg(B, Plus(LN, Num(1))), Asg(C, Plus(LB, LN)),
         While(Is("lt", N, 5), Seq_(<<Show(Times(LN, Leaf(C))), Asg(N, Plus(LN, LB))>>)), Return(Times(LN, Leaf(C)))>>),
   Fun(<<Copy(A, N), Asg(B, Plus(LN, Num(1))), Asg(C, Plus(LB, LN)),
         While(Is("lt", N, 5), Seq_(<<While(Is("lt", A, 5), Seq_(<<Show(Times(LA, Leaf(C))), Asg(A, Plus(LA, LB))>>)),
                                      Asg(A, Plus(LN, Num(1))), Show(Times(LN, LB)), Asg(N, Plus(LN, Num(1)))>>)),
         Return(Times(LN, Leaf(C)))>>)}

\* while (n > 0) if (n > 2) n = n - 2; else n = n - 1;
Count ==
  Fun(<<Copy(A, Const(0)),
        While(Is("gt", N, 0), If2(Is("gt", N, 2), Asg(N, Minus(LN, Num(2))), Asg(N, Minus(LN, Num(1))))),
        If1(LN, Copy(A, Const(1))), Return(LA)>>)

\* Programs with more functions, each with its own variables.
G == [kind |-> "global", uid |-> 7, ver |-> 0]
H == [kind |-> "global", uid |-> 10, ver |-> 0]
Own(n, k) == Local(10 * n + k)
Fn(n, S) == [params |-> <<Own(n, 1)>>, retv |-> Own(n, 0), body |-> Seq_(S)]
Proc(n, S) == [params |-> <<Own(n, 1)>>, retv |-> NoVar, body |-> Seq_(S)]
X(n, k) == Leaf(Own(n, k))
Ret(n, e) == Node("return", Own(n, 0), <<e>>)
Invoke(n, kids) == Node("call", [kind |-> "func", uid |-> n, ver |-> 0], kids)
Program_(fs, S) == Append(fs, Fun(S)[1])

\* x * x with a local; a loop that counts; one that calls the others.
Square(n) == Fn(n, <<Asg(Own(n, 2), Times(X(n, 1), X(n, 1))), Ret(n, X(n, 2))>>)
Clamp(n) == Fn(n, <<If1(Two("lt", X(n, 1), Num(2)), Ret(n, Num(1))),
                    While(Two("gt", X(n, 1), Num(2)), Asg(Own(n, 1), Minus(X(n, 1), Num(1)))), Ret(n, X(n, 1))>>)
Both(n, f, g) == Fn(n, <<Ret(n, Plus(Invoke(f, <<X(n, 1)>>), Invoke(g, <<Plus(X(n, 1), Num(1))>>)))>>)
Tally == Fun(<<While(Is("gt", N, 0), Seq_(<<Asg(G, Plus(Leaf(G), LN)), Step>>)), Return(Leaf(G))>>)
Bump(n) == Proc(n, <<Asg(G, Plus(Leaf(G), X(n, 1))), Asg(H, Leaf(G))>>)
Inlined ==
  {Program_(<<Square(1)>>, <<Asg(A, Invoke(1, <<LN>>)), Return(Plus(LA, Invoke(1, <<Plus(LA, Num(1))>>)))>>),
   Program_(<<Clamp(1)>>, <<Asg(A, Invoke(1, <<LN>>)), Show(LA), Return(Invoke(1, <<Invoke(1, <<Num(3)>>)>>))>>),
   Program_(<<Square(1), Clamp(2), Both(3, 1, 2)>>, <<Show(Invoke(1, <<LN>>)), Return(Invoke(3, <<LN>>))>>),
   Program_(<<Bump(1), Square(2)>>, <<If1(LN, Invoke(1, <<LN>>)), Show(Leaf(G)), Invoke(1, <<Invoke(2, <<Num(1)>>)>>),
                                      Return(Leaf(G))>>),
   Program_(<<Square(1)>>, <<While(Is("gt", N, 0), Seq_(<<Asg(A, Plus(LA, Invoke(1, <<LN>>))), Step>>)), Return(LA)>>)}

\* Functions that call themselves, once or twice, with something shown in between.
Fact(n) == Fn(n, <<If1(Two("lt", X(n, 1), Num(1)), Ret(n, Num(1))),
                   Ret(n, Times(X(n, 1), Invoke(n, <<Minus(X(n, 1), Num(1))>>)))>>)
Fib(n) == Fn(n, <<If1(Two("lt", X(n, 1), Num(2)), Ret(n, X(n, 1))),
                  Ret(n, Plus(Invoke(n, <<Minus(X(n, 1), Num(1))>>), Invoke(n, <<Minus(X(n, 1), Num(2))>>)))>>)
Tell(n) == Fn(n, <<If1(Two("lt", X(n, 1), Num(1)), Ret(n, Num(1))), Asg(G, Plus(Leaf(G), Num(1))),
                   Asg(Own(n, 2), Invoke(n, <<Minus(X(n, 1), Num(1))>>)), Show(X(n, 1)),
                   Ret(n, Plus(X(n, 2), Invoke(n, <<Minus(X(n, 1), Num(2))>>)))>>)
Recursive ==
  {Program_(<<Fact(1)>>, <<Return(Invoke(1, <<LN>>))>>),
   Program_(<<Fib(1)>>, <<Show(Leaf(G)), Return(Invoke(1, <<LN>>))>>),
   Program_(<<Tell(1), Square(2)>>, <<Show(Invoke(2, <<LN>>)), Asg(A, Invoke(1, <<LN>>)), Return(Plus(LA, Leaf(G)))>>)}

MCSources == {Rot2, Count, Tally, Rot3, Quotients, Invariants, Nested} \cup Identities \cup Trees \cup Multiples \cup Inlined \cup Recursive
  \cup {Partly(Is("lt", N, 2), Is("ge", N, 2)), Partly(LN, Not(LN))}
  \cup UNION {IfSources(c) : c \in Conditions}
  \cup JumpSources(Is("eq", N, 2)) \cup JumpSources(Two("or", Is("eq", A, 0), Is("gt", N, 1)))
\* Calls are left where functions call themselves: the other passes are not followed.
First3 == <<"copy_loop_headers", "inline_transform", "GlobalVariableLocalization">>
MCPlan(fs) == IF fs \in Recursive THEN First3 ELSE First3 \o <<
  "build_ssa", "GlobalValueNumbering", "perform_ssa_dce", "remove_ssa_form", "copyprop",
  "LazyCodeMotion", "OSR",
  "build_ssa", "perform_ssa_dce", "treeheight", "GlobalValueNumbering", "perform_ssa_dce",
  "remove_ssa_form", "copyprop", "StraightLineStrengthReduce",
  "build_ssa", "perform_ssa_dce", "rewrite_out_of_ssa", "copyprop">>
=============================================================================
