------------------------------- MODULE MCDce -------------------------------
(* Functions in SSA form with two parameters and four blocks between entry   *)
(* and exit.  Each block shows something or nothing; n4 merges what reaches   *)
(* it and counts, so that loops through it come to an end.                   *)
EXTENDS Dce, MCPrograms, TLC

CONSTANTS n0, n1, n2, n3, n4, n5, v1, v2, xa, yb, yc, y, z

MCBlock == {n0, n1, n2, n3, n4, n5}
MCVar == {v1, v2, xa, yb, yc, y, z}
MCOrder == <<n0, n1, n2, n3, n4, n5>>

Graphs == {g \in {(n0 :> <<n1>>) @@ (n1 :> s) @@ (n2 :> t) @@ (n3 :> u) @@ (n4 :> w) @@ (n5 :> <<>>) :
                   s \in {<<n2>>, <<n2, n3>>, <<n3, n4>>, <<n2, n4>>},
                   t \in {<<n3>>, <<n4>>, <<n3, n4>>, <<n4, n5>>, <<n4, n2>>},
                   u \in {<<n4>>, <<n5>>, <<n4, n5>>, <<n2, n4>>},
                   w \in {<<n5>>, <<n1, n5>>, <<n5, n2>>}} :
             Ends(g) /\ \A k \in MCBlock \ {n0} : Preds(MCOrder, g)[k] # <<>>}

ArgFrom == (n0 :> v1) @@ (n1 :> xa) @@ (n2 :> yb) @@ (n3 :> xa) @@ (n4 :> z)
\* insert_phi_nodes puts phis only where paths meet.
Merge(preds) == IF Len(preds) = 1 THEN Set(51, y, <<ArgFrom[preds[1]]>>, 0)
                ELSE Phi(51, y, [i \in DOMAIN preds |-> ArgFrom[preds[i]]])
Show(k, S, n, v) == IF k \in S THEN <<Obs(n, <<v>>, 0)>> ELSE <<>>

MCGiven ==
  {[order |-> MCOrder, succs |-> g, preds |-> Preds(MCOrder, g), insns |->
     (n0 :> <<I(1, "entry", NoVar, <<>>, 0), I(2, "fparam", v1, <<>>, 0),
              I(3, "fparam", v2, <<>>, 1), Jump(4, n1)>>)
     @@ (n1 :> <<Set(11, xa, <<v1>>, 1), End(12, v1, g[n1])>>)
     @@ (n2 :> <<Set(21, yb, <<v2>>, 0)>> \o Show(n2, S, 22, v2) \o <<End(23, v2, g[n2])>>)
     @@ (n3 :> <<Set(31, yc, <<v1, v2>>, 1)>> \o Show(n3, S, 32, yc) \o <<End(33, yc, g[n3])>>)
     @@ (n4 :> <<Merge(Preds(MCOrder, g)[n4]), Set(52, z, <<y>>, 1)>> \o Show(n4, S, 53, z)
              \o <<End(54, z, g[n4])>>)
     @@ (n5 :> <<I(61, "exit", NoVar, <<>>, 0)>>)] :
     g \in Graphs, S \in SUBSET {n2, n3, n4}}
=============================================================================
