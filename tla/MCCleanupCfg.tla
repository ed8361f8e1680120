---------------------------- MODULE MCCleanupCfg ----------------------------
(* Three blocks between entry and exit.  In the first family the code has no *)
(* phis: blocks only branch, or count v up and show it first.  In the second *)
(* one the code is in SSA form and n3 merges what reaches it; blocks nothing  *)
(* reaches occur in both.                                                    *)
EXTENDS CleanupCfg, MCPrograms, TLC

CONSTANTS n0, n1, n2, n3, n4, v, va, vb, y, z

MCBlock == {n0, n1, n2, n3, n4}
MCVar == {v, va, vb, y, z}
MCOrder == <<n0, n1, n2, n3, n4>>

Graph(s, t, u) == (n0 :> <<n1>>) @@ (n1 :> s) @@ (n2 :> t) @@ (n3 :> u) @@ (n4 :> <<>>)
MCProgram(succs, insns) ==
  [order |-> MCOrder, succs |-> succs, preds |-> Preds(MCOrder, succs), insns |-> insns]
Graphs == {g \in {Graph(s, t, u) : s \in {<<n2>>, <<n2, n3>>, <<n2, n2>>, <<n3, n4>>, <<n2, n1>>},
                                   t, u \in Dests({n1, n2, n3, n4})} : Ends(g)}

EntryCode == <<I(1, "entry", NoVar, <<>>, 0), I(2, "fparam", v, <<>>, 0), Jump(3, n1)>>
Count(n) == <<Set(n, v, <<v>>, 1), Obs(n + 1, <<v>>, 0)>>

Bodies == {<< <<>>, <<>>, Count(30)>>, << <<Obs(11, <<v>>, 1)>>, Count(20), <<>> >>,
           << <<Obs(11, <<v>>, 1)>>, Count(20), Count(30)>>, << <<>>, Count(20), <<>> >>}
Plain == {MCProgram(g,
            (n0 :> EntryCode) @@ (n1 :> s[1] \o <<End(12, v, g[n1])>>)
              @@ (n2 :> s[2] \o <<End(22, v, g[n2])>>) @@ (n3 :> s[3] \o <<End(32, v, g[n3])>>)
              @@ (n4 :> <<I(41, "exit", NoVar, <<v>>, 0)>>)) : g \in Graphs, s \in Bodies}

ArgFrom == (n0 :> v) @@ (n1 :> va) @@ (n2 :> vb) @@ (n3 :> z)
Merge(preds) == Phi(31, y, [i \in DOMAIN preds |-> ArgFrom[preds[i]]])
Merging == {MCProgram(g,
              (n0 :> EntryCode) @@ (n1 :> <<Set(11, va, <<v>>, 1), End(12, va, g[n1])>>)
                @@ (n2 :> <<Set(21, vb, <<v>>, 0), End(22, vb, g[n2])>>)
                @@ (n3 :> <<Merge(Preds(MCOrder, g)[n3]), Set(32, z, <<y>>, 1), Obs(33, <<z>>, 0),
                           End(34, z, g[n3])>>)
                @@ (n4 :> <<I(41, "exit", NoVar, <<>>, 0)>>)) :
              g \in {h \in Graphs : Preds(MCOrder, h)[n3] # <<>>}}

MCGiven == Plain \cup Merging
=============================================================================
