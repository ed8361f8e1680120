----------------------------- MODULE MCLiveness -----------------------------
(* Three blocks between entry and exit: branches, joins, loops, crossing     *)
(* edges, blocks that end nowhere and blocks nothing reaches, with short     *)
(* code over two registers.                                                  *)
EXTENDS Liveness, TLC

CONSTANTS e, a, b, c, x, r1, r2

MCBlock == {e, a, b, c, x}
MCReg == {r1, r2}

MCLists(S) == {<<>>} \cup {<<d>> : d \in S} \cup {s \in S \X S : s[1] # s[2]}
MCGraphs == {(e :> <<a>>) @@ (a :> s) @@ (b :> t) @@ (c :> u) @@ (x :> <<>>) :
               s \in {<<b, c>>, <<c, b>>, <<b, x>>, <<b>>},
               t \in MCLists({a, c, x}), u \in MCLists({a, b, x})}

W(r) == [out |-> {r}, in |-> {}, kind |-> "plain"]
R(r) == [out |-> {}, in |-> {r}, kind |-> "plain"]
Copy(r, s) == [out |-> {r}, in |-> {s}, kind |-> "plain"]

MCCodes == {(e :> <<W(r1)>>) @@ (a :> s) @@ (b :> t) @@ (c :> u) @@ (x :> v) :
              s \in {<<>>, <<Copy(r1, r1)>>, <<Copy(r2, r1), R(r2)>>},
              t \in {<<R(r2)>>, <<W(r2), Copy(r1, r2)>>, <<R(r1), W(r1)>>},
              u \in {<<>>, <<R(r2), W(r1)>>}, v \in {<<>>, <<R(r1)>>}}
=============================================================================
