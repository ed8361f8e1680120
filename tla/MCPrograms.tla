----------------------------- MODULE MCPrograms -----------------------------
(* How the model-checking modules put a function together: the graph from    *)
(* the branches, edges in the order build_cfg makes them.                    *)
EXTENDS IR

MCZero(v) == 0

I(n, op, d, u, l) == [uid |-> n, op |-> op, def |-> d, use |-> u, lit |-> l, to |-> <<>>]
Set(n, d, u, l) == I(n, "set", d, u, l)
Obs(n, u, l) == I(n, "obs", NoVar, u, l)
Phi(n, d, u) == I(n, "phi", d, u, 0)
If(n, v, s) == [uid |-> n, op |-> "if", def |-> NoVar, use |-> <<v>>, lit |-> 0, to |-> s]
Jump(n, d) == [uid |-> n, op |-> "goto", def |-> NoVar, use |-> <<>>, lit |-> 0, to |-> <<d>>]

\* A branch on v, or a jump, by the list of its destinations.
End(n, v, s) == IF Len(s) = 1 THEN Jump(n, s[1]) ELSE If(n, v, s)

Dests(S) == {<<d>> : d \in S} \cup (S \X S)
Preds(order, succs) == [b \in Block |->
  FoldLeft(LAMBDA s, a : s \o [i \in DOMAIN SelectSeq(succs[a], LAMBDA d : d = b) |-> a],
           <<>>, order)]

\* Every block reaches exit (a source loop always has an edge that leaves it).
Reaching(succs) ==
  LET grow[n \in 0..Cardinality(Block)] ==
        IF n = 0 THEN {Exit}
        ELSE LET near == grow[n - 1]
             IN near \cup {b \in Block : ToSet(succs[b]) \cap near # {}}
  IN grow[Cardinality(Block)]
Ends(succs) == Reaching(succs) = Block
=============================================================================
