---------------------------- MODULE MCRaColorize ----------------------------
(* Three hard registers, the first destroyed by calls, and four virtual ones. *)
(* The first family has no loop and keeps up to three hard registers alive    *)
(* next to moves that are coalesced one after the other; in the second one a  *)
(* loop calls a function, so that registers alive around the call are         *)
(* spilled, the cheaper ones outside the loop first.                          *)
EXTENDS RaColorize, TLC

CONSTANTS b1, b2, b3

MCBlock == {b1, b2, b3}
MCBlocks == <<b1, b2, b3>>
MCSuccs == (b1 :> {b2}) @@ (b2 :> {b2, b3}) @@ (b3 :> {})
MCDepth == (b1 :> 0) @@ (b2 :> 1) @@ (b3 :> 0)
MCAvailable == "general" :> {0, 1, 2}
MCCallerSave == {0}
In(r) == [reg |-> r, out |-> FALSE]
To(r) == [reg |-> r, out |-> TRUE]
I(kind, ops) == [kind |-> kind, ops |-> ops]
Move(d, s) == I("move", <<To(d), In(s)>>)
Set(d) == I("plain", <<To(d)>>)
Op(d, s, t) == I("plain", <<To(d), In(s), In(t)>>)
Use(s, t) == I("plain", <<In(s), In(t)>>)

Given(s, t, u) == [code |-> (b1 :> s) @@ (b2 :> t) @@ (b3 :> u),
                   class |-> [v \in 0..6 |-> "general"]]
Straight ==
  {Given(<<Move(6, 2), Move(5, x), Move(6, 0), y>>, <<>>,
         <<Move(4, z), Op(5, 5, v), Use(6, w)>>) :
     x \in 1..2, y \in {Move(3, 5), Op(3, 5, 6)}, z \in {1, 5}, v \in {3, 4, 6}, w \in {1, 2, 4}}
Loops ==
  {Given(<<Move(3, 0), Move(4, 1), Set(5)>>,
         <<Op(x, x, y), I("marker", <<>>), Move(0, z), I("call", <<In(0), To(0)>>), Move(w, 0)>>,
         <<Move(0, w), Use(0, 4)>>) : x, y, z \in 3..5, w \in {3, 5}}
MCPrograms == Straight \cup Loops
=============================================================================
