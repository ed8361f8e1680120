-------------------------- MODULE MCLiveIntervals --------------------------
(* Two blocks between entry and exit, two virtual registers, two argument     *)
(* registers a call destroys, the link register and SPILL_REG.  As in the     *)
(* back end every block but the last ends with a branch, branches and calls   *)
(* read and write SPILL_REG, and a call does not name its argument registers. *)
EXTENDS LiveIntervals, TLC

CONSTANTS n0, n1, n2, n3, v1, v2, h0, h1, lr, ip

MCBlock == {n0, n1, n2, n3}
MCReg == {v1, v2, h0, h1, lr, ip}
MCHard == {h0, h1, lr, ip}

I(o, i) == [out |-> o, in |-> i, kind |-> "plain"]
B == I({ip}, {ip})
BL == [out |-> {ip, lr}, in |-> {ip}, kind |-> "call"]
MarkerInsn == [out |-> {}, in |-> {}, kind |-> "marker"]

MCGraphs == {(n0 :> <<n1>>) @@ (n1 :> s) @@ (n2 :> t) @@ (n3 :> <<>>) :
               s \in {<<n2, n3>>, <<n3, n2>>, <<n2>>, <<n1, n2>>}, t \in {<<n1, n3>>, <<n3>>, <<n1>>, <<n3, n2>>}}

MCBodies == {<<>>,
             <<I({v2}, {v1})>>, <<I({v2}, {}), I({v1}, {v1})>>,
             <<I({v2}, {v1}), I({v1}, {v2})>>, <<I({}, {v2})>>,
             <<I({v1}, {v2}), I({v2}, {v2})>>, <<I({v1}, {v2}), I({v2}, {v1})>>,
             <<I({}, {v1, v2}), I({v1}, {}), I({v2}, {v1})>>,
             <<MarkerInsn, I({h0}, {v1}), I({h1}, {v2}), BL>>,
             <<MarkerInsn, I({v1}, {v2}), I({h1}, {v1}), BL, I({v2}, {h0})>>}
MCCodes == {(n0 :> <<I({v1}, {h0}), B>>) @@ (n1 :> s \o <<B>>) @@ (n2 :> t \o <<B>>) @@ (n3 :> u) :
              s \in MCBodies, t \in MCBodies,
              u \in {<<>>, <<I({h0}, {v1}), I({}, {h0})>>}}
=============================================================================
