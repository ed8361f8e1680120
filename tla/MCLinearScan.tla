---------------------------- MODULE MCLinearScan ----------------------------
(* One class of four hard registers; hard register 0 is needed by calls, the *)
(* other three never (r4-r11 in the code), and an instruction has at most    *)
(* one output and two inputs.                                                *)
EXTENDS LinearScan

CONSTANTS General, LastPos, NumHard

MCClass == {General}
MCNextAvail == [c \in MCClass |-> 0]
MCMaxNum == [c \in MCClass |-> NumHard]

\* A register is defined once, or live on entry (begin = 0), read once, and may
\* stay live after its last use when it is live around a loop; one that is
\* never used has an empty range at its definition.
MCLifetimes ==
  {[begin |-> b, end |-> e, remat |-> k = 1, cl |-> General,
    ops |-> (IF b > 0 THEN {<<b, 0>>} ELSE {}) \cup {<<u, k>>}] :
     b \in 0..LastPos, e \in 1..LastPos, u \in 1..LastPos, k \in 1..2}
  \cup
  {[begin |-> b, end |-> b, remat |-> FALSE, cl |-> General, ops |-> {<<b, 0>>}] :
     b \in 1..LastPos}
MCRealLifetimes ==
  {l \in MCLifetimes : \A o \in l.ops : o[1] =< l.end /\ (o[2] = 0 \/ (l.begin < o[1] /\ l.end \in {o[1], LastPos}))}

\* Registers are numbered in the order of their first definition, and somewhere
\* more of them are live than never-blocked hard registers exist (or there are
\* few of them): functions without pressure spill nothing.
MCPressure(l) == \E p \in 0..LastPos :
  Cardinality({r \in DOMAIN l : l[r].begin =< p /\ p < l[r].end}) >= NumHard
MCCode(l) == /\ \A r, s \in DOMAIN l : r < s => l[r].begin =< l[s].begin
             /\ NumInitial > NumHard => MCPressure(l)
             /\ \A r, s \in DOMAIN l :   \* at most one is never read
                  l[r].begin = l[r].end /\ l[s].begin = l[s].end => r = s
             /\ \A r, s \in DOMAIN l :   \* same range: the first use decides
                  r < s /\ l[r].begin = l[s].begin /\ l[r].end = l[s].end =>
                    l[r].remat \/ ~ l[s].remat

MCFixedInputs ==
  {[h \in 0..(NumHard - 1) |-> IF h = 0 THEN F ELSE {}] :
     F \in {{<<1, 3>>}}}
=============================================================================
