------------------------------- MODULE Liveness -------------------------------
(***************************************************************************)
(* The live sets of the register allocators and of SSA construction:       *)
(* compute_global_live_sets (backend/linearscan.c and, word for word,      *)
(* backend/ra-colorize.c) and compute_liveness (IR/cfg.c), preceded by the *)
(* walk that orders the blocks (module BlockOrder).                        *)
(*                                                                         *)
(* An instruction is the set of registers it writes and the set it reads;  *)
(* what ArmInstInput and ArmInstOutput (or IRInstIsOutput, plus the        *)
(* non-constant globals at a call) return is data.  Its kind matters to    *)
(* module LiveIntervals only.                                              *)
(***************************************************************************)
EXTENDS BlockOrder

CONSTANTS
  Reg,
  Codes      \* what the blocks may contain: functions Block -> Seq(Insn)

Insn == [out : SUBSET Reg, in : SUBSET Reg,
         kind : {"plain", "marker", "call"}]

ASSUME CodeAssumption == \A c \in Codes : c \in [Block -> Seq(Insn)]

VARIABLES
  code,      \* get_code (block)
  livein, liveout,
  work,      \* the bitmap the walk over a block updates
  at,        \* position of the current block in rpo
  k,         \* instructions of the current block still to walk over
  change,    \* change_occurred
  point      \* HISTORY: point[b][i] is what `work' was between instructions i
             \* and i + 1 when block b was last walked over

liveVars == <<livein, liveout, work, at, k, change, point>>
vars == <<succs, orderVars, pc, code, liveVars>>

Init ==
  /\ OrderInit
  /\ code \in Codes
  /\ livein = [b \in Block |-> {}] /\ liveout = [b \in Block |-> {}]
  /\ work = {} /\ at = 0 /\ k = 0 /\ change = FALSE
  /\ point = [b \in Block |-> [i \in 0..Len(code[b]) |-> {}]]

Here == rpo[at]

\* work after the loop over the successors; cleared when there are none.
MutantNotCleared(b) ==
  IF succs[b] = <<>> THEN work
  ELSE UNION {livein[succs[b][i]] : i \in DOMAIN succs[b]}
LiveAtEnd(b) == UNION {livein[succs[b][i]] : i \in DOMAIN succs[b]}

\* Outputs are removed first, then inputs added.
MutantInputsFirst(insn, live) == (live \cup insn.in) \ insn.out
Before(insn, live) == (live \ insn.out) \cup insn.in

\* change_occurred after bitmap_ior_into (livein, work)
MutantLastBlockDecides(b) == ~ (work \subseteq livein[b])
Changed(b) == change \/ ~ (work \subseteq livein[b])

\* A round: change_occurred = FALSE, then the blocks from the last to the first.
MutantNotReset == change
NoChangeYet == FALSE
MutantPastLast == Len(rpo) + 1
LastBlock == Len(rpo)
StartRound == at' = LastBlock /\ change' = NoChangeYet /\ pc' = "block"

StartRounds ==
  /\ pc = "ordered"
  /\ StartRound
  /\ UNCHANGED <<succs, orderVars, code, livein, liveout, work, k, point>>

EnterBlock ==
  /\ pc = "block" /\ at > 0
  /\ work' = LiveAtEnd(Here)
  /\ liveout' = [liveout EXCEPT ![Here] = LiveAtEnd(Here)]
  /\ k' = Len(code[Here])
  /\ point' = [point EXCEPT ![Here][Len(code[Here])] = LiveAtEnd(Here)]
  /\ pc' = "walk"
  /\ UNCHANGED <<succs, orderVars, code, livein, at, change>>

WalkInsn ==
  /\ pc = "walk" /\ k > 0
  /\ work' = Before(code[Here][k], work)
  /\ point' = [point EXCEPT ![Here][k - 1] = Before(code[Here][k], work)]
  /\ k' = k - 1
  /\ UNCHANGED <<succs, orderVars, pc, code, livein, liveout, at, change>>

LeaveBlock ==
  /\ pc = "walk" /\ k = 0
  /\ change' = Changed(Here)
  /\ livein' = [livein EXCEPT ![Here] = @ \cup work]
  /\ at' = at - 1
  /\ pc' = "block"
  /\ UNCHANGED <<succs, orderVars, code, liveout, work, k, point>>

EndRound ==
  /\ pc = "block" /\ at = 0
  /\ IF change THEN StartRound ELSE pc' = "done" /\ UNCHANGED <<at, change>>
  /\ UNCHANGED <<succs, orderVars, code, livein, liveout, work, k, point>>

Order == OrderNext /\ UNCHANGED <<code, liveVars>>

Next == Order \/ StartRounds \/ EnterBlock \/ WalkInsn \/ LeaveBlock \/ EndRound

\* One sequential computation, which goes on while it can.
Spec == Init /\ [][Next]_vars /\ WF_vars(Next)

-----------------------------------------------------------------------------
TypeOK ==
  /\ OrderTypeOK
  /\ pc \in {"dfs", "ordered", "block", "walk", "done"}
  /\ code \in [Block -> Seq(Insn)]
  /\ livein \in [Block -> SUBSET Reg] /\ liveout \in [Block -> SUBSET Reg]
  /\ work \in SUBSET Reg /\ at \in 0..Len(rpo) /\ k \in Nat
  /\ change \in BOOLEAN
  /\ DOMAIN point = Block
  /\ \A b \in Block : point[b] \in [0..Len(code[b]) -> SUBSET Reg]

\* The blocks in rpo, each once and the entry first: every block a run of the
\* function can reach is numbered, and an edge to an earlier block always closes
\* a cycle, which is what makes life ranges as short as the linear order allows.
Numbering ==
  pc \in {"block", "walk", "done"} =>
    /\ rpo[1] = Entry /\ rpo[Len(rpo)] = Exit
    /\ \A i, j \in DOMAIN rpo : i # j => rpo[i] # rpo[j]
    /\ \A i, j \in DOMAIN rpo :
         IsEdge(rpo[i], rpo[j]) /\ j =< i =>
           rpo[i] = rpo[j] \/ rpo[j] \in ReachingWithin(rpo[i], Cardinality(Block))
    /\ \A b \in Block :
         Entry \in ReachingWithin(b, Cardinality(Block)) => \E i \in DOMAIN rpo : rpo[i] = b

\* The live sets satisfy the flow equations instruction by instruction once the
\* rounds are over, although a round reads live-in sets it changes itself and
\* only the `change' flag says that nothing was missed.
Consistent(b) ==
  /\ liveout[b] = LiveAtEnd(b)
  /\ point[b][Len(code[b])] = liveout[b]
  /\ \A i \in 1..Len(code[b]) : point[b][i - 1] = Before(code[b][i], point[b][i])
  /\ point[b][0] \subseteq livein[b]
Solution == pc = "done" => \A i \in DOMAIN rpo : Consistent(rpo[i])

\* The registers that some path from the i-th instruction gap of b reads before
\* it writes them, found without the data flow equations.
Gaps == UNION {{b} \X (1..Len(code[b]) + 1) : b \in Block}
After(p) ==  \* gap p = <<b, i>> lies before instruction i
  IF p[2] =< Len(code[p[1]]) THEN {<<p[1], p[2] + 1>>}
  ELSE {<<succs[p[1]][i], 1>> : i \in DOMAIN succs[p[1]]}
Reads(p, r) == p[2] =< Len(code[p[1]]) /\ r \in code[p[1]][p[2]].in
Writes(p, r) == p[2] =< Len(code[p[1]]) /\ r \in code[p[1]][p[2]].out
LiveGaps(r) ==
  LET gaps == {p \in Gaps : TRUE}
      closure[L \in SUBSET gaps] ==
        LET K == {p \in gaps : p \in L \/ (~ Writes(p, r) /\ After(p) \cap L # {})} IN
        IF K = L THEN L ELSE closure[K]
  IN closure[{p \in gaps : Reads(p, r)}]

\* When the rounds stop, a register is in the live-in set of a numbered block
\* exactly if some path from there reads it before writing it.
Exact ==
  pc = "done" =>
    \A r \in Reg : LET L == LiveGaps(r) IN
      \A i \in DOMAIN rpo : r \in livein[rpo[i]] <=> <<rpo[i], 1>> \in L

\* The rounds come to an end.
Terminates == <>(pc = "done")
=============================================================================
