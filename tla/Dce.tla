--------------------------------- MODULE Dce ---------------------------------
(***************************************************************************)
(* Dead code elimination on SSA form (opt/dce.c, with the postdominators   *)
(* of opt/ssa.c): marks the statements that are obviously necessary, then  *)
(* what they need, smallest number first; removes the others block by      *)
(* block, a branch nobody needs becoming a jump to a postdominator; and    *)
(* cleans the control flow graph up (module CleanupCfg).                   *)
(***************************************************************************)
EXTENDS CleanupCfg

VARIABLES
  necessary,  \* stmt_necessary: numbers of the marked statements
  worklist,   \* the marked ones whose needs are not marked yet
  adjvex,     \* immediate postdominator of each block; exit is its own
  toSweep     \* blocks the elimination has not come to

dceVars == <<necessary, worklist, adjvex, toSweep>>
allVars == <<vars, dceVars>>

-----------------------------------------------------------------------------
\* b and the blocks above it in the postdominator tree, without exit.
Above(b) ==
  LET up[c \in Block] == IF c = Exit THEN {} ELSE {c} \cup up[adjvex[c]] IN up[b]

\* find_control_dependence: the blocks one of whose edges leads to b and
\* whose own postdominator b does not come before.
MutantFirstEdgeOnly(b) ==
  {s \in ToSet(prog.order) \ {Entry, Exit} :
     b \in Above(prog.succs[s][1]) \ Above(adjvex[s])}
ControlDependence(b) ==
  {s \in ToSet(prog.order) \ {Entry} : \E d \in ToSet(prog.succs[s]) :
     b \in Above(d) \ Above(adjvex[s])}

LastUid(p, b) == Last(p.insns[b]).uid
Branches(B) == {LastUid(prog, b) : b \in B}

-----------------------------------------------------------------------------
\* Statements of the function by number.
Insns(p) == UNION {ToSet(p.insns[b]) : b \in ToSet(p.order)}
InsnWith(uid) == CHOOSE insn \in Insns(prog) : insn.uid = uid
BlockOf(uid) == CHOOSE b \in ToSet(prog.order) : InsnWith(uid) \in ToSet(prog.insns[b])
Definitions(insn) == {i.uid : i \in {j \in Insns(prog) : j.def \in ToSet(insn.use)}}

ObviouslyNecessary(insn) == insn.op \in {"obs", "goto", "exit", "entry", "fparam"}

DceInit ==
  /\ CleanupInit /\ pc = "mark"
  /\ necessary = {} /\ worklist = {} /\ toSweep = <<>>
  /\ adjvex = [b \in Block |-> Exit]

FindObviouslyNecessary ==
  /\ pc = "mark"
  /\ \E pdom \in {Dominators(prog, prog.succs, Exit)} :
       adjvex' = [b \in Block |-> IF b \notin ToSet(prog.order) \ {Exit} THEN Exit
                                  ELSE ImmediateDominator(b, pdom)]
  /\ necessary' = {i.uid : i \in {j \in Insns(prog) : ObviouslyNecessary(j)}}
  /\ worklist' = necessary'
  /\ pc' = "propagate"
  /\ UNCHANGED <<prog, given, cleanupVars, toSweep>>

\* The i-th argument of a phi needs the edge it comes along: the branch that
\* takes it, or when every way from there leads to b, what leads there.
MutantEdgesForgotten(b, i) == {}
EdgeNeeds(b, i) ==
  LET a == prog.preds[b][i] IN
  IF adjvex[a] # b THEN {LastUid(prog, a)}
  ELSE IF a # Entry THEN Branches(ControlDependence(a) \ {a}) ELSE {}

Needs(insn, b) ==
  Definitions(insn)
  \cup (IF insn.op = "phi" THEN UNION {EdgeNeeds(b, i) : i \in DOMAIN insn.use} ELSE {})
  \cup (IF insn.op # "goto" /\ b # Entry THEN Branches(ControlDependence(b)) ELSE {})

MutantMarkedAgain(uids) == uids
NotYetMarked(uids) == uids \ necessary

Propagate ==
  /\ pc = "propagate" /\ worklist # {}
  /\ LET uid == Min(worklist)
         needs == NotYetMarked(Needs(InsnWith(uid), BlockOf(uid)))
     IN necessary' = necessary \cup needs /\ worklist' = (worklist \ {uid}) \cup needs
  /\ UNCHANGED <<prog, given, pc, cleanupVars, adjvex, toSweep>>

StartSweep ==
  /\ pc = "propagate" /\ worklist = {}
  /\ toSweep' = prog.order /\ pc' = "sweep"
  /\ UNCHANGED <<prog, given, cleanupVars, necessary, worklist, adjvex>>

-----------------------------------------------------------------------------
Marked(insn) == insn.uid \in necessary

\* The first postdominator whose last statement is necessary.
Nearest(p, b) ==
  LET up[c \in Block] == IF Marked(Last(p.insns[c])) THEN c ELSE up[adjvex[c]]
  IN up[adjvex[b]]

WithoutEdges(p, b) == FoldLeft(LAMBDA q, i : RemoveEdge(q, b, 1), p, p.succs[b])

\* eliminate_unnecessary_stmts, one block.
SweepBlock ==
  /\ pc = "sweep" /\ toSweep # <<>>
  /\ LET b == Head(toSweep)
         kept == SelectSeq(Front(prog.insns[b]), Marked)
         last == Last(prog.insns[b])
     IN IF Marked(last)
        THEN prog' = [prog EXCEPT !.insns[b] = Append(kept, last)]
        ELSE LET d == Nearest(prog, b) IN
             prog' = [MakeEdge(WithoutEdges(prog, b), b, d)
                        EXCEPT !.insns[b] = Append(kept, Goto(d))]
  /\ toSweep' = Tail(toSweep)
  /\ UNCHANGED <<given, pc, cleanupVars, necessary, worklist, adjvex>>

EndSweep ==
  /\ pc = "sweep" /\ toSweep = <<>>
  /\ pc' = "clean"
  /\ UNCHANGED <<prog, given, cleanupVars, dceVars>>

DceNext ==
  \/ FindObviouslyNecessary \/ Propagate \/ StartSweep \/ SweepBlock \/ EndSweep
  \/ CleanupNext /\ UNCHANGED dceVars

\* The pass is one sequential computation, which goes on while it can.
DceSpec == DceInit /\ [][DceNext]_allVars /\ WF_allVars(DceNext)

-----------------------------------------------------------------------------
Swept == pc \in {"clean", "branch", "block", "done"}

\* Dead code elimination removes the statements that have no effect on the
\* output of the program (src/opt/dce.c:15), so the output stays the same.
OutputKept == Swept => SameOutput

\* Going up to the next postdominator whose branch is necessary passes over
\* blocks in between; one of them has a necessary statement.
SkipsNecessary ==
  \E b \in ToSet(given.order) :
    /\ ~ Marked(Last(given.insns[b]))
    /\ \E d \in Above(adjvex[b]) \ Above(Nearest(given, b)) :
         \E i \in DOMAIN given.insns[d] : Marked(given.insns[d][i])

\* Where no necessary statement is passed over, what the function shows stays
\* the same: marking finds everything a shown value, a taken branch or a merge
\* depends on, across loops and joins.
OutputKeptUnlessSkipped == Swept => SkipsNecessary \/ SameOutput

\* The arguments of a phi are told apart by the position of their edge in the
\* list of its block.  When branches become jumps those lists change, but never
\* the list of a block that keeps a phi: its edges were all necessary, and no
\* jump is redirected to it.
PhiEdgesKept ==
  pc = "clean" => \A b \in ToSet(prog.order) :
    (\E i \in DOMAIN prog.insns[b] : prog.insns[b][i].op = "phi") =>
      prog.preds[b] = given.preds[b]
=============================================================================
