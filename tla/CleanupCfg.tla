------------------------------ MODULE CleanupCfg ------------------------------
(***************************************************************************)
(* cleanup_cfg (IR/cfg.c): removes blocks nothing reaches, phis with one   *)
(* argument, branches whose two destinations agree, blocks that only jump, *)
(* and joins or shortens chains of blocks, round after round until a whole *)
(* round changes nothing.  It runs when a control flow graph is built and  *)
(* at the end of dead code elimination; while the code has phis only       *)
(* blocks in a chain are joined.                                           *)
(***************************************************************************)
EXTENDS IR

CONSTANT Programs    \* the functions the pass may be given

VARIABLES
  prog,      \* the function
  given,     \* HISTORY: the function as the pass got it
  pc,
  rest,      \* blocks of this round still to visit, the next one last
  changed,
  fssa       \* some phi is left

cleanupVars == <<rest, changed, fssa>>
vars == <<prog, given, pc, cleanupVars>>

Reached(p) == ToSet(RevPostOrder(p.succs))

CleanupInit ==
  /\ prog \in Programs /\ given = prog
  /\ rest = <<>> /\ changed = FALSE /\ fssa = FALSE

Init == CleanupInit /\ pc = "clean"

-----------------------------------------------------------------------------
\* The arguments of phis that belong to edges from unreachable blocks go.
MutantArgumentsKept(p, b, insn) == insn
KeptArguments(p, b, insn) ==
  LET keep == {i \in DOMAIN p.preds[b] : p.preds[b][i] \in Reached(p)} IN
  IF insn.op # "phi" \/ keep = DOMAIN p.preds[b] THEN insn
  ELSE [insn EXCEPT !.uid = 0,
          !.use = [n \in 1..Cardinality(keep) |->
                     @[CHOOSE i \in keep : Cardinality({j \in keep : j =< i}) = n]]]

DropArguments ==
  /\ pc = "clean"
  /\ prog' = [prog EXCEPT !.insns = [b \in Block |->
                [i \in DOMAIN prog.insns[b] |-> KeptArguments(prog, b, prog.insns[b][i])]]]
  /\ pc' = "phis"
  /\ UNCHANGED <<given, cleanupVars>>

\* Phis with one argument: from the last block on, the first one in the block.
Unary(insn) == insn.op = "phi" /\ Len(insn.use) = 1
UnaryIn(b) == {i \in DOMAIN prog.insns[b] : Unary(prog.insns[b][i])}
BlocksWithUnary == {n \in DOMAIN prog.order : UnaryIn(prog.order[n]) # {}}

Renamed(insn, old, new) ==
  [insn EXCEPT !.def = IF @ = old THEN new ELSE @,
               !.use = [i \in DOMAIN @ |-> IF @[i] = old THEN new ELSE @[i]]]

\* The definition gives way to its argument everywhere, and the phi goes.
ReplacePhi ==
  /\ pc = "phis"
  /\ \E n \in BlocksWithUnary :
       /\ \A m \in BlocksWithUnary : m =< n
       /\ LET b == prog.order[n] IN
          \E i \in UnaryIn(b) :
            /\ \A j \in UnaryIn(b) : i =< j
            /\ LET insn == prog.insns[b][i] IN
               prog' = [prog EXCEPT !.insns =
                 [[c \in Block |-> [j \in DOMAIN prog.insns[c] |->
                      Renamed(prog.insns[c][j], insn.def, insn.use[1])]]
                  EXCEPT ![b] = RemoveAt(@, i)]]
  /\ UNCHANGED <<given, pc, cleanupVars>>

HasPhi(p) == \E b \in ToSet(p.order) : \E i \in DOMAIN p.insns[b] : p.insns[b][i].op = "phi"
DeadBlocks(p) == {b \in ToSet(p.order) : b \notin Reached(p)}
MutantChangeStays == changed
NoChangeYet == FALSE
StartRound(p) == rest' = RevPostOrder(p.succs) /\ changed' = NoChangeYet /\ pc' = "branch"

\* \E x \in {e} binds x to the value of e.
RemoveUnreachable ==
  /\ pc = "phis" /\ BlocksWithUnary = {}
  /\ \E dead \in {DeadBlocks(prog)} : \E p \in {FreeBlocks(prog, dead)} :
       prog' = p /\ fssa' = HasPhi(p) /\ StartRound(p)
  /\ UNCHANGED given

-----------------------------------------------------------------------------
\* One block of a round.
Here == Last(rest)
Only(s) == Len(s) = 1
Dest == prog.succs[Here][1]
NextBlock == rest' = Front(rest) /\ pc' = "branch"

Redundant(b) ==
  LET to == Target(prog, b) IN
  ~ fssa /\ prog.insns[b] # <<>> /\ prog.succs[b] # <<>> /\ Len(to) = 2 /\ to[1] = to[2]

\* A branch whose destinations agree becomes a goto.
FoldBranch ==
  /\ pc = "branch" /\ rest # <<>>
  /\ IF Redundant(Here)
     THEN /\ prog' = SetLast(RemoveEdge(prog, Here, Len(prog.succs[Here])), Here,
                             Goto(Target(prog, Here)[1]))
          /\ changed' = TRUE
     ELSE UNCHANGED <<prog, changed>>
  /\ pc' = "block"
  /\ UNCHANGED <<given, rest, fssa>>

Jumps == Only(prog.succs[Here]) /\ Here # Entry

\* A block that only jumps: its predecessors go where it goes.
Empty == ~ fssa /\ Only(prog.insns[Here]) /\ Here # Exit
MutantBranchesKept(p, d, old) == p
Redirected(p, d, old) == Retarget(p, d, old)
Bypassed == LET p == RemoveEdge(prog, Here, 1) IN
            Redirected(MoveEdges(p, Here, Dest), Dest, Here)

RemoveEmpty ==
  /\ pc = "block" /\ Jumps /\ Empty
  /\ prog' = Bypassed /\ changed' = TRUE
  /\ NextBlock
  /\ UNCHANGED <<given, fssa>>

\* A block whose only successor has no other predecessor moves its
\* instructions to the front of it.
Chain == Only(prog.preds[Dest]) /\ Dest # Exit
MutantOrderReversed(b, d) == Reverse(Front(prog.insns[b])) \o prog.insns[d]
MutantBranchCopied(b, d) == prog.insns[b] \o prog.insns[d]
Joined(b, d) == Front(prog.insns[b]) \o prog.insns[d]

JoinBlocks ==
  /\ pc = "block" /\ Jumps /\ ~ Empty /\ Chain
  /\ LET p == RemoveEdge(prog, Here, 1) IN
     prog' = Redirected([MoveEdges(p, Here, Dest) EXCEPT !.insns[Dest] = Joined(Here, Dest)],
                        Dest, Here)
  /\ changed' = TRUE
  /\ NextBlock
  /\ UNCHANGED <<given, fssa>>

\* A jump to a block that only branches does the branch itself.
MutantLiftsFromAnywhere(d) == ~ fssa /\ Last(prog.insns[d]).op # "goto" /\ d # Exit
Lifts(d) == ~ fssa /\ Only(prog.insns[d]) /\ Last(prog.insns[d]).op # "goto" /\ d # Exit

LiftBranch ==
  /\ pc = "block" /\ Jumps /\ ~ Empty /\ ~ Chain /\ Lifts(Dest)
  /\ LET p == RemoveEdge(prog, Here, 1)
         q == FoldLeft(LAMBDA f, c : MakeEdge(f, Here, c), p, prog.succs[Dest])
     IN prog' = SetLast(q, Here, [Last(prog.insns[Dest]) EXCEPT !.uid = 0])
  /\ changed' = TRUE
  /\ NextBlock
  /\ UNCHANGED <<given, fssa>>

LeaveBlock ==
  /\ pc = "block"
  /\ Jumps => ~ Empty /\ ~ Chain /\ ~ Lifts(Dest)
  /\ NextBlock
  /\ UNCHANGED <<prog, given, changed, fssa>>

\* while (changed)
MutantOneRound == FALSE
Again == changed

EndRound ==
  /\ pc = "branch" /\ rest = <<>>
  /\ IF Again
     THEN StartRound(prog) /\ prog' = prog
     ELSE /\ \E dead \in {DeadBlocks(prog)} : prog' = FreeBlocks(prog, dead)
          /\ pc' = "done" /\ UNCHANGED <<rest, changed>>
  /\ UNCHANGED <<given, fssa>>

CleanupNext ==
  \/ DropArguments \/ ReplacePhi \/ RemoveUnreachable \/ FoldBranch \/ RemoveEmpty
  \/ JoinBlocks \/ LiftBranch \/ LeaveBlock \/ EndRound

Next == CleanupNext

\* The pass is one sequential computation, which goes on while it can.
Spec == Init /\ [][Next]_vars /\ WF_vars(Next)

-----------------------------------------------------------------------------
Params == {i.lit : i \in {j \in UNION {ToSet(given.insns[b]) : b \in Block} : j.op = "fparam"}}
Inputs == [Params -> Value]

\* Code stays code: only the last instruction of a block branches, and a round
\* visits blocks of the function, each at most once.
CleanupTypeOK ==
  /\ ToSet(prog.order) \subseteq Block
  /\ \A b \in Block :
       /\ prog.succs[b] \in Seq(Block) /\ prog.preds[b] \in Seq(Block)
       /\ \A i \in DOMAIN prog.insns[b] :
            /\ prog.insns[b][i] \in Insn
            /\ prog.insns[b][i].to # <<>> => i = Len(prog.insns[b])
  /\ ToSet(rest) \subseteq ToSet(prog.order) /\ IsInjective(rest)

SameOutput == \A input \in Inputs :
  Halts(given, input) => Halts(prog, input) /\ Output(prog, input) = Output(given, input)

\* Cleaning a function up never changes what it shows: after every rewriting
\* the function still ends on the inputs it ended on, with the same output
\* (cleanup_cfg moves, renames and redirects code).  While phis are being
\* replaced their arguments do not yet match the edges.
Preserves == pc # "phis" => SameOutput

\* Edges are moved by hand, one list at a time, next to branches that name
\* instruction numbers; the three stay in agreement (make_edge, remove_edge
\* and update_destinations belong together).
EdgesMatch == EdgesAgree(prog)

\* Once unreachable predecessors are out of the way a phi has one argument for
\* every edge into its block, also when the edges of a joined block move.
PhisMatch == pc \in {"branch", "block", "done"} => PhisFit(prog)

\* What is left at the end is reachable and clean: no branch with one
\* destination, no block that only jumps, no chain of two blocks and no jump to
\* a block that only branches (the rounds go on until nothing changes).
Clean ==
  pc = "done" =>
    /\ ToSet(prog.order) = Reached(prog)
    /\ \A b \in ToSet(prog.order) :
         /\ ~ Redundant(b)
         /\ Only(prog.succs[b]) /\ b # Entry =>
              LET d == prog.succs[b][1] IN
              /\ fssa \/ ~ Only(prog.insns[b])
              /\ d = Exit \/ ~ Only(prog.preds[d])
              /\ ~ Lifts(d)

\* The rounds come to an end: lifting copies branches and removing blocks adds
\* edges, which could feed each other for ever (do .. while (changed)).
Terminates == <>(pc = "done")
=============================================================================
