------------------------------ MODULE BlockOrder ------------------------------
(***************************************************************************)
(* pre_and_rev_post_order_compute (IR/cfg.c): the depth-first walk over a  *)
(* control flow graph that gives the order in which the register           *)
(* allocators number the code and in which every data flow pass visits the *)
(* blocks.  Entry and exit are included, as all its callers in the back    *)
(* end ask for; with the predecessors for `succs' and entry and exit       *)
(* exchanged it is the walk of the reversed graph.                         *)
(***************************************************************************)
EXTENDS Integers, Sequences, FiniteSets

CONSTANTS
  Block,
  Entry, Exit,   \* entry_block_ptr, exit_block_ptr
  Graphs         \* the successor lists the function may have

ASSUME BlockAssumption ==
  IsFiniteSet(Block) /\ Entry \in Block /\ Exit \in Block /\ Entry # Exit
\* The walk starts from the first successor of the entry block.  No block branches
\* to the `entry' instruction and the `exit' instruction branches nowhere.
ASSUME GraphAssumption ==
  \A g \in Graphs :
    /\ g \in [Block -> Seq(Block)] /\ g[Entry] # <<>> /\ g[Exit] = <<>>
    /\ \A b \in Block : \A i \in DOMAIN g[b] : g[b][i] # Entry

VARIABLES
  succs,    \* (*bb)->succs, in order
  visited,
  stack,    \* edges: <<source block, index of the edge in its successor list>>
  rpo,      \* rev_post_order
  pc

orderVars == <<visited, stack, rpo>>

OrderInit ==
  /\ succs \in Graphs
  /\ visited = {} /\ stack = << <<Entry, 1>> >>
  /\ rpo = <<Exit>> /\ pc = "dfs"

Top  == stack[Len(stack)]
Pop  == SubSeq(stack, 1, Len(stack) - 1)
Dest == succs[Top[1]][Top[2]]

MutantSeenNoExit(b) == b \in visited
Seen(b) == b = Exit \/ b \in visited

\* List_NewFirst (rev_post_order, ...)
MutantNumberedLast(b) == rpo \o <<b>>
Numbered(b) == <<b>> \o rpo

\* The edge on top leads to a new block: look at its successors, if any.
Visit ==
  /\ pc = "dfs" /\ stack # <<>>
  /\ ~ Seen(Dest)
  /\ visited' = visited \cup {Dest}
  /\ IF succs[Dest] # <<>>
     THEN stack' = Append(stack, <<Dest, 1>>) /\ rpo' = rpo
     ELSE stack' = stack /\ rpo' = Numbered(Dest)
  /\ UNCHANGED <<succs, pc>>

\* The edge on top leads nowhere new: take the next one, or leave its source.
Advance ==
  /\ pc = "dfs" /\ stack # <<>>
  /\ Seen(Dest)
  /\ IF Top[2] < Len(succs[Top[1]])
     THEN stack' = [stack EXCEPT ![Len(stack)][2] = @ + 1] /\ rpo' = rpo
     ELSE /\ stack' = Pop
          /\ rpo' = IF Top[1] = Entry THEN rpo ELSE Numbered(Top[1])
  /\ UNCHANGED <<succs, visited, pc>>

Ordered ==
  /\ pc = "dfs" /\ stack = <<>>
  /\ rpo' = <<Entry>> \o rpo
  /\ pc' = "ordered"
  /\ UNCHANGED <<succs, visited, stack>>

OrderNext == Visit \/ Advance \/ Ordered

-----------------------------------------------------------------------------
IsEdge(a, b) == \E i \in DOMAIN succs[a] : succs[a][i] = b

\* Blocks from which b can be reached along at least one edge, n steps at most.
Reaching(b) ==
  LET from[n \in Nat] ==
        IF n = 0 THEN {a \in Block : IsEdge(a, b)}
        ELSE LET R == from[n - 1] IN
             R \cup {a \in Block : \E c \in R : IsEdge(a, c)}
  IN from

ReachingWithin(b, n) == Reaching(b)[n]

OrderTypeOK ==
  /\ succs \in [Block -> Seq(Block)]
  /\ visited \subseteq Block
  /\ stack \in Seq(Block \X (Nat \ {0}))
  /\ rpo \in Seq(Block)
=============================================================================
