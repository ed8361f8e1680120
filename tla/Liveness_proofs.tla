--------------------------- MODULE Liveness_proofs ---------------------------
(***************************************************************************)
(* For every control flow graph, every code and every set of registers:    *)
(* when the rounds stop the live sets solve the flow equations (Solution), *)
(* and they are contained in every other solution (Least).  The            *)
(* depth-first walk before the rounds numbers every block a run can reach, *)
(* each once, the entry first and the exit last, and an edge that goes     *)
(* back in the order closes a cycle (Numbering).                           *)
(*                                                                         *)
(* Facts about recursive functions are proved by looking at the smallest   *)
(* argument at which they would fail (Smallest), and that a recursive      *)
(* function satisfies its equation by writing down what it computes.       *)
(***************************************************************************)
EXTENDS Liveness, TLAPS, SequenceTheorems, FiniteSetTheorems

Edge == Block \X (Nat \ {0})

\* The edges on the walk's stack are edges of the graph.
StackOK == \A i \in 1..Len(stack) : /\ stack[i][1] \in Block
                                    /\ stack[i][2] \in DOMAIN succs[stack[i][1]]

\* Where the rounds are.
PlaceOK ==
  /\ pc \in {"dfs", "ordered"} => at = 0
  /\ pc = "walk" => at \in DOMAIN rpo /\ k \in 0..Len(code[Here])
  /\ pc = "done" => at = 0 /\ ~ change

\* What the walk over the current block has left behind it.
WalkOK ==
  pc = "walk" =>
    /\ liveout[Here] = LiveAtEnd(Here)
    /\ point[Here][Len(code[Here])] = liveout[Here]
    /\ work = point[Here][k]
    /\ \A i \in 1..Len(code[Here]) :
         i > k => point[Here][i - 1] = Before(code[Here][i], point[Here][i])

\* The blocks this round is done with.
Settled == {rpo[i] : i \in (at + 1)..Len(rpo)} \ (IF pc = "walk" THEN {Here} ELSE {})

\* As long as nothing changed in this round its blocks are consistent.
RoundOK == pc \in {"block", "walk", "done"} /\ ~ change => \A b \in Settled : Consistent(b)

Inv == TypeOK /\ StackOK /\ PlaceOK /\ WalkOK /\ RoundOK

-----------------------------------------------------------------------------
\* What the walk does to its two sequences.
LEMMA PushFront ==
  ASSUME NEW S, NEW s \in Seq(S), NEW d \in S PROVE <<d>> \o s \in Seq(S)
<1>1. <<d>> \in Seq(S)
  OBVIOUS
<1> QED
  BY <1>1, ConcatProperties

\* A push onto the stack of the depth-first walk.
LEMMA PushTop ==
  ASSUME NEW S, NEW s \in Seq(S), NEW d \in S
  PROVE  /\ Append(s, d) \in Seq(S) /\ Len(Append(s, d)) = Len(s) + 1
         /\ \A i \in 1..Len(s) : Append(s, d)[i] = s[i]
         /\ Append(s, d)[Len(s) + 1] = d
BY AppendProperties

\* The iterator on top of the stack moves on.
LEMMA ReplaceTop ==
  ASSUME NEW S, NEW s \in Seq(S), s # <<>>, NEW d \in S
  PROVE  LET t == [s EXCEPT ![Len(s)] = d] IN
         /\ t \in Seq(S) /\ Len(t) = Len(s) /\ t[Len(s)] = d
         /\ \A i \in 1..Len(s) : i # Len(s) => t[i] = s[i]
BY ExceptSeq, EmptySeq

\* A pop from the stack.
LEMMA PopTop ==
  ASSUME NEW S, NEW s \in Seq(S), s # <<>>
  PROVE  LET t == SubSeq(s, 1, Len(s) - 1) IN
         /\ t \in Seq(S) /\ Len(t) = Len(s) - 1
         /\ \A i \in 1..(Len(s) - 1) : t[i] = s[i]
<1>1. Len(s) \in Nat \ {0} /\ \A i \in 1..(Len(s) - 1) : s[i] \in S
  BY EmptySeq, ElementOfSeq
<1>2. \A i \in 1..((Len(s) - 1) - 1 + 1) : SubSeq(s, 1, Len(s) - 1)[i] = s[1 + i - 1]
  BY <1>1, SubSeqProperties
<1>3. Len(SubSeq(s, 1, Len(s) - 1)) = Len(s) - 1
  <2>1. Len(SubSeq(s, 1, Len(s) - 1)) = IF 1 =< Len(s) - 1 THEN Len(s) - 1 - 1 + 1 ELSE 0
    BY <1>1, SubSeqProperties
  <2>2. \A n \in Nat \ {0} : (IF 1 =< n - 1 THEN n - 1 - 1 + 1 ELSE 0) = n - 1
    OBVIOUS
  <2> QED
    BY <1>1, <2>1, <2>2, Zenon
<1>4. SubSeq(s, 1, Len(s) - 1) \in Seq(S)
  BY <1>1, SubSeqProperties
<1> QED
  BY <1>1, <1>2, <1>3, <1>4

\* The current block is a block.
LEMMA HereIsBlock == ASSUME TypeOK, at > 0 PROVE Here \in Block /\ at \in DOMAIN rpo
BY DEF TypeOK, OrderTypeOK, Here

\* Live sets flow through an instruction as sets of registers.
LEMMA BeforeType ==
  ASSUME NEW i \in Insn, NEW S \in SUBSET Reg PROVE Before(i, S) \in SUBSET Reg
BY DEF Insn, Before

\* What is live at the end of a block is a set of registers.
LEMMA AtEndType ==
  ASSUME TypeOK, NEW b \in Block PROVE LiveAtEnd(b) \in SUBSET Reg
<1>1. \A i \in DOMAIN succs[b] : succs[b][i] \in Block
  BY DEF TypeOK, OrderTypeOK
<1>2. \A i \in DOMAIN succs[b] : livein[succs[b][i]] \in SUBSET Reg
  BY <1>1 DEF TypeOK
<1> QED
  BY <1>2 DEF LiveAtEnd

-----------------------------------------------------------------------------
\* Nothing has been visited at the start.
LEMMA InitInv == Init => Inv
<1> SUFFICES ASSUME Init PROVE Inv
  OBVIOUS
<1>1. /\ succs \in [Block -> Seq(Block)] /\ succs[Entry] # <<>>
      /\ code \in [Block -> Seq(Insn)]
  <2>1. succs \in Graphs /\ code \in Codes
    BY DEF Init, OrderInit
  <2> QED
    BY <2>1, GraphAssumption, CodeAssumption
<1>2. stack = << <<Entry, 1>> >> /\ rpo = <<Exit>> /\ visited = {} /\ pc = "dfs"
  BY DEF Init, OrderInit
<1>3. OrderTypeOK
  <2>1. <<Entry, 1>> \in Edge
    BY BlockAssumption DEF Edge
  <2>2. << <<Entry, 1>> >> \in Seq(Edge) /\ <<Exit>> \in Seq(Block)
    BY <2>1, BlockAssumption
  <2> QED
    BY <1>1, <1>2, <2>2 DEF OrderTypeOK, Edge
<1>4. /\ DOMAIN point = Block
      /\ \A b \in Block : point[b] \in [0..Len(code[b]) -> SUBSET Reg]
  BY DEF Init
<1>5. TypeOK
  <2>1. 0 \in 0..Len(rpo)
    BY <1>3, LenProperties DEF OrderTypeOK
  <2> QED
    BY <1>1, <1>2, <1>3, <1>4, <2>1 DEF Init, TypeOK
<1>6. StackOK
  <2>1. 1 \in DOMAIN succs[Entry]
    <3>1. succs[Entry] \in Seq(Block)
      BY <1>1, BlockAssumption
    <3> QED
      BY <1>1, <3>1, EmptySeq, LenProperties
  <2>2. Len(stack) = 1 /\ stack[1] = <<Entry, 1>>
    BY <1>2
  <2> QED
    BY <2>1, <2>2, BlockAssumption DEF StackOK
<1> QED
  BY <1>2, <1>5, <1>6 DEF Inv, PlaceOK, WalkOK, RoundOK, Init

-----------------------------------------------------------------------------
\* The edge on top of the stack is an edge of the graph.
LEMMA TopIsEdge ==
  ASSUME TypeOK, StackOK, stack # <<>>
  PROVE  /\ Top[1] \in Block /\ Top[2] \in DOMAIN succs[Top[1]] /\ Top[2] \in Nat \ {0}
         /\ Top = <<Top[1], Top[2]>> /\ Dest \in Block /\ Len(stack) \in 1..Len(stack)
<1>1. stack \in Seq(Edge) /\ succs \in [Block -> Seq(Block)]
  BY DEF TypeOK, OrderTypeOK, Edge
<1>2. Len(stack) \in 1..Len(stack) /\ Top \in Edge
  BY <1>1, EmptySeq, ElementOfSeq DEF Top
<1>3. Top[1] \in Block /\ Top[2] \in DOMAIN succs[Top[1]]
  BY <1>2 DEF StackOK, Top
<1>4. succs[Top[1]] \in Seq(Block)
  BY <1>1, <1>3
<1>5. Dest \in Block
  BY <1>3, <1>4, LenProperties, ElementOfSeq DEF Dest
<1> QED
  BY <1>2, <1>3, <1>5 DEF Edge

IsStacked(e) == e[1] \in Block /\ e[2] \in DOMAIN succs[e[1]]

\* The walk over the graph keeps the stack and the order well formed.
LEMMA WalkTypes ==
  ASSUME TypeOK, StackOK, OrderNext PROVE OrderTypeOK' /\ StackOK'
<1>1. /\ stack \in Seq(Edge) /\ rpo \in Seq(Block) /\ visited \subseteq Block
      /\ succs \in [Block -> Seq(Block)] /\ succs' = succs
  BY DEF TypeOK, OrderTypeOK, Edge, OrderNext, Visit, Advance, Ordered
<1>2. SUFFICES /\ stack' \in Seq(Edge) /\ rpo' \in Seq(Block) /\ visited' \subseteq Block
               /\ \A i \in 1..Len(stack') : IsStacked(stack'[i])
  BY <1>1 DEF OrderTypeOK, StackOK, Edge, IsStacked
<1>s. Len(stack) \in Nat /\ \A i \in 1..Len(stack) : IsStacked(stack[i])
  BY <1>1, LenProperties DEF StackOK, IsStacked
<1>3. CASE Visit
  <2>1. /\ Dest \in Block /\ visited' = visited \cup {Dest}
        /\ IF succs[Dest] # <<>>
           THEN stack' = Append(stack, <<Dest, 1>>) /\ rpo' = rpo
           ELSE stack' = stack /\ rpo' = <<Dest>> \o rpo
    BY <1>3, TopIsEdge DEF Visit, Numbered
  <2>2. rpo' \in Seq(Block)
    BY <1>1, <2>1, PushFront
  <2>3. CASE succs[Dest] # <<>>
    <3>1. 1 \in DOMAIN succs[Dest] /\ <<Dest, 1>> \in Edge
      <4>1. succs[Dest] \in Seq(Block)
        BY <1>1, <2>1
      <4> QED
        BY <2>1, <2>3, <4>1, EmptySeq, LenProperties DEF Edge
    <3>2. /\ stack' \in Seq(Edge) /\ Len(stack') = Len(stack) + 1
          /\ \A i \in 1..Len(stack) : stack'[i] = stack[i]
          /\ stack'[Len(stack) + 1] = <<Dest, 1>>
      <4>1. stack' = Append(stack, <<Dest, 1>>)
        BY <2>1, <2>3
      <4>2. /\ Append(stack, <<Dest, 1>>) \in Seq(Edge)
            /\ Len(Append(stack, <<Dest, 1>>)) = Len(stack) + 1
            /\ \A i \in 1..Len(stack) : Append(stack, <<Dest, 1>>)[i] = stack[i]
            /\ Append(stack, <<Dest, 1>>)[Len(stack) + 1] = <<Dest, 1>>
        BY <1>1, <3>1, PushTop
      <4> QED
        BY <4>1, <4>2
    <3>3. IsStacked(<<Dest, 1>>)
      BY <2>1, <3>1 DEF IsStacked
    <3>4. \A i \in 1..(Len(stack) + 1) : IsStacked(stack'[i])
      BY <1>s, <3>2, <3>3
    <3> QED
      BY <1>1, <2>1, <2>2, <3>2, <3>4
  <2>4. CASE succs[Dest] = <<>>
    BY <1>1, <1>s, <2>1, <2>2, <2>4
  <2> QED
    BY <2>3, <2>4
<1>4. CASE Advance
  <2>0. stack # <<>> /\ visited' = visited
    BY <1>4 DEF Advance
  <2>1. rpo' \in Seq(Block)
    BY <1>1, <1>4, <2>0, TopIsEdge, PushFront DEF Advance, Numbered
  <2>2. Len(stack) \in Nat \ {0}
    BY <1>1, <2>0, EmptySeq
  <2>3. CASE Top[2] < Len(succs[Top[1]])
    <3>1. PICK u, i : Top = <<u, i>> /\ u \in Block /\ i \in Nat \ {0}
      BY <2>0, TopIsEdge
    <3>2. stack' = [stack EXCEPT ![Len(stack)] = <<u, i + 1>>]
      <4>1. stack' = [stack EXCEPT ![Len(stack)] =
                        [stack[Len(stack)] EXCEPT ![2] = stack[Len(stack)][2] + 1]]
        BY <1>4, <2>3 DEF Advance
      <4>2. stack[Len(stack)] = <<u, i>>
        BY <3>1 DEF Top
      <4>3. [<<u, i>> EXCEPT ![2] = <<u, i>>[2] + 1] = <<u, i + 1>>
        BY <3>1
      <4> QED
        BY <4>1, <4>2, <4>3, Zenon
    <3>3. i + 1 \in DOMAIN succs[u] /\ <<u, i + 1>> \in Edge
      <4>1. succs[u] \in Seq(Block) /\ i < Len(succs[u])
        BY <1>1, <2>3, <3>1
      <4>2. DOMAIN succs[u] = 1..Len(succs[u]) /\ Len(succs[u]) \in Nat
        BY <4>1, LenProperties
      <4> QED
        BY <3>1, <4>1, <4>2 DEF Edge
    <3>4. /\ stack' \in Seq(Edge) /\ Len(stack') = Len(stack)
          /\ stack'[Len(stack)] = <<u, i + 1>>
          /\ \A j \in 1..Len(stack) : j # Len(stack) => stack'[j] = stack[j]
      BY <1>1, <2>0, <3>2, <3>3, ReplaceTop
    <3> QED
      <4>1. IsStacked(<<u, i + 1>>)
        BY <3>1, <3>3 DEF IsStacked
      <4>2. \A j \in 1..Len(stack) : IsStacked(stack'[j])
        BY <1>s, <3>4, <4>1
      <4> QED
        BY <2>0, <2>1, <1>1, <3>4, <4>2
  <2>4. CASE ~ Top[2] < Len(succs[Top[1]])
    <3>1. /\ stack' \in Seq(Edge) /\ Len(stack') = Len(stack) - 1
          /\ \A j \in 1..(Len(stack) - 1) : stack'[j] = stack[j]
      <4>1. stack' = SubSeq(stack, 1, Len(stack) - 1)
        BY <1>4, <2>4 DEF Advance, Pop
      <4>2. /\ SubSeq(stack, 1, Len(stack) - 1) \in Seq(Edge)
            /\ Len(SubSeq(stack, 1, Len(stack) - 1)) = Len(stack) - 1
            /\ \A j \in 1..(Len(stack) - 1) : SubSeq(stack, 1, Len(stack) - 1)[j] = stack[j]
        BY <1>1, <2>0, PopTop
      <4> QED
        BY <4>1, <4>2
    <3> QED
      <4>1. \A j \in 1..(Len(stack) - 1) : IsStacked(stack'[j])
        BY <1>s, <3>1
      <4> QED
        BY <2>0, <2>1, <1>1, <3>1, <4>1
  <2> QED
    BY <2>3, <2>4
<1>5. CASE Ordered
  <2>1. rpo' \in Seq(Block)
    BY <1>1, <1>5, PushFront, BlockAssumption DEF Ordered
  <2> QED
    BY <1>1, <1>s, <1>5, <2>1 DEF Ordered
<1> QED
  BY <1>3, <1>4, <1>5 DEF OrderNext

\* Invariance under the steps of the depth-first walk.
LEMMA OrderInv == ASSUME Inv, Order PROVE Inv'
<1> USE DEF Inv
<1>1. /\ code' = code /\ livein' = livein /\ liveout' = liveout /\ work' = work
      /\ at' = at /\ k' = k /\ change' = change /\ point' = point
      /\ pc = "dfs" /\ pc' \in {"dfs", "ordered"}
  BY DEF Order, OrderNext, Visit, Advance, Ordered, liveVars
<1>2. at = 0
  BY <1>1 DEF PlaceOK
<1>3. OrderTypeOK' /\ StackOK'
  BY WalkTypes DEF Order
<1>4. TypeOK'
  <2>1. 0 \in 0..Len(rpo')
    BY <1>3, LenProperties DEF OrderTypeOK
  <2> QED
    BY <1>1, <1>2, <1>3, <2>1 DEF TypeOK
<1> QED
  BY <1>1, <1>2, <1>3, <1>4 DEF PlaceOK, WalkOK, RoundOK

\* A round starts with no block behind it.
LEMMA StartRoundInv ==
  ASSUME Inv, StartRound, pc # "dfs",
         UNCHANGED <<succs, orderVars, code, livein, liveout, work, k, point>>
  PROVE  Inv'
<1> USE DEF Inv, StartRound, orderVars
<1>1. at' = Len(rpo') /\ rpo' = rpo /\ Len(rpo) \in Nat
  BY DEF LastBlock, TypeOK, OrderTypeOK
<1>2. TypeOK'
  <2>1. OrderTypeOK'
    BY <1>1 DEF TypeOK, OrderTypeOK
  <2>2. at' \in 0..Len(rpo')
    BY <1>1
  <2>3. change' \in BOOLEAN
    BY DEF NoChangeYet
  <2> QED
    BY <2>1, <2>2, <2>3 DEF TypeOK
<1>3. StackOK'
  BY DEF StackOK
<1>4. Settled' = {}
  BY <1>1 DEF Settled
<1> QED
  BY <1>2, <1>3, <1>4 DEF PlaceOK, WalkOK, RoundOK

\* Entering a block: the current block is no longer settled.
LEMMA EnterBlockInv == ASSUME Inv, EnterBlock PROVE Inv'
<1> USE DEF Inv
<1>1. /\ succs' = succs /\ stack' = stack /\ rpo' = rpo /\ visited' = visited
      /\ code' = code /\ livein' = livein /\ at' = at /\ change' = change
      /\ pc = "block" /\ pc' = "walk" /\ at > 0 /\ Here' = Here
  BY DEF EnterBlock, orderVars, Here
<1>2. PICK b \in Block : b = Here
  BY <1>1, HereIsBlock
<1>3. PICK n \in Nat : n = Len(code[b])
  <2>1. code[b] \in Seq(Insn)
    BY <1>2 DEF TypeOK
  <2> QED
    BY <2>1, LenProperties
<1>4. PICK S \in SUBSET Reg : S = LiveAtEnd(b)
  BY <1>2, AtEndType
<1>5. /\ work' = S /\ k' = n
      /\ liveout' = [liveout EXCEPT ![b] = S]
      /\ point' = [point EXCEPT ![b] = [point[b] EXCEPT ![n] = S]]
  BY <1>2, <1>3, <1>4 DEF EnterBlock
<1>6. /\ DOMAIN point = Block /\ point[b] \in [0..n -> SUBSET Reg]
      /\ liveout \in [Block -> SUBSET Reg]
  BY <1>2, <1>3 DEF TypeOK
<1>7. /\ point'[b] = [point[b] EXCEPT ![n] = S] /\ point'[b][n] = S /\ liveout'[b] = S
      /\ \A c \in Block : c # b => point'[c] = point[c] /\ liveout'[c] = liveout[c]
  <2>1. point'[b] = [point[b] EXCEPT ![n] = S]
    BY <1>5, <1>6
  <2>2. n \in 0..n
    OBVIOUS
  <2>3. [point[b] EXCEPT ![n] = S][n] = S
    BY <1>6, <2>2
  <2> QED
    BY <1>5, <1>6, <2>1, <2>3
<1>8. TypeOK'
  <2>1. /\ work' \in SUBSET Reg /\ k' \in Nat /\ pc' = "walk"
        /\ liveout' \in [Block -> SUBSET Reg]
    BY <1>1, <1>5, <1>6
  <2>2. point'[b] \in [0..n -> SUBSET Reg] /\ DOMAIN point' = Block
    BY <1>5, <1>6, <1>7
  <2>3. \A c \in Block : point'[c] \in [0..Len(code'[c]) -> SUBSET Reg]
    BY <1>1, <1>3, <1>7, <2>2 DEF TypeOK
  <2> QED
    BY <1>1, <2>1, <2>2, <2>3 DEF TypeOK, OrderTypeOK
<1>9. LiveAtEnd(b)' = LiveAtEnd(b)
  BY <1>1 DEF LiveAtEnd
<1>10. StackOK' /\ PlaceOK'
  <2>1. n \in 0..n
    OBVIOUS
  <2> QED
    BY <1>1, <1>2, <1>3, <1>5, <2>1, HereIsBlock DEF StackOK, PlaceOK
<1>11. WalkOK'
  <2>1. \A i \in 1..n : ~ i > n
    OBVIOUS
  <2> QED
    BY <1>1, <1>2, <1>3, <1>4, <1>5, <1>7, <1>9, <2>1 DEF WalkOK
<1>12. RoundOK'
  <2>1. Settled' \subseteq Settled \ {b}
    BY <1>1, <1>2 DEF Settled
  <2>2. ASSUME ~ change, NEW c \in Settled, c # b PROVE Consistent(c)'
    <3>1. Consistent(c)
      BY <1>1, <2>2 DEF RoundOK
    <3>2. c \in Block
      BY <1>1, <2>2 DEF Settled, TypeOK, OrderTypeOK
    <3>3. point'[c] = point[c] /\ liveout'[c] = liveout[c]
      BY <1>7, <2>2, <3>2
    <3> QED
      BY <1>1, <3>1, <3>3 DEF Consistent, LiveAtEnd
  <2> QED
    BY <1>1, <2>1, <2>2 DEF RoundOK
<1> QED
  BY <1>8, <1>10, <1>11, <1>12

\* Walking over one instruction extends the chain of the current block.
LEMMA WalkInsnInv == ASSUME Inv, WalkInsn PROVE Inv'
<1> USE DEF Inv
<1>1. /\ succs' = succs /\ stack' = stack /\ rpo' = rpo /\ visited' = visited
      /\ code' = code /\ livein' = livein /\ liveout' = liveout
      /\ at' = at /\ change' = change
      /\ pc = "walk" /\ pc' = "walk" /\ Here' = Here
  BY DEF WalkInsn, orderVars, Here
<1>2. at > 0 /\ at \in DOMAIN rpo /\ k \in 0..Len(code[Here]) /\ k > 0
  BY <1>1 DEF PlaceOK, WalkInsn, TypeOK, OrderTypeOK
<1>3. PICK b \in Block : b = Here
  BY <1>2, HereIsBlock
<1>4. PICK n \in Nat : n = Len(code[b])
  <2>1. code[b] \in Seq(Insn)
    BY <1>3 DEF TypeOK
  <2> QED
    BY <2>1, LenProperties
<1>5. k \in 1..n /\ code[b][k] \in Insn
  <2>1. k \in 1..n
    BY <1>2, <1>3, <1>4
  <2>2. code[b] \in Seq(Insn)
    BY <1>3 DEF TypeOK
  <2> QED
    BY <1>4, <2>1, <2>2, ElementOfSeq
<1>6. PICK S \in SUBSET Reg : S = Before(code[b][k], work)
  BY <1>5, BeforeType DEF TypeOK
<1>7. /\ work' = S /\ k' = k - 1
      /\ point' = [point EXCEPT ![b] = [point[b] EXCEPT ![k - 1] = S]]
  BY <1>3, <1>6 DEF WalkInsn
<1>8. DOMAIN point = Block /\ point[b] \in [0..n -> SUBSET Reg] /\ k - 1 \in 0..n
  BY <1>3, <1>4, <1>5 DEF TypeOK
<1>9. /\ point'[b] \in [0..n -> SUBSET Reg] /\ point'[b][k - 1] = S
      /\ \A i \in 0..n : i # k - 1 => point'[b][i] = point[b][i]
      /\ \A c \in Block : c # b => point'[c] = point[c]
      /\ DOMAIN point' = Block
  <2>1. point'[b] = [point[b] EXCEPT ![k - 1] = S] /\ DOMAIN point' = Block
    BY <1>7, <1>8
  <2>2. /\ [point[b] EXCEPT ![k - 1] = S] \in [0..n -> SUBSET Reg]
        /\ [point[b] EXCEPT ![k - 1] = S][k - 1] = S
        /\ \A i \in 0..n : i # k - 1 => [point[b] EXCEPT ![k - 1] = S][i] = point[b][i]
    BY <1>8
  <2>3. \A c \in Block : c # b => point'[c] = point[c]
    BY <1>7, <1>8
  <2> QED
    BY <2>1, <2>2, <2>3
<1>10. TypeOK'
  <2>1. \A c \in Block : point'[c] \in [0..Len(code'[c]) -> SUBSET Reg]
    BY <1>1, <1>4, <1>9 DEF TypeOK
  <2>2. k' \in Nat /\ work' \in SUBSET Reg
    BY <1>5, <1>7
  <2> QED
    BY <1>1, <1>9, <2>1, <2>2 DEF TypeOK, OrderTypeOK
<1>11. StackOK' /\ PlaceOK'
  <2>1. k' \in 0..n
    BY <1>7, <1>8
  <2> QED
    BY <1>1, <1>2, <1>3, <1>4, <2>1 DEF StackOK, PlaceOK
<1>12. WalkOK'
  <2>1. /\ liveout[b] = LiveAtEnd(b) /\ point[b][n] = liveout[b] /\ work = point[b][k]
        /\ \A i \in 1..n : i > k => point[b][i - 1] = Before(code[b][i], point[b][i])
    BY <1>1, <1>3, <1>4 DEF WalkOK
  <2>2. point'[b][n] = liveout[b] /\ work' = point'[b][k']
    BY <1>5, <1>7, <1>9, <2>1
  <2>3. ASSUME NEW i \in 1..n, i > k'
        PROVE  point'[b][i - 1] = Before(code[b][i], point'[b][i])
    <3>1. i \in 0..n /\ i - 1 \in 0..n /\ i # k - 1 /\ i >= k
      BY <1>5, <1>7, <2>3
    <3>2. point'[b][i] = point[b][i]
      BY <1>9, <3>1
    <3>3. CASE i = k
      BY <1>6, <1>9, <2>1, <3>2, <3>3
    <3>4. CASE i # k
      <4>1. i > k /\ i - 1 # k - 1
        BY <1>5, <3>1, <3>4
      <4> QED
        BY <1>9, <2>1, <3>1, <3>2, <4>1
    <3> QED
      BY <3>3, <3>4
  <2>4. LiveAtEnd(b)' = LiveAtEnd(b) /\ \A I, T : Before(I, T)' = Before(I, T)
    BY <1>1 DEF LiveAtEnd
  <2> QED
    BY <1>1, <1>3, <1>4, <2>1, <2>2, <2>3, <2>4 DEF WalkOK
<1>13. RoundOK'
  <2>1. Settled' = Settled /\ b \notin Settled
    BY <1>1, <1>3 DEF Settled
  <2>2. ASSUME ~ change, NEW c \in Settled PROVE Consistent(c)'
    <3>1. Consistent(c)
      BY <1>1, <2>2 DEF RoundOK
    <3>2. c \in Block /\ c # b
      BY <1>1, <2>1, <2>2 DEF Settled, TypeOK, OrderTypeOK
    <3>3. point'[c] = point[c]
      BY <1>9, <3>2
    <3> QED
      BY <1>1, <3>1, <3>3 DEF Consistent, LiveAtEnd
  <2> QED
    BY <1>1, <2>1, <2>2 DEF RoundOK
<1> QED
  BY <1>10, <1>11, <1>12, <1>13

\* Leaving a block without a change adds it to the settled ones; a change
\* voids what is known about them.
LEMMA LeaveBlockInv == ASSUME Inv, LeaveBlock PROVE Inv'
<1> USE DEF Inv
<1>1. /\ succs' = succs /\ stack' = stack /\ rpo' = rpo /\ visited' = visited
      /\ code' = code /\ liveout' = liveout /\ work' = work /\ point' = point
      /\ k' = k /\ k = 0 /\ pc = "walk" /\ pc' = "block" /\ at' = at - 1
  BY DEF LeaveBlock, orderVars
<1>2. at \in DOMAIN rpo /\ at \in 1..Len(rpo)
  <2>1. rpo \in Seq(Block) /\ at \in DOMAIN rpo
    BY <1>1 DEF PlaceOK, TypeOK, OrderTypeOK
  <2> QED
    BY <2>1, LenProperties
<1>3. PICK b \in Block : b = Here
  BY <1>2, HereIsBlock
<1>4. /\ livein' = [livein EXCEPT ![b] = @ \cup work]
      /\ change' = (change \/ ~ (work \subseteq livein[b]))
      /\ livein \in [Block -> SUBSET Reg] /\ work \in SUBSET Reg
  BY <1>3 DEF LeaveBlock, Changed, TypeOK
<1>5. TypeOK'
  <2>1. livein' \in [Block -> SUBSET Reg]
    BY <1>4
  <2>2. at' \in 0..Len(rpo') /\ change' \in BOOLEAN
    BY <1>1, <1>2, <1>4
  <2> QED
    BY <1>1, <2>1, <2>2 DEF TypeOK, OrderTypeOK
<1>6. StackOK' /\ PlaceOK' /\ WalkOK'
  BY <1>1 DEF StackOK, PlaceOK, WalkOK
<1>7. RoundOK'
  <2> SUFFICES ASSUME ~ change', NEW c \in Settled' PROVE Consistent(c)'
    BY DEF RoundOK
  <2>1. ~ change /\ work \subseteq livein[b]
    BY <1>4
  <2>2. livein' = livein
    BY <1>4, <2>1
  <2>3. c = b \/ c \in Settled
    <3>1. PICK i \in (at - 1 + 1)..Len(rpo) : c = rpo[i]
      BY <1>1 DEF Settled
    <3>2. i = at \/ i \in (at + 1)..Len(rpo)
      BY <1>2, <3>1
    <3> QED
      BY <1>1, <1>3, <3>1, <3>2 DEF Settled, Here
  <2>4. Consistent(c)
    <3>1. CASE c = b
      <4>1. /\ liveout[b] = LiveAtEnd(b) /\ point[b][Len(code[b])] = liveout[b]
            /\ work = point[b][0]
            /\ \A i \in 1..Len(code[b]) :
                 i > 0 => point[b][i - 1] = Before(code[b][i], point[b][i])
        BY <1>1, <1>3 DEF WalkOK
      <4>2. \A i \in 1..Len(code[b]) : i > 0
        OBVIOUS
      <4> QED
        BY <2>1, <3>1, <4>1, <4>2 DEF Consistent
    <3>2. CASE c \in Settled
      BY <1>1, <2>1, <3>2 DEF RoundOK
    <3> QED
      BY <2>3, <3>1, <3>2
  <2> QED
    BY <1>1, <2>2, <2>4 DEF Consistent, LiveAtEnd
<1> QED
  BY <1>5, <1>6, <1>7

\* The end of a round.
LEMMA EndRoundInv == ASSUME Inv, EndRound PROVE Inv'
<1> USE DEF Inv
<1>1. CASE change
  <2>1. /\ StartRound /\ pc # "dfs"
        /\ UNCHANGED <<succs, orderVars, code, livein, liveout, work, k, point>>
    BY <1>1 DEF EndRound
  <2> QED
    BY <2>1, StartRoundInv
<1>2. CASE ~ change
  <2>1. /\ succs' = succs /\ stack' = stack /\ rpo' = rpo /\ visited' = visited
        /\ code' = code /\ livein' = livein /\ liveout' = liveout /\ work' = work
        /\ point' = point /\ k' = k /\ at' = at /\ change' = change
        /\ at = 0 /\ pc = "block" /\ pc' = "done"
    BY <1>2 DEF EndRound, orderVars
  <2>2. TypeOK'
    BY <2>1 DEF TypeOK, OrderTypeOK
  <2>3. StackOK' /\ PlaceOK' /\ WalkOK'
    BY <1>2, <2>1 DEF StackOK, PlaceOK, WalkOK
  <2>4. RoundOK'
    <3>1. Settled' = Settled
      BY <2>1 DEF Settled
    <3> QED
      BY <2>1, <3>1 DEF RoundOK, Consistent, LiveAtEnd
  <2> QED
    BY <2>2, <2>3, <2>4
<1> QED
  BY <1>1, <1>2

\* Every step preserves the inductive invariant.
LEMMA NextInv == ASSUME Inv, [Next]_vars PROVE Inv'
<1>1. CASE Order
  BY <1>1, OrderInv
<1>2. CASE StartRounds
  <2>1. /\ StartRound /\ pc # "dfs"
        /\ UNCHANGED <<succs, orderVars, code, livein, liveout, work, k, point>>
    BY <1>2 DEF StartRounds
  <2> QED
    BY <2>1, StartRoundInv
<1>3. CASE EnterBlock
  BY <1>3, EnterBlockInv
<1>4. CASE WalkInsn
  BY <1>4, WalkInsnInv
<1>5. CASE LeaveBlock
  BY <1>5, LeaveBlockInv
<1>6. CASE EndRound
  BY <1>6, EndRoundInv
<1>7. CASE UNCHANGED vars
  <2> USE <1>7 DEF vars, orderVars, liveVars
  <2>1. TypeOK' /\ StackOK' /\ PlaceOK'
    BY DEF Inv, TypeOK, OrderTypeOK, StackOK, PlaceOK, Here
  <2>2. WalkOK'
    BY DEF Inv, WalkOK, Here, LiveAtEnd, Before
  <2>3. RoundOK'
    <3>1. Settled' = Settled
      BY DEF Settled, Here
    <3> QED
      BY <3>1 DEF Inv, RoundOK, Consistent, LiveAtEnd, Before
  <2> QED
    BY <2>1, <2>2, <2>3 DEF Inv
<1> QED
  BY <1>1, <1>2, <1>3, <1>4, <1>5, <1>6, <1>7 DEF Next

-----------------------------------------------------------------------------
\* The walk over the graph and the rounds stay within their invariant.
THEOREM Invariance == Spec => []Inv
<1>1. Init => Inv
  BY InitInv
<1>2. Inv /\ [Next]_vars => Inv'
  BY NextInv
<1> QED
  BY <1>1, <1>2, PTL DEF Spec

\* compute_global_live_sets: the live sets, the work bitmap and the stack of the
\* block order never leave their types.
THEOREM TypeCorrect == Spec => []TypeOK
<1>1. Inv => TypeOK
  BY DEF Inv
<1> QED
  BY <1>1, Invariance, PTL

\* When change_occurred stays false the live sets satisfy the flow equations at
\* every instruction of every numbered block.
THEOREM SolutionHolds == Spec => []Solution
<1>1. Inv => Solution
  <2> SUFFICES ASSUME Inv, pc = "done", NEW i \in DOMAIN rpo PROVE Consistent(rpo[i])
    BY DEF Solution
  <2>1. at = 0 /\ ~ change /\ rpo \in Seq(Block)
    BY DEF Inv, PlaceOK, TypeOK, OrderTypeOK
  <2>2. i \in (at + 1)..Len(rpo)
    BY <2>1, LenProperties
  <2>3. rpo[i] \in Settled
    BY <2>2 DEF Settled
  <2> QED
    BY <2>1, <2>3 DEF Inv, RoundOK
<1> QED
  BY <1>1, Invariance, PTL

-----------------------------------------------------------------------------
\* A family of sets, one for each gap between instructions, that satisfies the
\* flow equations, if only as inclusions.
Solves(P) ==
  \A b \in Block :
    /\ \A i \in DOMAIN succs[b] : P[succs[b][i]][0] \subseteq P[b][Len(code[b])]
    /\ \A i \in 1..Len(code[b]) : Before(code[b][i], P[b][i]) \subseteq P[b][i - 1]

\* Nothing computed so far exceeds it.
Below(P) ==
  Solves(P) =>
    /\ \A b \in Block : livein[b] \subseteq P[b][0] /\ liveout[b] \subseteq P[b][Len(code[b])]
    /\ pc = "walk" => work \subseteq P[Here][k]

\* One step of any kind keeps the sets below every solution.
LEMMA BelowStep ==
  ASSUME NEW P, Inv, Below(P), [Next]_vars PROVE Below(P)'
<1>1. SUFFICES ASSUME Solves(P)'
               PROVE  /\ \A b \in Block : /\ livein'[b] \subseteq P[b][0]
                                          /\ liveout'[b] \subseteq P[b][Len(code'[b])]
                      /\ pc' = "walk" => work' \subseteq P[Here'][k']
  BY DEF Below
<1>2. succs' = succs /\ code' = code
  BY DEF Next, Order, OrderNext, Visit, Advance, Ordered, StartRounds, EnterBlock,
         WalkInsn, LeaveBlock, EndRound, vars
<1>3. Solves(P)
  BY <1>1, <1>2 DEF Solves, Before
<1>4. /\ \A b \in Block : livein[b] \subseteq P[b][0] /\ liveout[b] \subseteq P[b][Len(code[b])]
      /\ pc = "walk" => work \subseteq P[Here][k]
  BY <1>3 DEF Below
<1>5. CASE Order
  BY <1>2, <1>4, <1>5 DEF Order, OrderNext, Visit, Advance, Ordered, liveVars
<1>6. CASE StartRounds
  BY <1>2, <1>4, <1>6 DEF StartRounds, StartRound
<1>7. CASE EnterBlock
  <2>1. Here \in Block /\ Here' = Here /\ pc = "block"
    BY <1>7, HereIsBlock DEF EnterBlock, Inv, orderVars, Here
  <2>2. PICK b \in Block : b = Here
    BY <2>1
  <2>3. LiveAtEnd(b) \subseteq P[b][Len(code[b])]
    <3>1. \A i \in DOMAIN succs[b] : succs[b][i] \in Block
      BY DEF Inv, TypeOK, OrderTypeOK
    <3>2. \A i \in DOMAIN succs[b] : livein[succs[b][i]] \subseteq P[b][Len(code[b])]
      BY <1>3, <1>4, <3>1 DEF Solves
    <3> QED
      BY <3>2 DEF LiveAtEnd
  <2>4. /\ livein' = livein /\ work' = LiveAtEnd(b) /\ k' = Len(code[b])
        /\ liveout' = [liveout EXCEPT ![b] = LiveAtEnd(b)]
        /\ liveout \in [Block -> SUBSET Reg]
    BY <1>7, <2>2 DEF EnterBlock, Inv, TypeOK
  <2> QED
    BY <1>2, <1>4, <2>1, <2>2, <2>3, <2>4
<1>8. CASE WalkInsn
  <2>1. /\ Here \in Block /\ Here' = Here /\ k \in 1..Len(code[Here])
        /\ pc = "walk" /\ livein' = livein /\ liveout' = liveout
    <3>1. pc = "walk" /\ k > 0 /\ Here' = Here /\ livein' = livein /\ liveout' = liveout
      BY <1>8 DEF WalkInsn, orderVars, Here
    <3>2. at > 0 /\ k \in 0..Len(code[Here])
      BY <3>1 DEF Inv, PlaceOK, TypeOK, OrderTypeOK
    <3>3. Here \in Block
      BY <3>2, HereIsBlock DEF Inv
    <3>4. code[Here] \in Seq(Insn)
      BY <3>3 DEF Inv, TypeOK
    <3>5. Len(code[Here]) \in Nat
      BY <3>4, LenProperties
    <3> QED
      BY <3>1, <3>2, <3>3, <3>5
  <2>2. Before(code[Here][k], P[Here][k]) \subseteq P[Here][k - 1]
    BY <1>3, <2>1 DEF Solves
  <2>3. Before(code[Here][k], work) \subseteq Before(code[Here][k], P[Here][k])
    BY <1>4, <2>1 DEF Before
  <2>4. work' = Before(code[Here][k], work) /\ k' = k - 1
    BY <1>8 DEF WalkInsn
  <2> QED
    BY <1>2, <1>4, <2>1, <2>2, <2>3, <2>4
<1>9. CASE LeaveBlock
  <2>1. pc = "walk" /\ k = 0 /\ liveout' = liveout /\ pc' = "block"
    BY <1>9 DEF LeaveBlock
  <2>2. livein' = [livein EXCEPT ![Here] = @ \cup work] /\ livein \in [Block -> SUBSET Reg]
    BY <1>9 DEF LeaveBlock, Inv, TypeOK
  <2>3. work \subseteq P[Here][0]
    BY <1>4, <2>1
  <2> QED
    BY <1>2, <1>4, <2>1, <2>2, <2>3
<1>10. CASE EndRound
  BY <1>2, <1>4, <1>10 DEF EndRound, StartRound
<1>11. CASE UNCHANGED vars
  BY <1>2, <1>4, <1>11 DEF vars, liveVars, orderVars, Here
<1> QED
  BY <1>5, <1>6, <1>7, <1>8, <1>9, <1>10, <1>11 DEF Next

\* The live sets never exceed any solution of the flow equations; together with
\* SolutionHolds they end as the least one: no register occupies a hard register
\* where no path from there can read it.
THEOREM Least == ASSUME NEW CONSTANT P PROVE Spec => []Below(P)
<1>1. Init => Below(P)
  BY DEF Init, OrderInit, Below
<1>2. Inv /\ Below(P) /\ [Next]_vars => Below(P)'
  BY BelowStep
<1> QED
  BY <1>1, <1>2, Invariance, PTL DEF Spec

-----------------------------------------------------------------------------
\* Numbering.

\* A non-empty set of natural numbers has a least element.
LEMMA Smallest ==
  ASSUME NEW T, T \subseteq Nat, T # {}
  PROVE  \E n \in T : n \in Nat /\ \A m \in T : n =< m
<1>1. PICK n \in T : \A m \in T : ~ (<<m, n>> \in OpToRel(<, Nat))
  BY WFMin, NatLessThanWellFounded, Zenon
<1>2. \A m \in T : m \in Nat /\ n \in Nat /\ ~ (m < n)
  BY <1>1 DEF OpToRel
<1> QED
  BY <1>2

-----------------------------------------------------------------------------
\* Reaching(b) satisfies the equations it is written with: it has the blocks with
\* a path of n + 1 edges or fewer to b.
ReachDef(g, b) ==
  g = [n \in Nat |-> IF n = 0 THEN {a \in Block : IsEdge(a, b)}
                     ELSE LET R == g[n - 1] IN
                          R \cup {a \in Block : \E c \in R : IsEdge(a, c)}]

Path(a, b, k_) == {p \in [0..(k_ + 1) -> Block] : p[0] = a /\ p[k_ + 1] = b
                                             /\ \A i \in 0..k_ : IsEdge(p[i], p[i + 1])}

\* The recursive function Reaching is defined by has a value: level n has the blocks
\* from which a path of at most n + 1 edges leads to b.
LEMMA ReachExists == ASSUME NEW b \in Block PROVE \E g : ReachDef(g, b)
<1> DEFINE g == [n \in Nat |-> {a \in Block : \E m \in 0..n : Path(a, b, m) # {}}]
<1>1. \A a \in Block : Path(a, b, 0) # {} <=> IsEdge(a, b)
  <2> SUFFICES ASSUME NEW a \in Block PROVE Path(a, b, 0) # {} <=> IsEdge(a, b)
    OBVIOUS
  <2>1. ASSUME Path(a, b, 0) # {} PROVE IsEdge(a, b)
    BY <2>1 DEF Path
  <2>2. ASSUME IsEdge(a, b) PROVE Path(a, b, 0) # {}
    <3> DEFINE p == [i \in 0..1 |-> IF i = 0 THEN a ELSE b]
    <3>1. p \in [0..(0 + 1) -> Block] /\ p[0] = a /\ p[0 + 1] = b
      OBVIOUS
    <3>2. \A i \in 0..0 : IsEdge(p[i], p[i + 1])
      <4>1. \A i \in 0..0 : i = 0
        OBVIOUS
      <4> QED
        BY <2>2, <3>1, <4>1
    <3> QED
      BY <3>1, <3>2 DEF Path
  <2> QED
    BY <2>1, <2>2
<1>2. ASSUME NEW a \in Block, NEW m \in Nat
      PROVE  Path(a, b, m + 1) # {} <=> \E c \in Block : IsEdge(a, c) /\ Path(c, b, m) # {}
  <2>1. ASSUME NEW p \in Path(a, b, m + 1) PROVE \E c \in Block : IsEdge(a, c) /\ Path(c, b, m) # {}
    <3>1. /\ p \in [0..(m + 2) -> Block] /\ p[0] = a /\ p[m + 2] = b
          /\ \A i \in 0..(m + 1) : IsEdge(p[i], p[i + 1])
      BY <2>1 DEF Path
    <3> DEFINE q == [i \in 0..(m + 1) |-> p[i + 1]]
    <3>2. q \in [0..(m + 1) -> Block] /\ q[0] = p[1] /\ q[m + 1] = b
      BY <3>1
    <3>3. \A i \in 0..m : IsEdge(q[i], q[i + 1])
      <4> SUFFICES ASSUME NEW i \in 0..m PROVE IsEdge(q[i], q[i + 1])
        OBVIOUS
      <4>1. q[i] = p[i + 1] /\ q[i + 1] = p[i + 1 + 1] /\ i + 1 \in 0..(m + 1)
        OBVIOUS
      <4> QED
        BY <3>1, <4>1
    <3>4. IsEdge(a, p[1]) /\ p[1] \in Block
      BY <3>1
    <3> QED
      BY <3>2, <3>3, <3>4 DEF Path
  <2>2. ASSUME NEW c \in Block, IsEdge(a, c), NEW q \in Path(c, b, m) PROVE Path(a, b, m + 1) # {}
    <3>1. /\ q \in [0..(m + 1) -> Block] /\ q[0] = c /\ q[m + 1] = b
          /\ \A i \in 0..m : IsEdge(q[i], q[i + 1])
      BY <2>2 DEF Path
    <3> DEFINE p == [i \in 0..(m + 1 + 1) |-> IF i = 0 THEN a ELSE q[i - 1]]
    <3>2. p \in [0..(m + 1 + 1) -> Block] /\ p[0] = a /\ p[m + 1 + 1] = b
      BY <3>1
    <3>3. \A i \in 0..(m + 1) : IsEdge(p[i], p[i + 1])
      <4> SUFFICES ASSUME NEW i \in 0..(m + 1) PROVE IsEdge(p[i], p[i + 1])
        OBVIOUS
      <4>1. CASE i = 0
        <5>1. p[i] = a /\ p[i + 1] = c
          BY <3>1, <4>1
        <5> QED
          BY <2>2, <5>1
      <4>2. CASE i # 0
        <5>1. p[i] = q[i - 1] /\ p[i + 1] = q[i - 1 + 1] /\ i - 1 \in 0..m
          BY <4>2
        <5> QED
          BY <3>1, <5>1
      <4> QED
        BY <4>1, <4>2
    <3> HIDE DEF p
    <3> QED
      BY <3>2, <3>3 DEF Path
  <2> QED
    BY <2>1, <2>2
<1> DEFINE h == [n \in Nat |-> IF n = 0 THEN {a \in Block : IsEdge(a, b)}
                     ELSE LET R == g[n - 1] IN
                          R \cup {a \in Block : \E c \in R : IsEdge(a, c)}]
<1>3. ASSUME NEW n \in Nat PROVE g[n] = h[n]
  <2>1. CASE n = 0
    <3>1. 0..n = {0}
      BY <2>1
    <3>2. g[n] = {a \in Block : Path(a, b, 0) # {}}
      BY <3>1
    <3>3. h[n] = {a \in Block : IsEdge(a, b)}
      BY <2>1
    <3> QED
      BY <1>1, <3>2, <3>3
  <2>2. CASE n # 0
    <3>0. PICK o \in Nat : n = o + 1
      BY <2>2
    <3> DEFINE R == {a \in Block : \E m \in 0..o : Path(a, b, m) # {}}
    <3>1. g[n - 1] = R
      BY <3>0
    <3>2. h[n] = R \cup {a \in Block : \E c \in R : IsEdge(a, c)}
      BY <2>2, <3>1
    <3>3. g[n] = {a \in Block : \E m \in 0..(o + 1) : Path(a, b, m) # {}}
      BY <3>0
    <3>4. ASSUME NEW a \in Block
          PROVE  (\E m \in 0..(o + 1) : Path(a, b, m) # {})
                   <=> a \in R \/ \E c \in R : IsEdge(a, c)
      <4>1. \A m : m \in 0..(o + 1) => m \in 0..o \/ (m # 0 /\ m - 1 \in 0..o /\ m = m - 1 + 1)
        OBVIOUS
      <4>2. \A m \in 0..o : m \in Nat /\ m \in 0..(o + 1) /\ m + 1 \in 0..(o + 1)
        OBVIOUS
      <4>3. ASSUME NEW m \in 0..(o + 1), Path(a, b, m) # {} PROVE a \in R \/ \E c \in R : IsEdge(a, c)
        <5>1. CASE m \in 0..o
          BY <4>3, <5>1
        <5>2. CASE m # 0 /\ m - 1 \in 0..o /\ m = m - 1 + 1
          <6>1. PICK l \in Nat : l \in 0..o /\ m = l + 1
            BY <4>2, <5>2
          <6>2. PICK c \in Block : IsEdge(a, c) /\ Path(c, b, l) # {}
            BY <4>3, <6>1, <1>2
          <6> QED
            BY <6>1, <6>2
        <5> QED
          BY <4>1, <5>1, <5>2
      <4>4. a \in R => \E m \in 0..(o + 1) : Path(a, b, m) # {}
        BY <4>2
      <4>5. ASSUME NEW c \in R, IsEdge(a, c) PROVE \E m \in 0..(o + 1) : Path(a, b, m) # {}
        <5>1. PICK l \in 0..o : Path(c, b, l) # {} /\ c \in Block
          OBVIOUS
        <5>2. Path(a, b, l + 1) # {} /\ l + 1 \in 0..(o + 1)
          BY <4>2, <4>5, <5>1, <1>2
        <5> QED
          BY <5>2
      <4> QED
        BY <4>3, <4>4, <4>5
    <3> QED
      BY <3>2, <3>3, <3>4
  <2> QED
    BY <2>1, <2>2
<1>4. g = h
  <2>1. DOMAIN g = Nat /\ DOMAIN h = Nat
    OBVIOUS
  <2> HIDE DEF g, h
  <2>2. g = [n \in Nat |-> g[n]] /\ h = [n \in Nat |-> h[n]]
    BY <2>1 DEF g, h
  <2> QED
    BY <1>3, <2>2
<1> QED
  BY <1>4 DEF ReachDef

\* Reaching satisfies its own equation.
LEMMA ReachUnfold == ASSUME NEW b \in Block PROVE ReachDef(Reaching(b), b)
<1>1. Reaching(b) = CHOOSE g : ReachDef(g, b)
  BY DEF Reaching, ReachDef
<1> QED
  BY <1>1, ReachExists

\* The levels of Reaching: the predecessors first, then theirs.
LEMMA ReachEquations ==
  ASSUME NEW b \in Block
  PROVE  /\ ReachingWithin(b, 0) = {a \in Block : IsEdge(a, b)}
         /\ \A n \in Nat :
              ReachingWithin(b, n + 1) = ReachingWithin(b, n) \cup
                {a \in Block : \E c \in ReachingWithin(b, n) : IsEdge(a, c)}
<1> DEFINE g == Reaching(b)
<1>1. ReachDef(g, b)
  BY ReachUnfold
<1> HIDE DEF g
<1>2. g[0] = {a \in Block : IsEdge(a, b)}
  BY <1>1 DEF ReachDef
<1>3. ASSUME NEW n \in Nat
      PROVE  g[n + 1] = g[n] \cup {a \in Block : \E c \in g[n] : IsEdge(a, c)}
  <2>1. n + 1 \in Nat /\ n + 1 # 0 /\ n + 1 - 1 = n
    OBVIOUS
  <2> QED
    BY <1>1, <2>1 DEF ReachDef
<1> QED
  BY <1>2, <1>3 DEF ReachingWithin, g

\* A longer bound reaches no less.
LEMMA ReachGrows ==
  ASSUME NEW b \in Block, NEW m \in Nat, NEW n \in Nat, m =< n
  PROVE  ReachingWithin(b, m) \subseteq ReachingWithin(b, n)
<1> DEFINE T == {i \in Nat : m =< i /\ ~ (ReachingWithin(b, m) \subseteq ReachingWithin(b, i))}
<1> SUFFICES ASSUME T # {} PROVE FALSE
  OBVIOUS
<1>1. PICK i \in T : i \in Nat /\ \A j \in T : i =< j
  <2>1. T \subseteq Nat
    OBVIOUS
  <2> HIDE DEF T
  <2> QED
    BY <2>1, Smallest
<1>2. i # m
  OBVIOUS
<1>3. PICK o \in Nat : i = o + 1 /\ m =< o
  <2>1. i - 1 \in Nat /\ i = i - 1 + 1 /\ m =< i - 1
    BY <1>2
  <2> QED
    BY <2>1
<1>4. o \notin T
  BY <1>1, <1>3
<1>5. ReachingWithin(b, o) \subseteq ReachingWithin(b, i)
  BY <1>3, ReachEquations
<1> QED
  BY <1>3, <1>4, <1>5

\* A path along edges reaches its last block from all the others.
LEMMA PathReaches ==
  ASSUME NEW l \in Nat, NEW p \in [1..l -> Block], \A i \in 2..l : IsEdge(p[i - 1], p[i]),
         NEW m \in 1..l, m # l
  PROVE  p[m] \in ReachingWithin(p[l], l)
<1>0. l \in 1..l /\ p[l] \in Block /\ m < l
  OBVIOUS
<1> DEFINE T == {d \in Nat : d < l - 1 /\ p[l - 1 - d] \notin ReachingWithin(p[l], d)}
<1>1. T = {}
  <2> SUFFICES ASSUME T # {} PROVE FALSE
    OBVIOUS
  <2>1. PICK d \in T : d \in Nat /\ \A j \in T : d =< j
    <3>1. T \subseteq Nat
      OBVIOUS
    <3> HIDE DEF T
    <3> QED
      BY <3>1, Smallest
  <2>2. /\ d < l - 1 /\ l - 1 - d \in 1..l /\ l - d \in 2..l /\ l - d - 1 = l - 1 - d
        /\ p[l - 1 - d] \in Block /\ p[l - d] \in Block
    BY <2>1
  <2>3. IsEdge(p[l - 1 - d], p[l - d])
    BY <2>2
  <2>4. CASE d = 0
    <3>1. l - d = l
      BY <2>4
    <3>2. p[l - 1 - d] \in ReachingWithin(p[l], 0)
      BY <1>0, <2>2, <2>3, <3>1, ReachEquations
    <3> QED
      BY <2>1, <2>4, <3>2
  <2>5. CASE d # 0
    <3>1. PICK o \in Nat : d = o + 1
      <4>1. d - 1 \in Nat /\ d = d - 1 + 1
        BY <2>1, <2>5
      <4> QED
        BY <4>1
    <3>2. o \notin T
      BY <2>1, <3>1
    <3>3. p[l - d] \in ReachingWithin(p[l], o)
      <4>1. l - 1 - o = l - d /\ o < l - 1
        BY <2>2, <3>1
      <4> QED
        BY <3>2, <4>1
    <3>4. p[l - 1 - d] \in ReachingWithin(p[l], d)
      BY <1>0, <2>2, <2>3, <3>1, <3>3, ReachEquations
    <3> QED
      BY <2>1, <3>4
  <2> QED
    BY <2>4, <2>5
<1>2. l - 1 - m \in Nat /\ l - 1 - m < l - 1 /\ l - 1 - (l - 1 - m) = m /\ l - 1 - m =< l
  BY <1>0
<1>3. p[m] \in ReachingWithin(p[l], l - 1 - m)
  BY <1>1, <1>2
<1> QED
  BY <1>0, <1>2, <1>3, ReachGrows

-----------------------------------------------------------------------------
\* Blocks that have their number, and blocks the walk has entered and not left.
IsNumbered(b) == \E i \in DOMAIN rpo : rpo[i] = b
IsOpen(b) == \E i \in 1..Len(stack) : stack[i][1] = b

\* The stack is a path from the entry block that meets no block twice.
PathOK ==
  /\ stack # <<>> => stack[1][1] = Entry
  /\ \A i \in 2..Len(stack) : /\ stack[i][1] \in visited
                              /\ stack[i][1] = succs[stack[i - 1][1]][stack[i - 1][2]]
  /\ \A i, j \in 1..Len(stack) : i # j => stack[i][1] # stack[j][1]

\* A visited block is either open or numbered, and nothing else but the exit is.
VisitedOK ==
  /\ visited \subseteq Block \ {Entry, Exit}
  /\ \A b \in visited : IsNumbered(b) \/ IsOpen(b)
  /\ \A b \in Block : IsNumbered(b) => Seen(b) /\ ~ IsOpen(b)

\* An edge is behind the walk when it leaves a numbered block or comes before the
\* edge on the stack; it leads to a block the walk has seen.
SeenOK ==
  /\ \A i \in 1..Len(stack) : \A m \in DOMAIN succs[stack[i][1]] :
       m < stack[i][2] => Seen(succs[stack[i][1]][m])
  /\ \A b \in Block : IsNumbered(b) => \A m \in DOMAIN succs[b] : Seen(succs[b][m])
  /\ stack = <<>> => \A m \in DOMAIN succs[Entry] : Seen(succs[Entry][m])

\* The numbers given so far.
Blocks == Cardinality(Block)
OnceOK == rpo # <<>> /\ rpo[Len(rpo)] = Exit
          /\ \A i, j \in DOMAIN rpo : i # j => rpo[i] # rpo[j]
BackOK == \A i, j \in DOMAIN rpo :
            IsEdge(rpo[i], rpo[j]) /\ j =< i =>
              rpo[i] = rpo[j] \/ rpo[j] \in ReachingWithin(rpo[i], Blocks)

\* An edge from a numbered block to an open one will go back in the order.
OpenBackOK ==
  \A b, c \in Block : IsNumbered(b) /\ IsOpen(c) /\ IsEdge(b, c) =>
                        c \in ReachingWithin(b, Blocks)

\* After the walk: the successors of a numbered block are numbered.
ClosedOK ==
  rpo[1] = Entry /\ \A b \in Block : IsNumbered(b) =>
                      \A m \in DOMAIN succs[b] : IsNumbered(succs[b][m])

EdgesOK == succs[Exit] = <<>> /\ \A b \in Block : \A m \in DOMAIN succs[b] : succs[b][m] # Entry

WalkInv ==
  /\ EdgesOK /\ OnceOK /\ BackOK
  /\ pc = "dfs" => PathOK /\ VisitedOK /\ SeenOK /\ OpenBackOK
  /\ pc # "dfs" => ClosedOK

-----------------------------------------------------------------------------
\* A block in front of the order.
LEMMA FrontOf ==
  ASSUME NEW S, NEW s \in Seq(S), NEW d \in S, NEW t, t = <<d>> \o s
  PROVE  /\ t \in Seq(S) /\ Len(t) = Len(s) + 1 /\ Len(s) \in Nat
         /\ DOMAIN t = 1..(Len(s) + 1) /\ DOMAIN s = 1..Len(s)
         /\ t[1] = d /\ \A i \in 1..Len(s) : t[i + 1] = s[i]
<1>1. <<d>> \in Seq(S) /\ Len(<<d>>) = 1 /\ <<d>>[1] = d
  OBVIOUS
<1>2. /\ t \in Seq(S) /\ Len(t) = 1 + Len(s) /\ Len(s) \in Nat
      /\ \A i \in 1..(1 + Len(s)) : t[i] = IF i =< 1 THEN <<d>>[i] ELSE s[i - 1]
  BY <1>1, ConcatProperties, LenProperties
<1>3. DOMAIN t = 1..Len(t) /\ DOMAIN s = 1..Len(s)
  BY <1>2, LenProperties
<1>4. t[1] = d
  BY <1>1, <1>2
<1>5. \A i \in 1..Len(s) : i + 1 \in 1..(1 + Len(s)) /\ ~ (i + 1 =< 1) /\ i + 1 - 1 = i
  BY <1>2
<1> QED
  BY <1>2, <1>3, <1>4, <1>5

\* A block gets its number: the edges to it come from blocks it reaches.
LEMMA NumberBlock ==
  ASSUME NEW d \in Block, rpo \in Seq(Block), rpo' = <<d>> \o rpo, succs' = succs,
         ~ IsNumbered(d), OnceOK, BackOK,
         \A b \in Block : IsNumbered(b) /\ IsEdge(b, d) => d \in ReachingWithin(b, Blocks)
  PROVE  /\ OnceOK' /\ BackOK' /\ rpo'[1] = d
         /\ \A b \in Block : IsNumbered(b)' <=> b = d \/ IsNumbered(b)
<1>1. /\ rpo' \in Seq(Block) /\ Len(rpo') = Len(rpo) + 1 /\ Len(rpo) \in Nat
      /\ DOMAIN rpo' = 1..(Len(rpo) + 1) /\ DOMAIN rpo = 1..Len(rpo)
      /\ rpo'[1] = d /\ \A i \in 1..Len(rpo) : rpo'[i + 1] = rpo[i]
  BY FrontOf
<1>2. \A i \in DOMAIN rpo' : i = 1 \/ (i - 1 \in DOMAIN rpo /\ rpo'[i] = rpo[i - 1] /\ i \in Nat)
  <2> SUFFICES ASSUME NEW i \in DOMAIN rpo', i # 1
               PROVE  i - 1 \in DOMAIN rpo /\ rpo'[i] = rpo[i - 1] /\ i \in Nat
    OBVIOUS
  <2>1. i - 1 \in 1..Len(rpo) /\ i - 1 + 1 = i /\ i \in Nat
    BY <1>1
  <2> QED
    BY <1>1, <2>1
<1>3. \A i \in DOMAIN rpo : rpo[i] # d /\ rpo[i] \in Block
  BY <1>1, ElementOfSeq DEF IsNumbered
<1>4. OnceOK'
  <2>1. rpo # <<>> /\ rpo[Len(rpo)] = Exit /\ \A i, j \in DOMAIN rpo : i # j => rpo[i] # rpo[j]
    BY DEF OnceOK
  <2>2. Len(rpo) \in 1..Len(rpo) /\ rpo' # <<>>
    BY <1>1, <2>1, EmptySeq
  <2>3. rpo'[Len(rpo')] = Exit
    BY <1>1, <2>1, <2>2
  <2>4. \A i, j \in DOMAIN rpo' : i # j => rpo'[i] # rpo'[j]
    <3> SUFFICES ASSUME NEW i \in DOMAIN rpo', NEW j \in DOMAIN rpo', i # j PROVE rpo'[i] # rpo'[j]
      OBVIOUS
    <3>1. CASE i = 1
      BY <1>1, <1>2, <1>3, <3>1
    <3>2. CASE j = 1
      BY <1>1, <1>2, <1>3, <3>2
    <3>3. CASE i # 1 /\ j # 1
      <4>1. i - 1 # j - 1 /\ i - 1 \in DOMAIN rpo /\ j - 1 \in DOMAIN rpo
        BY <1>2, <3>3
      <4> QED
        BY <1>2, <2>1, <3>3, <4>1
    <3> QED
      BY <3>1, <3>2, <3>3
  <2> QED
    BY <2>2, <2>3, <2>4 DEF OnceOK
<1>5. BackOK'
  <2>1. \A a, b : IsEdge(a, b)' <=> IsEdge(a, b)
    BY DEF IsEdge
  <2>2. \A b, n : ReachingWithin(b, n)' = ReachingWithin(b, n)
    BY DEF ReachingWithin, Reaching, IsEdge
  <2>3. ASSUME NEW i \in DOMAIN rpo', NEW j \in DOMAIN rpo', IsEdge(rpo'[i], rpo'[j]), j =< i
        PROVE  rpo'[i] = rpo'[j] \/ rpo'[j] \in ReachingWithin(rpo'[i], Blocks)
    <3>1. CASE i = 1
      <4>1. j = 1
        BY <1>1, <2>3, <3>1
      <4> QED
        BY <3>1, <4>1
    <3>2. CASE i # 1 /\ j = 1
      <4>1. i - 1 \in DOMAIN rpo /\ rpo'[i] = rpo[i - 1] /\ rpo'[j] = d
        BY <1>1, <1>2, <3>2
      <4>2. rpo'[i] \in Block /\ IsNumbered(rpo'[i])
        BY <1>3, <4>1 DEF IsNumbered
      <4> QED
        BY <2>3, <4>1, <4>2
    <3>3. CASE i # 1 /\ j # 1
      <4>1. /\ i - 1 \in DOMAIN rpo /\ rpo'[i] = rpo[i - 1]
            /\ j - 1 \in DOMAIN rpo /\ rpo'[j] = rpo[j - 1] /\ j - 1 =< i - 1
        BY <1>2, <2>3, <3>3
      <4> QED
        BY <2>3, <4>1 DEF BackOK
    <3> QED
      BY <3>1, <3>2, <3>3
  <2> QED
    BY <2>1, <2>2, <2>3 DEF BackOK, Blocks
<1>6. \A b \in Block : IsNumbered(b)' <=> b = d \/ IsNumbered(b)
  <2>1. ASSUME NEW b \in Block, IsNumbered(b)' PROVE b = d \/ IsNumbered(b)
    BY <2>1, <1>1, <1>2 DEF IsNumbered
  <2>2. ASSUME NEW b \in Block, IsNumbered(b) PROVE IsNumbered(b)'
    <3>1. PICK i \in 1..Len(rpo) : rpo[i] = b
      BY <2>2, <1>1 DEF IsNumbered
    <3>2. i + 1 \in DOMAIN rpo'
      BY <1>1
    <3> QED
      BY <1>1, <3>1, <3>2 DEF IsNumbered
  <2>3. IsNumbered(d)'
    <3>1. 1 \in DOMAIN rpo'
      BY <1>1
    <3> QED
      BY <1>1, <3>1 DEF IsNumbered
  <2> QED
    BY <2>1, <2>2, <2>3
<1> QED
  BY <1>1, <1>4, <1>5, <1>6

-----------------------------------------------------------------------------
\* At the start only the exit has a number and only the entry is open.
LEMMA WalkInit == Init => WalkInv
<1> SUFFICES ASSUME Init PROVE WalkInv
  OBVIOUS
<1>1. /\ succs \in Graphs /\ stack = << <<Entry, 1>> >> /\ rpo = <<Exit>> /\ visited = {}
      /\ pc = "dfs"
  BY DEF Init, OrderInit
<1>2. /\ Len(stack) = 1 /\ stack[1] = <<Entry, 1>> /\ stack # <<>>
      /\ Len(rpo) = 1 /\ rpo[1] = Exit /\ DOMAIN rpo = 1..1 /\ rpo # <<>>
  BY <1>1
<1>3. EdgesOK
  BY <1>1, GraphAssumption DEF EdgesOK
<1>4. \A i \in DOMAIN rpo : i = 1
  BY <1>2
<1>5. OnceOK /\ BackOK
  BY <1>2, <1>4 DEF OnceOK, BackOK
<1>6. \A b \in Block : IsNumbered(b) => b = Exit
  BY <1>2, <1>4 DEF IsNumbered
<1>7. \A b \in Block : IsOpen(b) => b = Entry
  <2>1. \A i \in 1..Len(stack) : i = 1
    BY <1>2
  <2> QED
    BY <1>2, <2>1 DEF IsOpen
<1>8. PathOK
  <2>1. \A i \in 2..Len(stack) : FALSE
    BY <1>2
  <2>2. \A i \in 1..Len(stack) : i = 1
    BY <1>2
  <2> QED
    BY <1>2, <2>1, <2>2 DEF PathOK
<1>9. VisitedOK
  BY <1>1, <1>6, <1>7, BlockAssumption DEF VisitedOK, Seen
<1>10. SeenOK
  <2>1. succs \in [Block -> Seq(Block)]
    BY <1>1, GraphAssumption
  <2>2. \A m \in DOMAIN succs[Exit] : FALSE
    BY <1>3 DEF EdgesOK
  <2>3. ASSUME NEW i \in 1..Len(stack), NEW m \in DOMAIN succs[stack[i][1]], m < stack[i][2] PROVE FALSE
    <3>1. i = 1 /\ stack[i][1] = Entry /\ stack[i][2] = 1
      BY <1>2
    <3>2. succs[Entry] \in Seq(Block)
      BY <2>1, BlockAssumption
    <3>3. m \in Nat \ {0}
      BY <2>3, <3>1, <3>2, LenProperties
    <3> QED
      BY <2>3, <3>1, <3>3
  <2> QED
    BY <1>2, <1>6, <2>2, <2>3 DEF SeenOK
<1>11. OpenBackOK
  <2>1. \A c \in Block : ~ IsEdge(Exit, c)
    BY <1>3 DEF EdgesOK, IsEdge
  <2> QED
    BY <1>6, <2>1 DEF OpenBackOK
<1> QED
  BY <1>1, <1>3, <1>5, <1>8, <1>9, <1>10, <1>11 DEF WalkInv

\* The block the edge on top of the stack leads to, when it is new.
LEMMA NewBlock ==
  ASSUME Inv, WalkInv, pc = "dfs", stack # <<>>, ~ Seen(Dest)
  PROVE  /\ Dest \in Block /\ Dest # Exit /\ Dest # Entry /\ Dest \notin visited
         /\ ~ IsNumbered(Dest) /\ ~ IsOpen(Dest)
         /\ \A b \in Block : IsNumbered(b) => ~ IsEdge(b, Dest)
<1>1. /\ Top[1] \in Block /\ Top[2] \in DOMAIN succs[Top[1]] /\ Dest \in Block
      /\ Dest = succs[Top[1]][Top[2]]
  BY TopIsEdge DEF Inv, Dest
<1>2. Dest # Exit /\ Dest \notin visited
  BY DEF Seen
<1>3. Dest # Entry
  BY <1>1 DEF WalkInv, EdgesOK
<1>4. ~ IsNumbered(Dest)
  BY <1>1 DEF WalkInv, VisitedOK
<1>5. ~ IsOpen(Dest)
  <2> SUFFICES ASSUME NEW i \in 1..Len(stack), stack[i][1] = Dest PROVE FALSE
    BY DEF IsOpen
  <2>1. i = 1 \/ i \in 2..Len(stack)
    OBVIOUS
  <2> QED
    BY <1>2, <1>3, <2>1 DEF WalkInv, PathOK
<1>6. \A b \in Block : IsNumbered(b) => ~ IsEdge(b, Dest)
  BY DEF WalkInv, SeenOK, IsEdge
<1> QED
  BY <1>1, <1>2, <1>3, <1>4, <1>5, <1>6

\* A new block is opened, or numbered at once when it leads nowhere.
LEMMA VisitWalk == ASSUME Inv, WalkInv, Visit PROVE WalkInv'
<1>d. PICK d : d = Dest
  OBVIOUS
<1>1. /\ pc = "dfs" /\ pc' = "dfs" /\ stack # <<>> /\ ~ Seen(d) /\ succs' = succs
      /\ visited' = visited \cup {d}
      /\ IF succs[d] # <<>> THEN stack' = Append(stack, <<d, 1>>) /\ rpo' = rpo
                            ELSE stack' = stack /\ rpo' = <<d>> \o rpo
  BY <1>d DEF Visit, Numbered
<1>2. /\ d \in Block /\ d # Exit /\ d # Entry /\ d \notin visited
      /\ ~ IsNumbered(d) /\ ~ IsOpen(d)
      /\ \A b \in Block : IsNumbered(b) => ~ IsEdge(b, d)
  BY <1>d, <1>1, NewBlock
<1>3. /\ stack \in Seq(Edge) /\ rpo \in Seq(Block) /\ succs \in [Block -> Seq(Block)]
      /\ Len(stack) \in Nat /\ \A i \in 1..Len(stack) : IsStacked(stack[i])
  <2>1. stack \in Seq(Edge) /\ rpo \in Seq(Block) /\ succs \in [Block -> Seq(Block)]
    BY DEF Inv, TypeOK, OrderTypeOK, Edge
  <2> QED
    BY <2>1, LenProperties DEF Inv, StackOK, IsStacked
<1>4. EdgesOK /\ OnceOK /\ BackOK /\ PathOK /\ VisitedOK /\ SeenOK /\ OpenBackOK
  BY <1>1 DEF WalkInv
<1>5. EdgesOK'
  BY <1>1, <1>4 DEF EdgesOK
<1>6. \A b : Seen(b)' <=> Seen(b) \/ b = d
  BY <1>1 DEF Seen
<1>7. \A a, b : IsEdge(a, b)' <=> IsEdge(a, b)
  BY <1>1 DEF IsEdge
<1>8. \A b, n : ReachingWithin(b, n)' = ReachingWithin(b, n)
  BY <1>1 DEF ReachingWithin, Reaching, IsEdge
<1>9. CASE succs[d] # <<>>
  <2>1. rpo' = rpo
    BY <1>1, <1>9
  <2>2. /\ Len(stack') = Len(stack) + 1 /\ stack' # <<>>
        /\ \A i \in 1..Len(stack) : stack'[i] = stack[i]
        /\ stack'[Len(stack) + 1] = <<d, 1>>
    <3>1. <<d, 1>> \in Edge
      BY <1>2 DEF Edge
    <3>2. stack' = Append(stack, <<d, 1>>)
      BY <1>1, <1>9
    <3>3. /\ Append(stack, <<d, 1>>) \in Seq(Edge)
          /\ Len(Append(stack, <<d, 1>>)) = Len(stack) + 1
          /\ \A i \in 1..Len(stack) : Append(stack, <<d, 1>>)[i] = stack[i]
          /\ Append(stack, <<d, 1>>)[Len(stack) + 1] = <<d, 1>>
      BY <1>3, <3>1, PushTop
    <3>4. \A s \in Seq(Edge) : Len(s) = Len(stack) + 1 => s # <<>>
      BY <1>3, EmptySeq
    <3> QED
      BY <3>2, <3>3, <3>4
  <2>3. \A i \in 1..Len(stack') : i \in 1..Len(stack) \/ i = Len(stack) + 1
    BY <1>3, <2>2
  <2>4. /\ stack'[Len(stack) + 1][1] = d /\ stack'[Len(stack) + 1][2] = 1
        /\ Len(stack) + 1 \in 1..Len(stack')
        /\ \A i \in 1..Len(stack) : i \in 1..Len(stack') /\ stack[i][1] # d
    BY <1>2, <1>3, <2>2 DEF IsOpen
  <2>5. \A b \in Block : IsOpen(b)' <=> IsOpen(b) \/ b = d
    BY <2>2, <2>3, <2>4 DEF IsOpen
  <2>6. \A b \in Block : IsNumbered(b)' <=> IsNumbered(b)
    BY <2>1 DEF IsNumbered
  <2>7. OnceOK' /\ BackOK'
    BY <1>4, <1>7, <1>8, <2>1 DEF OnceOK, BackOK, Blocks
  <2>8. PathOK'
    <3>1. Len(stack) \in 1..Len(stack) /\ 1 \in 1..Len(stack)
      BY <1>1, <1>3, EmptySeq
    <3>2. stack'[1][1] = Entry
      BY <1>1, <1>4, <2>2, <3>1 DEF PathOK
    <3>3. ASSUME NEW i \in 2..Len(stack')
          PROVE  stack'[i][1] \in visited' /\ stack'[i][1] = succs[stack'[i - 1][1]][stack'[i - 1][2]]
      <4>1. CASE i \in 2..Len(stack)
        <5>1. i \in 1..Len(stack) /\ i - 1 \in 1..Len(stack)
          BY <4>1
        <5> QED
          BY <1>1, <1>4, <2>2, <4>1, <5>1 DEF PathOK
      <4>2. CASE i = Len(stack) + 1
        <5>1. i - 1 = Len(stack) /\ stack'[i - 1] = Top
          BY <1>3, <2>2, <3>1, <4>2 DEF Top
        <5> QED
          BY <1>1, <1>d, <2>4, <4>2, <5>1 DEF Dest
      <4> QED
        BY <1>3, <2>2, <4>1, <4>2
    <3>4. \A i, j \in 1..Len(stack') : i # j => stack'[i][1] # stack'[j][1]
      BY <1>4, <2>2, <2>3, <2>4 DEF PathOK
    <3> QED
      BY <1>1, <3>2, <3>3, <3>4 DEF PathOK
  <2>9. VisitedOK'
    BY <1>1, <1>2, <1>4, <1>6, <2>5, <2>6 DEF VisitedOK
  <2>10. SeenOK'
    <3>1. ASSUME NEW i \in 1..Len(stack'), NEW m \in DOMAIN succs[stack'[i][1]], m < stack'[i][2]
          PROVE  Seen(succs[stack'[i][1]][m])
      <4>1. CASE i \in 1..Len(stack)
        BY <1>4, <2>2, <3>1, <4>1 DEF SeenOK
      <4>2. CASE i = Len(stack) + 1
        <5>1. succs[d] \in Seq(Block)
          BY <1>2, <1>3
        <5>2. m \in Nat \ {0} /\ m < 1
          BY <2>4, <3>1, <4>2, <5>1, LenProperties
        <5> QED
          BY <5>2
      <4> QED
        BY <2>3, <4>1, <4>2
    <3> QED
      BY <1>1, <1>4, <1>6, <2>2, <2>6, <3>1 DEF SeenOK
  <2>11. OpenBackOK'
    BY <1>2, <1>4, <1>7, <1>8, <2>5, <2>6 DEF OpenBackOK, Blocks
  <2> QED
    BY <1>1, <1>5, <2>7, <2>8, <2>9, <2>10, <2>11 DEF WalkInv
<1>10. CASE succs[d] = <<>>
  <2>1. stack' = stack /\ rpo' = <<d>> \o rpo
    BY <1>1, <1>10
  <2>2. /\ OnceOK' /\ BackOK'
        /\ \A b \in Block : IsNumbered(b)' <=> b = d \/ IsNumbered(b)
    BY <1>1, <1>2, <1>3, <1>4, <2>1, NumberBlock
  <2>3. \A b \in Block : IsOpen(b)' <=> IsOpen(b)
    BY <2>1 DEF IsOpen
  <2>4. PathOK'
    BY <1>1, <1>4, <2>1 DEF PathOK
  <2>5. VisitedOK'
    BY <1>1, <1>2, <1>4, <1>6, <2>2, <2>3 DEF VisitedOK
  <2>6. SeenOK'
    <3>1. \A m \in DOMAIN succs[d] : FALSE
      BY <1>10
    <3> QED
      BY <1>1, <1>4, <1>6, <2>1, <2>2, <3>1 DEF SeenOK
  <2>7. OpenBackOK'
    <3>1. \A c : ~ IsEdge(d, c)
      BY <1>10 DEF IsEdge
    <3> QED
      BY <1>4, <1>7, <1>8, <2>2, <2>3, <3>1 DEF OpenBackOK, Blocks
  <2> QED
    BY <1>1, <1>5, <2>2, <2>4, <2>5, <2>6, <2>7 DEF WalkInv
<1> QED
  BY <1>9, <1>10

\* The stack is a path to its top, and no longer than there are blocks.
LEMMA OpenReaches ==
  ASSUME Inv, WalkInv, pc = "dfs", NEW m \in 1..Len(stack), m # Len(stack)
  PROVE  stack[m][1] \in ReachingWithin(Top[1], Blocks)
<1>1. stack \in Seq(Edge) /\ Len(stack) \in Nat /\ \A i \in 1..Len(stack) : IsStacked(stack[i])
  <2>1. stack \in Seq(Edge)
    BY DEF Inv, TypeOK, OrderTypeOK, Edge
  <2> QED
    BY <2>1, LenProperties DEF Inv, StackOK, IsStacked
<1>2. PathOK
  BY DEF WalkInv
<1> DEFINE l == Len(stack)
           p == [i \in 1..l |-> stack[i][1]]
<1>3. p \in [1..l -> Block]
  BY <1>1 DEF IsStacked
<1>4. \A i \in 2..l : IsEdge(p[i - 1], p[i])
  <2> SUFFICES ASSUME NEW i \in 2..l PROVE IsEdge(p[i - 1], p[i])
    OBVIOUS
  <2>1. i \in 1..l /\ i - 1 \in 1..l
    BY <1>1
  <2>2. stack[i][1] = succs[stack[i - 1][1]][stack[i - 1][2]]
    BY <1>2 DEF PathOK
  <2> QED
    BY <1>1, <2>1, <2>2 DEF IsEdge, IsStacked
<1>5. \A i, j \in 1..l : p[i] = p[j] => i = j
  BY <1>2 DEF PathOK
<1>6. l \in Nat /\ l =< Blocks /\ Blocks \in Nat
  <2>1. p \in Injection(1..l, Block)
    BY <1>3, <1>5 DEF Injection, IsInjective
  <2>2. Cardinality(1..l) = l
    BY <1>1, FS_Interval, SMTT(30)
  <2>3. Cardinality(1..l) =< Cardinality(Block) /\ Cardinality(Block) \in Nat
    <3> HIDE DEF l, p
    <3> QED
      BY <2>1, FS_Injection, FS_CardinalityType, BlockAssumption
  <2> QED
    BY <1>1, <2>2, <2>3 DEF Blocks
<1>7. p[m] \in ReachingWithin(p[l], l)
  <2> HIDE DEF l, p
  <2>1. l \in Nat /\ m \in 1..l /\ m # l
    BY <1>1 DEF l
  <2> QED
    BY <1>3, <1>4, <2>1, PathReaches
<1>8. l \in 1..l /\ p[l] = Top[1] /\ p[m] = stack[m][1] /\ p[l] \in Block
  BY <1>1, <1>3 DEF Top
<1> QED
  <2> HIDE DEF l, p
  <2>1. ReachingWithin(p[l], l) \subseteq ReachingWithin(p[l], Blocks)
    BY <1>6, <1>8, ReachGrows
  <2> QED
    BY <1>7, <1>8, <2>1

\* The walk takes the next edge of the top block, or leaves it and numbers it.
LEMMA AdvanceWalk == ASSUME Inv, WalkInv, Advance PROVE WalkInv'
<1>1. /\ pc = "dfs" /\ pc' = "dfs" /\ stack # <<>> /\ Seen(Dest) /\ succs' = succs
      /\ visited' = visited
  BY DEF Advance
<1>2. PICK u, e : Top = <<u, e>> /\ u \in Block /\ e \in Nat \ {0} /\ e \in DOMAIN succs[u]
  BY <1>1, TopIsEdge DEF Inv
<1>3. /\ stack \in Seq(Edge) /\ rpo \in Seq(Block) /\ succs \in [Block -> Seq(Block)]
      /\ Len(stack) \in Nat \ {0} /\ \A i \in 1..Len(stack) : IsStacked(stack[i])
      /\ stack[Len(stack)] = <<u, e>> /\ Len(stack) \in 1..Len(stack)
  <2>1. stack \in Seq(Edge) /\ rpo \in Seq(Block) /\ succs \in [Block -> Seq(Block)]
    BY DEF Inv, TypeOK, OrderTypeOK, Edge
  <2>2. Len(stack) \in Nat \ {0}
    BY <1>1, <2>1, EmptySeq
  <2> QED
    BY <1>2, <2>1, <2>2 DEF Inv, StackOK, IsStacked, Top
<1>4. EdgesOK /\ OnceOK /\ BackOK /\ PathOK /\ VisitedOK /\ SeenOK /\ OpenBackOK
  BY <1>1 DEF WalkInv
<1>5. EdgesOK' /\ \A b : Seen(b)' <=> Seen(b)
  BY <1>1, <1>4 DEF EdgesOK, Seen
<1>6. \A a, b : IsEdge(a, b)' <=> IsEdge(a, b)
  BY <1>1 DEF IsEdge
<1>7. \A b, n : ReachingWithin(b, n)' = ReachingWithin(b, n)
  BY <1>1 DEF ReachingWithin, Reaching, IsEdge
<1>8. Seen(succs[u][e])
  BY <1>1, <1>2 DEF Dest
<1>9. CASE e < Len(succs[u])
  <2>1. /\ rpo' = rpo
        /\ stack' = [stack EXCEPT ![Len(stack)] =
                       [stack[Len(stack)] EXCEPT ![2] = stack[Len(stack)][2] + 1]]
    BY <1>2, <1>9 DEF Advance
  <2>2. stack' = [stack EXCEPT ![Len(stack)] = <<u, e + 1>>]
    <3>1. [<<u, e>> EXCEPT ![2] = <<u, e>>[2] + 1] = <<u, e + 1>>
      BY <1>2
    <3> QED
      BY <1>3, <2>1, <3>1, Zenon
  <2>3. /\ Len(stack') = Len(stack) /\ stack'[Len(stack)] = <<u, e + 1>> /\ stack' \in Seq(Edge)
        /\ \A j \in 1..Len(stack) : j # Len(stack) => stack'[j] = stack[j]
    <3>1. <<u, e + 1>> \in Edge
      BY <1>2 DEF Edge
    <3> QED
      BY <1>1, <1>3, <2>2, <3>1, ReplaceTop
  <2>4. \A j \in 1..Len(stack) : stack'[j][1] = stack[j][1]
    BY <1>3, <2>3
  <2>5. stack' # <<>>
    BY <1>3, <2>3, EmptySeq
  <2>6. \A b \in Block : (IsOpen(b)' <=> IsOpen(b)) /\ (IsNumbered(b)' <=> IsNumbered(b))
    BY <2>1, <2>3, <2>4 DEF IsOpen, IsNumbered
  <2>7. OnceOK' /\ BackOK' /\ OpenBackOK'
    BY <1>4, <1>6, <1>7, <2>1, <2>6 DEF OnceOK, BackOK, OpenBackOK, Blocks
  <2>8. PathOK'
    <3>1. ASSUME NEW i \in 2..Len(stack)
          PROVE  stack'[i][1] \in visited /\ stack'[i][1] = succs[stack'[i - 1][1]][stack'[i - 1][2]]
      <4>1. i \in 1..Len(stack) /\ i - 1 \in 1..Len(stack) /\ i - 1 # Len(stack)
        BY <1>3
      <4> QED
        BY <1>4, <2>3, <2>4, <4>1 DEF PathOK
    <3>2. 1 \in 1..Len(stack)
      BY <1>3
    <3> QED
      BY <1>1, <1>4, <2>3, <2>4, <3>1, <3>2 DEF PathOK
  <2>9. VisitedOK'
    BY <1>1, <1>4, <1>5, <2>6 DEF VisitedOK
  <2>10. SeenOK'
    <3>1. ASSUME NEW i \in 1..Len(stack), NEW m \in DOMAIN succs[stack[i][1]], m < stack'[i][2]
          PROVE  Seen(succs[stack[i][1]][m])
      <4>1. CASE i # Len(stack)
        BY <1>4, <2>3, <3>1, <4>1 DEF SeenOK
      <4>2. CASE i = Len(stack)
        <5>1. stack[i][1] = u /\ stack[i][2] = e /\ m < e + 1 /\ m \in Nat
          <6>1. succs[u] \in Seq(Block)
            BY <1>2, <1>3
          <6> QED
            BY <1>3, <2>3, <3>1, <4>2, <6>1, LenProperties
        <5>2. m = e \/ m < e
          BY <1>2, <5>1
        <5> QED
          BY <1>4, <1>8, <3>1, <5>1, <5>2 DEF SeenOK
      <4> QED
        BY <4>1, <4>2
    <3> QED
      BY <1>1, <1>4, <1>5, <2>3, <2>4, <2>5, <2>6, <3>1 DEF SeenOK
  <2> QED
    BY <1>1, <1>5, <2>7, <2>8, <2>9, <2>10 DEF WalkInv
<1>10. CASE ~ (e < Len(succs[u]))
  <2>1. /\ rpo' = IF u = Entry THEN rpo ELSE <<u>> \o rpo
        /\ stack' = SubSeq(stack, 1, Len(stack) - 1)
    BY <1>2, <1>10 DEF Advance, Pop, Numbered
  <2>2. /\ stack' \in Seq(Edge) /\ Len(stack') = Len(stack) - 1
        /\ \A j \in 1..(Len(stack) - 1) : stack'[j] = stack[j] /\ j \in 1..Len(stack) /\ j # Len(stack)
    <3>1. /\ SubSeq(stack, 1, Len(stack) - 1) \in Seq(Edge)
          /\ Len(SubSeq(stack, 1, Len(stack) - 1)) = Len(stack) - 1
          /\ \A j \in 1..(Len(stack) - 1) : SubSeq(stack, 1, Len(stack) - 1)[j] = stack[j]
      BY <1>1, <1>3, PopTop
    <3>2. \A j \in 1..(Len(stack) - 1) : j \in 1..Len(stack) /\ j # Len(stack)
      BY <1>3
    <3> QED
      BY <2>1, <3>1, <3>2
  <2>3. \A j \in 1..Len(stack) : j = Len(stack) \/ j \in 1..(Len(stack) - 1)
    BY <1>3
  <2>4. \A m \in DOMAIN succs[u] : Seen(succs[u][m])
    <3> SUFFICES ASSUME NEW m \in DOMAIN succs[u] PROVE Seen(succs[u][m])
      OBVIOUS
    <3>1. succs[u] \in Seq(Block)
      BY <1>2, <1>3
    <3>2. m = e \/ m < e
      BY <1>2, <1>10, <3>1, LenProperties
    <3>3. stack[Len(stack)][1] = u /\ stack[Len(stack)][2] = e
      BY <1>3
    <3> QED
      BY <1>3, <1>4, <1>8, <3>2, <3>3 DEF SeenOK
  <2>5. /\ IsOpen(u) /\ ~ IsNumbered(u) /\ ~ IsOpen(u)'
        /\ \A b \in Block : b # u => (IsOpen(b)' <=> IsOpen(b))
        /\ \A b \in Block : IsOpen(b)' => IsOpen(b)
    <3>1. stack[Len(stack)][1] = u
      BY <1>3
    <3>2. IsOpen(u)
      BY <1>3, <3>1 DEF IsOpen
    <3>3. ~ IsNumbered(u)
      BY <1>2, <1>4, <3>2 DEF VisitedOK
    <3>4. ASSUME NEW j \in 1..(Len(stack) - 1) PROVE stack'[j][1] # u
      <4>1. stack'[j] = stack[j] /\ j \in 1..Len(stack) /\ j # Len(stack)
        BY <2>2
      <4>2. Len(stack) \in 1..Len(stack)
        BY <1>3
      <4>3. stack[j][1] # stack[Len(stack)][1]
        BY <1>4, <4>1, <4>2 DEF PathOK
      <4> QED
        BY <3>1, <4>1, <4>3
    <3> QED
      BY <2>2, <2>3, <3>1, <3>2, <3>3, <3>4 DEF IsOpen
  <2>6. PathOK'
    <3>1. ASSUME NEW i \in 2..Len(stack')
          PROVE  stack'[i][1] \in visited /\ stack'[i][1] = succs[stack'[i - 1][1]][stack'[i - 1][2]]
      <4>1. i \in 1..(Len(stack) - 1) /\ i - 1 \in 1..(Len(stack) - 1) /\ i \in 2..Len(stack)
        BY <1>3, <2>2
      <4> QED
        BY <1>4, <2>2, <4>1 DEF PathOK
    <3>2. stack' # <<>> => 1 \in 1..(Len(stack) - 1)
      BY <2>2, EmptySeq
    <3> QED
      BY <1>1, <1>4, <2>2, <3>1, <3>2 DEF PathOK
  <2>7. \A i \in 1..Len(stack') : \A m \in DOMAIN succs[stack'[i][1]] :
          m < stack'[i][2] => Seen(succs[stack'[i][1]][m])
    BY <1>4, <2>2 DEF SeenOK
  <2>8. stack[1][1] = Entry
    BY <1>1, <1>4 DEF PathOK
  <2>9. CASE u = Entry
    <3>1. rpo' = rpo /\ \A b \in Block : IsNumbered(b)' <=> IsNumbered(b)
      BY <2>1, <2>9 DEF IsNumbered
    <3>2. OnceOK' /\ BackOK' /\ OpenBackOK'
      BY <1>4, <1>6, <1>7, <2>5, <3>1 DEF OnceOK, BackOK, OpenBackOK, Blocks
    <3>3. VisitedOK'
      BY <1>1, <1>4, <1>5, <2>5, <2>9, <3>1 DEF VisitedOK
    <3>4. SeenOK'
      BY <1>1, <1>4, <1>5, <2>4, <2>7, <2>9, <3>1 DEF SeenOK
    <3> QED
      BY <1>1, <1>5, <2>6, <3>2, <3>3, <3>4 DEF WalkInv
  <2>10. CASE u # Entry
    <3>1. stack' # <<>>
      <4>1. Len(stack) # 1
        BY <1>3, <2>8, <2>10
      <4> QED
        BY <1>3, <2>2, <4>1, EmptySeq
    <3>2. \A b \in Block : IsNumbered(b) /\ IsEdge(b, u) => u \in ReachingWithin(b, Blocks)
      BY <1>2, <1>4, <2>5 DEF OpenBackOK
    <3>3. rpo' = <<u>> \o rpo
      BY <2>1, <2>10
    <3>4. /\ OnceOK' /\ BackOK'
          /\ \A b \in Block : IsNumbered(b)' <=> b = u \/ IsNumbered(b)
      BY <1>1, <1>2, <1>3, <1>4, <2>5, <3>2, <3>3, NumberBlock
    <3>5. Seen(u)
      <4>1. Len(stack) \in 2..Len(stack)
        <5>1. Len(stack) # 1
          BY <1>3, <2>8, <2>10
        <5>2. \A n \in Nat \ {0} : n # 1 => n \in 2..n
          OBVIOUS
        <5>3. Len(stack) \in Nat \ {0}
          BY <1>3
        <5> QED
          BY <5>1, <5>2, <5>3
      <4>2. stack[Len(stack)][1] \in visited
        BY <1>4, <4>1 DEF PathOK
      <4> QED
        BY <1>3, <4>2 DEF Seen
    <3>6. VisitedOK'
      BY <1>1, <1>4, <1>5, <2>5, <3>4, <3>5 DEF VisitedOK
    <3>7. SeenOK'
      BY <1>1, <1>4, <1>5, <2>4, <2>7, <3>1, <3>4 DEF SeenOK
    <3>8. OpenBackOK'
      <4>1. ASSUME NEW c \in Block, IsOpen(c)' PROVE c \in ReachingWithin(u, Blocks)
        <5>1. PICK m \in 1..(Len(stack) - 1) : stack[m][1] = c
          BY <2>2, <4>1 DEF IsOpen
        <5> QED
          BY <1>1, <1>2, <2>2, <5>1, OpenReaches
      <4> QED
        BY <1>4, <1>6, <1>7, <2>5, <3>4, <4>1 DEF OpenBackOK, Blocks
    <3> QED
      BY <1>1, <1>5, <2>6, <3>4, <3>6, <3>7, <3>8 DEF WalkInv
  <2> QED
    BY <2>9, <2>10
<1> QED
  BY <1>9, <1>10

\* At the end of the walk nothing is open: what was visited has its number.
LEMMA OrderedWalk == ASSUME Inv, WalkInv, Ordered PROVE WalkInv'
<1>1. /\ pc = "dfs" /\ pc' = "ordered" /\ stack = <<>> /\ succs' = succs
      /\ rpo' = <<Entry>> \o rpo
  BY DEF Ordered
<1>2. rpo \in Seq(Block) /\ Entry \in Block /\ succs \in [Block -> Seq(Block)]
  BY BlockAssumption DEF Inv, TypeOK, OrderTypeOK
<1>3. EdgesOK /\ OnceOK /\ BackOK /\ VisitedOK /\ SeenOK
  BY <1>1 DEF WalkInv
<1>4. \A b : ~ IsOpen(b)
  BY <1>1 DEF IsOpen
<1>5. ~ IsNumbered(Entry)
  BY <1>2, <1>3, BlockAssumption DEF VisitedOK, Seen
<1>6. \A b \in Block : ~ IsEdge(b, Entry)
  BY <1>3 DEF EdgesOK, IsEdge
<1>7. /\ OnceOK' /\ BackOK' /\ rpo'[1] = Entry
      /\ \A b \in Block : IsNumbered(b)' <=> b = Entry \/ IsNumbered(b)
  BY <1>1, <1>2, <1>3, <1>5, <1>6, NumberBlock
<1>8. IsNumbered(Exit)
  <2>1. Len(rpo) \in DOMAIN rpo
    BY <1>2, <1>3, EmptySeq, LenProperties DEF OnceOK
  <2> QED
    BY <1>3, <2>1 DEF OnceOK, IsNumbered
<1>9. \A b \in Block : Seen(b) => IsNumbered(b)'
  BY <1>3, <1>4, <1>7, <1>8 DEF Seen, VisitedOK
<1>10. ClosedOK'
  <2>1. ASSUME NEW b \in Block, IsNumbered(b)', NEW m \in DOMAIN succs[b] PROVE IsNumbered(succs[b][m])'
    <3>1. Seen(succs[b][m])
      BY <1>1, <1>3, <1>7, <2>1 DEF SeenOK
    <3>2. succs[b][m] \in Block
      BY <1>2, <2>1
    <3>3. PICK x \in Block : x = succs[b][m]
      BY <3>2
    <3>4. IsNumbered(x)'
      BY <1>9, <3>1, <3>3
    <3> QED
      BY <1>1, <3>3, <3>4 DEF IsNumbered
  <2> QED
    BY <1>1, <1>7, <2>1 DEF ClosedOK, IsNumbered
<1> QED
  BY <1>1, <1>3, <1>7, <1>10 DEF WalkInv, EdgesOK

\* The rounds that follow leave graph and order alone.
LEMMA WalkStep == ASSUME Inv, WalkInv, [Next]_vars PROVE WalkInv'
<1>1. CASE Visit
  BY <1>1, VisitWalk
<1>2. CASE Advance
  BY <1>2, AdvanceWalk
<1>3. CASE Ordered
  BY <1>3, OrderedWalk
<1>4. CASE UNCHANGED <<succs, orderVars>> /\ (pc' = pc \/ (pc # "dfs" /\ pc' # "dfs"))
  <2>1. succs' = succs /\ visited' = visited /\ stack' = stack /\ rpo' = rpo
    BY <1>4 DEF orderVars
  <2>e. \A a, b : IsEdge(a, b)' <=> IsEdge(a, b)
    BY <2>1 DEF IsEdge
  <2>r. \A b, n : ReachingWithin(b, n)' = ReachingWithin(b, n)
    BY <2>1 DEF ReachingWithin, Reaching, IsEdge
  <2>2. EdgesOK' /\ OnceOK' /\ BackOK'
    <3>1. EdgesOK /\ OnceOK /\ BackOK
      BY DEF WalkInv
    <3>2. BackOK'
      BY <2>1, <2>e, <2>r, <3>1 DEF BackOK, Blocks
    <3> QED
      BY <2>1, <3>1, <3>2 DEF EdgesOK, OnceOK
  <2>3. pc' = "dfs" => PathOK' /\ VisitedOK' /\ SeenOK' /\ OpenBackOK'
    <3> SUFFICES ASSUME pc' = "dfs" PROVE PathOK' /\ VisitedOK' /\ SeenOK' /\ OpenBackOK'
      OBVIOUS
    <3>1. PathOK /\ VisitedOK /\ SeenOK /\ OpenBackOK
      BY <1>4 DEF WalkInv
    <3>2. PathOK' /\ VisitedOK' /\ SeenOK'
      BY <2>1, <3>1 DEF PathOK, VisitedOK, SeenOK, IsNumbered, IsOpen, Seen
    <3>3. OpenBackOK'
      BY <2>1, <2>e, <2>r, <3>1 DEF OpenBackOK, IsNumbered, IsOpen, Blocks
    <3> QED
      BY <3>2, <3>3
  <2>4. pc' # "dfs" => ClosedOK'
    BY <1>4, <2>1 DEF WalkInv, ClosedOK, IsNumbered
  <2> QED
    BY <2>2, <2>3, <2>4 DEF WalkInv
<1>5. StartRounds \/ EnterBlock \/ WalkInsn \/ LeaveBlock \/ EndRound =>
        UNCHANGED <<succs, orderVars>> /\ pc # "dfs" /\ pc' # "dfs"
  BY DEF StartRounds, StartRound, EnterBlock, WalkInsn, LeaveBlock, EndRound
<1>6. UNCHANGED vars => UNCHANGED <<succs, orderVars>> /\ pc' = pc
  BY DEF vars
<1> QED
  BY <1>1, <1>2, <1>3, <1>4, <1>5, <1>6 DEF Next, Order, OrderNext

\* What the order promises at every point of the walk.
THEOREM WalkInvariance == Spec => [](Inv /\ WalkInv)
<1>1. Init => WalkInv
  BY WalkInit
<1>2. Inv /\ WalkInv /\ [Next]_vars => WalkInv'
  BY WalkStep
<1> QED
  BY <1>1, <1>2, Invariance, PTL DEF Spec

-----------------------------------------------------------------------------
\* Numbers follow the edges: what a numbered block reaches is numbered.
LEMMA NumberedForward ==
  ASSUME succs \in [Block -> Seq(Block)], ClosedOK,
         NEW a \in Block, NEW b \in Block, NEW n \in Nat,
         IsNumbered(a), a \in ReachingWithin(b, n)
  PROVE  IsNumbered(b)
<1> DEFINE T == {i \in Nat : \E c \in Block : IsNumbered(c) /\ c \in ReachingWithin(b, i)}
<1>1. T # {} /\ T \subseteq Nat
  OBVIOUS
<1>2. PICK i \in T : i \in Nat /\ \A j \in T : i =< j
  <2> HIDE DEF T
  <2> QED
    BY <1>1, Smallest
<1>3. PICK c \in Block : IsNumbered(c) /\ c \in ReachingWithin(b, i)
  BY <1>2
<1>4. ASSUME NEW d \in Block, IsEdge(c, d) PROVE IsNumbered(d)
  <2>1. PICK m \in DOMAIN succs[c] : succs[c][m] = d
    BY <1>4 DEF IsEdge
  <2>2. IsNumbered(succs[c][m])
    BY <1>3 DEF ClosedOK
  <2> QED
    BY <2>1, <2>2
<1>5. CASE i = 0
  <2>1. IsEdge(c, b)
    BY <1>3, <1>5, ReachEquations
  <2> QED
    BY <1>4, <2>1
<1>6. CASE i # 0
  <2>1. PICK o \in Nat : i = o + 1
    <3>1. i - 1 \in Nat /\ i = i - 1 + 1
      BY <1>2, <1>6
    <3> QED
      BY <3>1
  <2>2. o \notin T
    BY <1>2, <2>1
  <2>3. ReachingWithin(b, i) = ReachingWithin(b, o) \cup
          {d \in Block : \E f \in ReachingWithin(b, o) : IsEdge(d, f)}
    BY <2>1, ReachEquations
  <2>4. c \notin ReachingWithin(b, o)
    BY <1>3, <2>2, <2>1
  <2>5. PICK f \in ReachingWithin(b, o) : IsEdge(c, f)
    BY <1>3, <2>3, <2>4
  <2>6. f \in Block
    BY <1>3, <2>5 DEF IsEdge
  <2>7. IsNumbered(f)
    BY <1>4, <2>5, <2>6
  <2> QED
    BY <2>1, <2>2, <2>5, <2>6, <2>7
<1> QED
  BY <1>5, <1>6

\* pre_and_rev_post_order_compute: the order has every block a run can reach, each
\* once, the entry first and the exit last; an edge to an earlier block closes a cycle.
THEOREM NumberingHolds == Spec => []Numbering
<1>1. Inv /\ WalkInv => Numbering
  <2> SUFFICES ASSUME Inv, WalkInv, pc # "dfs"
               PROVE  /\ rpo[1] = Entry /\ rpo[Len(rpo)] = Exit
                      /\ \A i, j \in DOMAIN rpo : i # j => rpo[i] # rpo[j]
                      /\ \A i, j \in DOMAIN rpo :
                           IsEdge(rpo[i], rpo[j]) /\ j =< i =>
                             \/ rpo[i] = rpo[j]
                             \/ rpo[j] \in ReachingWithin(rpo[i], Cardinality(Block))
                      /\ \A b \in Block :
                           Entry \in ReachingWithin(b, Cardinality(Block)) => IsNumbered(b)
    BY DEF Numbering, IsNumbered
  <2>1. OnceOK /\ BackOK /\ ClosedOK
    BY DEF WalkInv
  <2>2. succs \in [Block -> Seq(Block)] /\ rpo \in Seq(Block) /\ Entry \in Block
    BY BlockAssumption DEF Inv, TypeOK, OrderTypeOK
  <2>3. IsNumbered(Entry)
    <3>1. 1 \in DOMAIN rpo
      BY <2>1, <2>2, EmptySeq, LenProperties DEF OnceOK
    <3> QED
      BY <2>1, <3>1 DEF ClosedOK, IsNumbered
  <2>4. Cardinality(Block) \in Nat
    BY FS_CardinalityType, BlockAssumption
  <2>5. ASSUME NEW b \in Block, Entry \in ReachingWithin(b, Cardinality(Block)) PROVE IsNumbered(b)
    BY <2>1, <2>2, <2>3, <2>4, <2>5, NumberedForward
  <2> QED
    BY <2>1, <2>5 DEF OnceOK, BackOK, ClosedOK, Blocks
<1> QED
  BY <1>1, WalkInvariance, PTL
=============================================================================
