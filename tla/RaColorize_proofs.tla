-------------------------- MODULE RaColorize_proofs --------------------------
(***************************************************************************)
(* The allocator that colours a graph gives registers that interfere       *)
(* different hard registers, for every program and any hard registers, in  *)
(* the rounds in which no hard register gets into a list.                  *)
(*                                                                         *)
(* While the graph is taken apart the invariant Graph says what each step  *)
(* needs of the ones before it: the lists are apart and agree with the     *)
(* degrees and the moves, the degrees count the neighbours that are left,  *)
(* the moves belong to the aliases of their sides, and two registers that  *)
(* interfere have aliases that do, as seen from the one that is coloured   *)
(* later (Kept).  Inside a step the degrees are wrong for a while:         *)
(* Owing says by how much, as a loop over a bitmap goes on.                *)
(*                                                                         *)
(* While colours are given the invariant is Colouring: what interferes is  *)
(* of different colours, or the one still on the stack sees the other.     *)
(***************************************************************************)
EXTENDS RaColorize, FiniteSetTheorems, NaturalsInduction, WellFoundedInduction, TLAPS

-----------------------------------------------------------------------------
\* The graph and its fields.

\* The number of colours a node can have.
Room(k, v) == Cardinality(Available[k[v]])
\* Registers are numbered, and each has a class.
Numbered(k) == \E n \in Nat : NumHard =< n /\ k \in [0..(n - 1) -> DOMAIN Available]
\* The graphs of a program: k gives the class of each register, c the code.
Records(k, c) == [
  adj : [DOMAIN k -> SUBSET DOMAIN k], degree : [DOMAIN k -> Int],
  moves : [DOMAIN k -> SUBSET Moves(c)], alias : [DOMAIN k -> DOMAIN k],
  hardNum : [DOMAIN k -> {-1} \cup Hard],
  simplify : SUBSET DOMAIN k, freeze : SUBSET DOMAIN k, spill : SUBSET DOMAIN k,
  select : SUBSET DOMAIN k, coalesced : SUBSET DOMAIN k,
  worklist : SUBSET Moves(c), active : SUBSET Moves(c), constrained : SUBSET Moves(c),
  frozen : SUBSET Moves(c), joined : SUBSET Moves(c),
  stack : Seq(DOMAIN k), spilled : SUBSET DOMAIN k, temps : SUBSET DOMAIN k]
Shape(k, c, h) == h \in Records(k, c)
\* What decrement_degree and InsertArc leave alone.
Fixed(h, r) ==
  /\ r.moves = h.moves /\ r.alias = h.alias /\ r.hardNum = h.hardNum
  /\ r.select = h.select /\ r.coalesced = h.coalesced
  /\ r.stack = h.stack /\ r.spilled = h.spilled /\ r.temps = h.temps
SameLists(h, r) == r.simplify = h.simplify /\ r.freeze = h.freeze /\ r.spill = h.spill
SameArcs(h, r) == r.adj = h.adj /\ r.degree = h.degree
\* Moves go from one list to the other at most.
SameMoves(h, r) ==
  /\ r.active \cup r.worklist = h.active \cup h.worklist
  /\ h.active \cap h.worklist = {} => r.active \cap r.worklist = {}
\* The nodes that have left the graph.
Gone(h) == h.select \cup h.coalesced

\* The nodes are a finite set of numbers with the hard registers among them.
LEMMA NodesFinite ==
  ASSUME NEW k, Numbered(k)
  PROVE  IsFiniteSet(DOMAIN k) /\ Hard \subseteq DOMAIN k /\ DOMAIN k \subseteq Nat
<1> PICK n \in Nat : NumHard =< n /\ k \in [0..(n - 1) -> DOMAIN Available] BY DEF Numbered
<1>1. IsFiniteSet(0..(n - 1)) BY FS_Interval
<1> QED BY <1>1, RegistersAssumption DEF Hard

\* A class has finitely many hard registers to give.
LEMMA RoomType ==
  ASSUME NEW k, Numbered(k), NEW v \in DOMAIN k
  PROVE  Room(k, v) \in Nat
<1>1. IsFiniteSet(Hard) BY FS_Interval, RegistersAssumption DEF Hard
<1>2. k[v] \in DOMAIN Available BY DEF Numbered
<1>3. IsFiniteSet(Available[k[v]]) BY <1>1, <1>2, RegistersAssumption, FS_Subset
<1> QED BY <1>3, FS_CardinalityType DEF Room

\* The fields of a typed graph, one by one.
LEMMA ShapeFacts ==
  ASSUME NEW k, NEW c, NEW h, Shape(k, c, h)
  PROVE  /\ \A x \in DOMAIN k : h.adj[x] \subseteq DOMAIN k /\ h.degree[x] \in Int
         /\ h.simplify \subseteq DOMAIN k /\ h.freeze \subseteq DOMAIN k /\ h.spill \subseteq DOMAIN k
         /\ h.select \subseteq DOMAIN k /\ h.coalesced \subseteq DOMAIN k
         /\ h.active \subseteq Moves(c) /\ h.worklist \subseteq Moves(c)
         /\ \A x \in DOMAIN k : h.alias[x] \in DOMAIN k /\ h.moves[x] \subseteq Moves(c)
BY DEF Shape, Records

\* InsertArc, for an arc the graph does not have: one neighbour and one degree more on
\* both sides, and nothing else.
LEMMA ArcNew ==
  ASSUME NEW k, NEW c, NEW h, NEW v \in DOMAIN k, NEW w \in DOMAIN k, NEW r,
         Shape(k, c, h), v # w, v \notin h.adj[w], r = InsertArc(h, v, w)
  PROVE  /\ Shape(k, c, r) /\ Fixed(h, r) /\ SameLists(h, r)
         /\ r.active = h.active /\ r.worklist = h.worklist
         /\ \A x \in DOMAIN k : r.adj[x] = h.adj[x] \cup (IF x = v THEN {w} ELSE {})
                                             \cup (IF x = w THEN {v} ELSE {})
         /\ \A x \in DOMAIN k : r.degree[x] = IF x = v \/ x = w THEN h.degree[x] + 1 ELSE h.degree[x]
<1>1. Fixed(h, r) /\ SameLists(h, r) /\ r.active = h.active /\ r.worklist = h.worklist
  BY DEF Shape, Records, InsertArc, Fixed, SameLists
<1>2. r.adj = [h.adj EXCEPT ![v] = @ \cup {w}, ![w] = @ \cup {v}] BY DEF Shape, Records, InsertArc
<1>3. r.degree = [h.degree EXCEPT ![v] = @ + 1, ![w] = @ + 1] BY DEF Shape, Records, InsertArc
<1>5. h.adj \in [DOMAIN k -> SUBSET DOMAIN k] /\ h.degree \in [DOMAIN k -> Int] BY DEF Shape, Records
<1>8. r.adj \in [DOMAIN k -> SUBSET DOMAIN k] /\ r.degree \in [DOMAIN k -> Int]
  BY <1>2, <1>3, <1>5
<1>4. Shape(k, c, r)
  <2> PICK a : a = r.adj OBVIOUS
  <2> PICK d : d = r.degree OBVIOUS
  <2>1. r = [h EXCEPT !.adj = a, !.degree = d] BY DEF Shape, Records, InsertArc
  <2>2. a \in [DOMAIN k -> SUBSET DOMAIN k] /\ d \in [DOMAIN k -> Int] BY <1>8
  <2> HIDE <1>8
  <2> QED BY <2>1, <2>2 DEF Shape, Records
<1>6. \A x \in DOMAIN k : r.adj[x] = h.adj[x] \cup (IF x = v THEN {w} ELSE {})
                                             \cup (IF x = w THEN {v} ELSE {})
  BY <1>2, <1>5
<1>7. \A x \in DOMAIN k : r.degree[x] = IF x = v \/ x = w THEN h.degree[x] + 1 ELSE h.degree[x]
  BY <1>3, <1>5
<1> QED BY <1>1, <1>4, <1>6, <1>7

\* InsertArc, for an arc the graph has: nothing happens.
LEMMA ArcOld ==
  ASSUME NEW h, NEW v, NEW w, NEW r, v \in h.adj[w] \/ v = w, r = InsertArc(h, v, w)
  PROVE  r = h
BY DEF InsertArc

\* enable_moves hands moves from active to worklist, none lost and none in both.
LEMMA EnableEffect ==
  ASSUME NEW k, NEW c, NEW h, NEW V, NEW r, Shape(k, c, h), r = EnableMoves(h, V)
  PROVE  /\ Shape(k, c, r) /\ Fixed(h, r) /\ SameLists(h, r) /\ SameArcs(h, r) /\ SameMoves(h, r)
         /\ r.active \subseteq h.active
<1> DEFINE again == h.active \cap UNION {NodeMoves(h, v) : v \in V}
<1> PICK A : A = again OBVIOUS
<1>1. r = [h EXCEPT !.active = @ \ A, !.worklist = @ \cup A] BY DEF EnableMoves
<1>2. A \subseteq h.active OBVIOUS
<1> HIDE DEF again
<1>3. Shape(k, c, r)
  <2> PICK a : a = h.active \ A OBVIOUS
  <2> PICK w : w = h.worklist \cup A OBVIOUS
  <2>1. r = [h EXCEPT !.active = a, !.worklist = w] BY ONLY <1>1, a = h.active \ A, w = h.worklist \cup A
  <2>2. h.active \subseteq Moves(c) /\ h.worklist \subseteq Moves(c) BY DEF Shape, Records
  <2>3. a \subseteq Moves(c) /\ w \subseteq Moves(c) BY <1>2, <2>2
  <2> QED BY ONLY <2>1, <2>3, Shape(k, c, h) DEF Shape, Records
<1>4. r.active = h.active \ A /\ r.worklist = h.worklist \cup A BY <1>1 DEF Shape, Records
<1>5. Fixed(h, r) /\ SameLists(h, r) /\ SameArcs(h, r) BY <1>1 DEF Shape, Records, Fixed, SameLists, SameArcs
<1>6. SameMoves(h, r) BY <1>2, <1>4 DEF SameMoves
<1> QED BY <1>3, <1>4, <1>5, <1>6

\* Moves that only change between the two lists are still needed by the same nodes.
LEMMA SameNodeMoves ==
  ASSUME NEW h, NEW r, r.moves = h.moves, r.active \cup r.worklist = h.active \cup h.worklist
  PROVE  \A v : NodeMoves(r, v) = NodeMoves(h, v) /\ MoveRelated(r, v) = MoveRelated(h, v)
BY DEF NodeMoves, MoveRelated

\* One list of nodes is changed.
Untouched(h, r) == Fixed(h, r) /\ SameArcs(h, r) /\ r.active = h.active /\ r.worklist = h.worklist

\* An assignment to the list simplify leaves the rest as it was.
LEMMA PutSimplify ==
  ASSUME NEW k, NEW c, NEW h, NEW S, NEW r, Shape(k, c, h), S \subseteq DOMAIN k,
         r = [h EXCEPT !.simplify = S]
  PROVE  /\ Shape(k, c, r) /\ Untouched(h, r)
         /\ r.simplify = S /\ r.freeze = h.freeze /\ r.spill = h.spill
BY DEF Shape, Records, Untouched, Fixed, SameArcs

\* An assignment to the list freeze leaves the rest as it was.
LEMMA PutFreeze ==
  ASSUME NEW k, NEW c, NEW h, NEW S, NEW r, Shape(k, c, h), S \subseteq DOMAIN k,
         r = [h EXCEPT !.freeze = S]
  PROVE  /\ Shape(k, c, r) /\ Untouched(h, r)
         /\ r.freeze = S /\ r.simplify = h.simplify /\ r.spill = h.spill
BY DEF Shape, Records, Untouched, Fixed, SameArcs

\* An assignment to the list spill leaves the rest as it was.
LEMMA PutSpill ==
  ASSUME NEW k, NEW c, NEW h, NEW S, NEW r, Shape(k, c, h), S \subseteq DOMAIN k,
         r = [h EXCEPT !.spill = S]
  PROVE  /\ Shape(k, c, r) /\ Untouched(h, r)
         /\ r.spill = S /\ r.simplify = h.simplify /\ r.freeze = h.freeze
BY DEF Shape, Records, Untouched, Fixed, SameArcs

-----------------------------------------------------------------------------
\* decrement_degree.

\* No node is in two lists, and none is lost.
Apart(k, h) ==
  /\ h.simplify \cap (h.freeze \cup h.spill \cup Gone(h)) = {}
  /\ h.freeze \cap (h.spill \cup Gone(h)) = {}
  /\ h.spill \cap Gone(h) = {}
  /\ h.select \cap h.coalesced = {}
  /\ h.coalesced \cap Hard = {}
  /\ DOMAIN k \ Hard \subseteq h.simplify \cup h.freeze \cup h.spill \cup Gone(h)
\* A frozen node has fewer neighbours than colours, one to spill as many or more.
Levels(k, h, E) ==
  /\ \A v \in h.freeze \ E : h.degree[v] < Room(k, v)
  /\ \A v \in h.spill : h.degree[v] >= Room(k, v)
\* A node is frozen if a move needs it, and none is simplified that a move needs.
Related(h, E) ==
  /\ \A v \in h.simplify \cup h.select : ~ MoveRelated(h, v)
  /\ \A v \in h.freeze \ (Hard \cup E) : MoveRelated(h, v)
Listed(k, h, E) == Apart(k, h) /\ Levels(k, h, E) /\ Related(h, E)

\* v leaves the list to spill; a node that no move needs goes to be simplified.
Lowered(h, r, v) ==
  /\ r.spill = h.spill \ {v}
  /\ MoveRelated(h, v) => r.freeze = h.freeze \cup {v} /\ r.simplify = h.simplify
  /\ ~ MoveRelated(h, v) =>
       r.freeze = h.freeze /\ r.simplify = h.simplify \cup ({v} \ Hard)

\* decrement_degree: one degree is lowered by one, and the node changes lists exactly
\* when its degree was the number of colours.
LEMMA DecrementEffect ==
  ASSUME NEW h, NEW v \in Reg, NEW r, Shape(class, code, h), r = DecrementDegree(h, v)
  PROVE  /\ Shape(class, code, r) /\ Fixed(h, r) /\ SameMoves(h, r) /\ r.adj = h.adj
         /\ r.active \subseteq h.active
         /\ \A x \in Reg : r.degree[x] = IF x = v THEN h.degree[x] - 1 ELSE h.degree[x]
         /\ h.degree[v] # Room(class, v) => SameLists(h, r)
         /\ h.degree[v] = Room(class, v) => Lowered(h, r, v)
<1> PICK down : down = [h EXCEPT !.degree[v] = @ - 1] OBVIOUS
<1> PICK V : V = Adjacent(h, v) \cup {v} OBVIOUS
<1> PICK low : low = EnableMoves(down, V) OBVIOUS
<1> PICK un : un = [low EXCEPT !.spill = @ \ {v}] OBVIOUS
<1>1. r = IF h.degree[v] # Room(class, v) THEN down
          ELSE IF MoveRelated(low, v) THEN [un EXCEPT !.freeze = @ \cup {v}]
          ELSE IF v \in Hard THEN un ELSE [un EXCEPT !.simplify = @ \cup {v}]
  BY DEF DecrementDegree, Avail, Room
<1> v \in DOMAIN class BY DEF Reg
<1>2. /\ Shape(class, code, down) /\ Fixed(h, down) /\ SameLists(h, down) /\ down.adj = h.adj
      /\ down.active = h.active /\ down.worklist = h.worklist
      /\ down.degree = [h.degree EXCEPT ![v] = @ - 1]
  <2>1. down.degree = [h.degree EXCEPT ![v] = @ - 1] BY DEF Shape, Records
  <2>2. Fixed(h, down) /\ SameLists(h, down) /\ down.adj = h.adj
        /\ down.active = h.active /\ down.worklist = h.worklist
    BY DEF Shape, Records, Fixed, SameLists
  <2>3. Shape(class, code, down)
    <3> PICK d : d = [h.degree EXCEPT ![v] = @ - 1] OBVIOUS
    <3>1. down = [h EXCEPT !.degree = d] OBVIOUS
    <3>2. d \in [DOMAIN class -> Int]
      <4>1. h.degree \in [DOMAIN class -> Int] BY DEF Shape, Records
      <4> QED BY <4>1
    <3> QED BY <3>1, <3>2 DEF Shape, Records
  <2> QED BY <2>1, <2>2, <2>3
<1>3. \A x \in Reg : down.degree[x] = IF x = v THEN h.degree[x] - 1 ELSE h.degree[x]
  <2>1. h.degree \in [Reg -> Int] BY DEF Shape, Records, Reg
  <2> QED BY <1>2, <2>1
<1>4. /\ Shape(class, code, low) /\ Fixed(down, low) /\ SameLists(down, low)
      /\ SameArcs(down, low) /\ SameMoves(down, low) /\ low.active \subseteq down.active
  <2>1. Shape(class, code, down) BY <1>2
  <2> QED BY ONLY <2>1, low = EnableMoves(down, V), EnableEffect
<1>5. MoveRelated(low, v) = MoveRelated(h, v)
  <2>1. low.moves = h.moves BY <1>2, <1>4 DEF Fixed
  <2>2. low.active \cup low.worklist = h.active \cup h.worklist BY <1>2, <1>4 DEF SameMoves
  <2> QED BY <2>1, <2>2, SameNodeMoves
<1>6. /\ Shape(class, code, un) /\ Fixed(low, un) /\ SameArcs(low, un)
      /\ un.active = low.active /\ un.worklist = low.worklist
      /\ un.simplify = low.simplify /\ un.freeze = low.freeze /\ un.spill = low.spill \ {v}
  <2> PICK S : S = low.spill \ {v} OBVIOUS
  <2>1. Shape(class, code, low) BY <1>4
  <2>2. S \subseteq DOMAIN class BY <2>1, ShapeFacts
  <2>3. un = [low EXCEPT !.spill = S] OBVIOUS
  <2> QED BY ONLY <2>1, <2>2, <2>3, S = low.spill \ {v}, PutSpill DEF Untouched
<1>7. Fixed(h, low) /\ SameLists(h, low) /\ SameMoves(h, low) /\ low.adj = h.adj
      /\ low.degree = down.degree /\ low.active \subseteq h.active
  BY <1>2, <1>4 DEF Fixed, SameLists, SameArcs, SameMoves
<1>8. Fixed(h, un) /\ SameMoves(h, un) /\ un.adj = h.adj /\ un.degree = down.degree
      /\ un.active \subseteq h.active
      /\ un.simplify = h.simplify /\ un.freeze = h.freeze /\ un.spill = h.spill \ {v}
  BY <1>6, <1>7 DEF Fixed, SameLists, SameMoves, SameArcs
<1>9. CASE h.degree[v] # Room(class, v)
  <2>1. SameMoves(h, down) BY <1>2 DEF SameMoves
  <2> QED BY <1>1, <1>2, <1>3, <1>9, <2>1
<1>10. CASE h.degree[v] = Room(class, v) /\ MoveRelated(h, v)
  <2>1. r = [un EXCEPT !.freeze = @ \cup {v}] BY <1>1, <1>5, <1>10
  <2>2. /\ Shape(class, code, r) /\ Fixed(un, r) /\ SameArcs(un, r) /\ r.active = un.active
        /\ r.worklist = un.worklist /\ r.spill = un.spill /\ r.simplify = un.simplify
        /\ r.freeze = un.freeze \cup {v}
    <3>1. Shape(class, code, un) BY <1>6
    <3> PICK F : F = un.freeze \cup {v} OBVIOUS
    <3>3. r = [un EXCEPT !.freeze = F] /\ F \subseteq DOMAIN class
      <4>1. un.freeze \subseteq DOMAIN class BY <3>1, ShapeFacts
      <4> QED BY <4>1, <2>1
    <3> QED BY ONLY <3>1, <3>3, F = un.freeze \cup {v}, PutFreeze DEF Untouched
  <2>3. Lowered(h, r, v) BY <1>8, <2>2, <1>10 DEF Lowered
  <2>4. SameMoves(h, r) /\ Fixed(h, r) /\ r.adj = h.adj /\ r.degree = down.degree
    BY <1>8, <2>2 DEF SameMoves, Fixed, SameArcs
  <2> QED BY <1>3, <1>8, <1>10, <2>2, <2>3, <2>4
<1>11. CASE h.degree[v] = Room(class, v) /\ ~ MoveRelated(h, v) /\ v \in Hard
  <2>1. r = un BY <1>1, <1>5, <1>11
  <2>3. Lowered(h, r, v) BY ONLY <1>8, <2>1, <1>11 DEF Lowered
  <2>4. Shape(class, code, r) /\ Fixed(h, r) /\ SameMoves(h, r) /\ r.adj = h.adj
        /\ r.active \subseteq h.active /\ r.degree = down.degree
    BY <1>6, <1>8, <2>1
  <2> QED BY <1>3, <1>11, <2>3, <2>4
<1>12. CASE h.degree[v] = Room(class, v) /\ ~ MoveRelated(h, v) /\ v \notin Hard
  <2>1. r = [un EXCEPT !.simplify = @ \cup {v}] BY <1>1, <1>5, <1>12
  <2>2. /\ Shape(class, code, r) /\ Fixed(un, r) /\ SameArcs(un, r) /\ r.active = un.active
        /\ r.worklist = un.worklist /\ r.spill = un.spill /\ r.freeze = un.freeze
        /\ r.simplify = un.simplify \cup {v}
    <3>1. Shape(class, code, un) BY <1>6
    <3> PICK F : F = un.simplify \cup {v} OBVIOUS
    <3>3. r = [un EXCEPT !.simplify = F] /\ F \subseteq DOMAIN class
      <4>1. un.simplify \subseteq DOMAIN class BY <3>1, ShapeFacts
      <4> QED BY <4>1, <2>1
    <3> QED BY ONLY <3>1, <3>3, F = un.simplify \cup {v}, PutSimplify DEF Untouched
  <2>3. Lowered(h, r, v) BY <1>8, <2>2, <1>12 DEF Lowered
  <2>4. SameMoves(h, r) /\ Fixed(h, r) /\ r.adj = h.adj /\ r.degree = down.degree
    BY <1>8, <2>2 DEF SameMoves, Fixed, SameArcs
  <2> QED BY <1>3, <1>8, <1>12, <2>2, <2>3, <2>4
<1> QED BY <1>9, <1>10, <1>11, <1>12

\* decrement_degree keeps the lists apart and in line with degrees and moves; before it
\* the degree of v may already be too low for its list.
LEMMA DecrementKeepsLists ==
  ASSUME NEW h, NEW E, NEW v \in Reg, NEW r, Numbered(class), Shape(class, code, h),
         Apart(class, h), Levels(class, h, E \cup {v}), Related(h, E),
         v \in h.freeze => h.degree[v] =< Room(class, v),
         v \notin Gone(h), v \notin E, r = DecrementDegree(h, v)
  PROVE  Listed(class, r, E)
<1>1. /\ Shape(class, code, r) /\ Fixed(h, r) /\ SameMoves(h, r)
      /\ \A x \in Reg : r.degree[x] = IF x = v THEN h.degree[x] - 1 ELSE h.degree[x]
      /\ h.degree[v] # Room(class, v) => SameLists(h, r)
      /\ h.degree[v] = Room(class, v) => Lowered(h, r, v)
  BY DecrementEffect
<1>2. Gone(r) = Gone(h) /\ r.select = h.select /\ r.coalesced = h.coalesced BY <1>1 DEF Gone, Fixed
<1>3. \A x : MoveRelated(r, x) = MoveRelated(h, x) BY <1>1, SameNodeMoves DEF Fixed, SameMoves
<1>4. \A x \in Reg : h.degree[x] \in Int BY ShapeFacts DEF Reg
<1>5. \A x \in Reg : Room(class, x) \in Nat BY RoomType DEF Reg
<1>6. h.spill \subseteq Reg /\ h.freeze \subseteq Reg BY ShapeFacts DEF Reg
<1>7. CASE h.degree[v] # Room(class, v)
  <2>1. Apart(class, r) BY <1>1, <1>2, <1>7 DEF Apart, SameLists
  <2>2. Related(r, E) BY <1>1, <1>2, <1>3, <1>7 DEF Related, SameLists
  <2>3. r.freeze = h.freeze /\ r.spill = h.spill BY <1>1, <1>7 DEF SameLists
  <2>4. \A x \in r.freeze \ E : r.degree[x] < Room(class, x)
    <3> SUFFICES ASSUME NEW x \in r.freeze \ E PROVE r.degree[x] < Room(class, x) OBVIOUS
    <3>1. h.degree[x] < Room(class, x) /\ x \in Reg
      <4>1. x \in h.freeze /\ x \in Reg BY <2>3, <1>6
      <4>2. CASE x = v BY <4>1, <4>2, <1>4, <1>5, <1>7
      <4>3. CASE x # v BY <4>1, <4>3 DEF Levels
      <4> QED BY <4>1, <4>2, <4>3
    <3>2. r.degree[x] =< h.degree[x] BY <3>1, <1>1, <1>4
    <3> QED BY <3>1, <3>2, <1>1, <1>4, <1>5
  <2>5. \A x \in r.spill : r.degree[x] >= Room(class, x)
    <3> SUFFICES ASSUME NEW x \in r.spill PROVE r.degree[x] >= Room(class, x) OBVIOUS
    <3>1. h.degree[x] >= Room(class, x) /\ x \in Reg BY <2>3, <1>6 DEF Levels
    <3> QED BY <3>1, <1>1, <1>4, <1>5, <1>7
  <2> QED BY <2>1, <2>2, <2>4, <2>5 DEF Listed, Levels
<1>8. CASE h.degree[v] = Room(class, v)
  <2>1. Lowered(h, r, v) BY <1>1, <1>8
  <2>2. v \in h.freeze \ Hard => MoveRelated(h, v) BY DEF Related
  <2>3. v \in h.simplify => ~ MoveRelated(h, v) BY DEF Related
  <2>4. Apart(class, r) BY <2>1, <2>2, <2>3, <1>2 DEF Apart, Lowered, Gone, Reg
  <2>5. Related(r, E) BY <2>1, <1>2, <1>3 DEF Related, Lowered, Gone
  <2>6. \A x \in r.freeze \ E : r.degree[x] < Room(class, x)
    <3> SUFFICES ASSUME NEW x \in r.freeze \ E PROVE r.degree[x] < Room(class, x) OBVIOUS
    <3>1. x = v \/ (x \in h.freeze \ E /\ x # v) BY <2>1 DEF Lowered
    <3>2. CASE x = v BY <3>2, <1>1, <1>4, <1>5, <1>8
    <3>3. CASE x \in h.freeze \ E /\ x # v
      <4>1. h.degree[x] < Room(class, x) /\ x \in Reg BY <3>3, <1>6 DEF Levels
      <4> QED BY <4>1, <3>3, <1>1
    <3> QED BY <3>1, <3>2, <3>3
  <2>7. \A x \in r.spill : r.degree[x] >= Room(class, x)
    <3> SUFFICES ASSUME NEW x \in r.spill PROVE r.degree[x] >= Room(class, x) OBVIOUS
    <3>1. x \in h.spill /\ x # v BY <2>1 DEF Lowered
    <3>2. h.degree[x] >= Room(class, x) /\ x \in Reg BY <3>1, <1>6 DEF Levels
    <3> QED BY <3>1, <3>2, <1>1
  <2> QED BY <2>4, <2>5, <2>6, <2>7 DEF Listed, Levels
<1> QED BY <1>7, <1>8

-----------------------------------------------------------------------------
\* Arcs, and the count of neighbours that are left.

\* Arcs lead both ways, and between two nodes.
Symmetric(k, h) == \A v, w \in DOMAIN k : w \in h.adj[v] => v # w /\ v \in h.adj[w]
\* The nodes of V from n on have lost an arc their degree still counts.
Owing(k, h, V, n) == \A x \in DOMAIN k \ Gone(h) :
  h.degree[x] = Cardinality(Adjacent(h, x)) + (IF x \in V /\ x >= n THEN 1 ELSE 0)

\* The neighbours that are left are finitely many nodes.
LEMMA AdjacentType ==
  ASSUME NEW k, NEW c, NEW h, NEW x \in DOMAIN k, Numbered(k), Shape(k, c, h)
  PROVE  /\ Adjacent(h, x) \subseteq DOMAIN k /\ IsFiniteSet(Adjacent(h, x))
         /\ Cardinality(Adjacent(h, x)) \in Nat
<1>1. Adjacent(h, x) \subseteq DOMAIN k BY ShapeFacts DEF Adjacent
<1>2. IsFiniteSet(Adjacent(h, x)) BY <1>1, NodesFinite, FS_Subset
<1> QED BY <1>1, <1>2, FS_CardinalityType

\* Lowering the degree of v pays what v owes for a neighbour that has left.
LEMMA DecrementPays ==
  ASSUME NEW h, NEW V, NEW v \in Reg, NEW r, Numbered(class), Shape(class, code, h),
         Owing(class, h, V, v), v \in V, r = DecrementDegree(h, v)
  PROVE  Owing(class, r, V, v + 1)
<1>1. /\ Fixed(h, r) /\ r.adj = h.adj
      /\ \A x \in Reg : r.degree[x] = IF x = v THEN h.degree[x] - 1 ELSE h.degree[x]
  BY DecrementEffect
<1>2. Gone(r) = Gone(h) BY <1>1 DEF Gone, Fixed
<1> SUFFICES ASSUME NEW x \in Reg \ Gone(h)
             PROVE  r.degree[x] = Cardinality(Adjacent(r, x)) + (IF x \in V /\ x >= v + 1 THEN 1 ELSE 0)
  BY <1>2 DEF Owing, Reg
<1> PICK n : n = Cardinality(Adjacent(h, x)) OBVIOUS
<1>3. Cardinality(Adjacent(r, x)) = n BY <1>1 DEF Adjacent, Fixed
<1>4. h.degree[x] = n + (IF x \in V /\ x >= v THEN 1 ELSE 0) BY DEF Owing, Reg
<1>5. x \in Nat /\ v \in Nat /\ n \in Nat
  <2>1. x \in DOMAIN class BY DEF Reg
  <2> QED BY <2>1, AdjacentType, NodesFinite DEF Reg
<1>6. r.degree[x] = IF x = v THEN h.degree[x] - 1 ELSE h.degree[x] BY <1>1
<1> QED BY ONLY <1>3, <1>4, <1>5, <1>6, v \in V

\* InsertArc keeps the arcs symmetric.
LEMMA ArcSymmetric ==
  ASSUME NEW k, NEW c, NEW h, NEW v \in DOMAIN k, NEW w \in DOMAIN k, NEW r,
         Shape(k, c, h), Symmetric(k, h), r = InsertArc(h, v, w)
  PROVE  Symmetric(k, r)
<1>1. CASE v \in h.adj[w] \/ v = w BY <1>1, ArcOld
<1>2. CASE v \notin h.adj[w] /\ v # w
  <2>1. \A x \in DOMAIN k : r.adj[x] = h.adj[x] \cup (IF x = v THEN {w} ELSE {})
                                             \cup (IF x = w THEN {v} ELSE {})
    BY <1>2, ArcNew
  <2> SUFFICES ASSUME NEW x \in DOMAIN k, NEW y \in DOMAIN k, y \in r.adj[x]
               PROVE  x # y /\ x \in r.adj[y]
    BY DEF Symmetric
  <2>2. CASE y \in h.adj[x] BY <2>1, <2>2 DEF Symmetric
  <2>3. CASE y \notin h.adj[x]
    <3>1. (x = v /\ y = w) \/ (x = w /\ y = v) BY <2>1, <2>3
    <3> QED BY <3>1, <2>1, <1>2
  <2> QED BY <2>2, <2>3
<1> QED BY <1>1, <1>2

\* InsertArc between two nodes that are left keeps the count of neighbours.
LEMMA ArcCounts ==
  ASSUME NEW k, NEW c, NEW h, NEW V, NEW n, NEW v \in DOMAIN k, NEW w \in DOMAIN k, NEW r,
         Numbered(k), Shape(k, c, h), Symmetric(k, h), Owing(k, h, V, n),
         v \notin Gone(h), w \notin Gone(h), r = InsertArc(h, v, w)
  PROVE  Owing(k, r, V, n)
<1>1. CASE v \in h.adj[w] \/ v = w BY <1>1, ArcOld
<1>2. CASE v \notin h.adj[w] /\ v # w
  <2>1. /\ Fixed(h, r)
        /\ \A x \in DOMAIN k : r.adj[x] = h.adj[x] \cup (IF x = v THEN {w} ELSE {})
                                             \cup (IF x = w THEN {v} ELSE {})
        /\ \A x \in DOMAIN k : r.degree[x] = IF x = v \/ x = w THEN h.degree[x] + 1 ELSE h.degree[x]
    BY <1>2, ArcNew
  <2>2. Gone(r) = Gone(h) /\ r.select \cup r.coalesced = Gone(h) BY <2>1 DEF Gone, Fixed
  <2>3. w \notin h.adj[v] BY <1>2 DEF Symmetric
  <2> SUFFICES ASSUME NEW x \in DOMAIN k \ Gone(h)
               PROVE  r.degree[x] = Cardinality(Adjacent(r, x)) + (IF x \in V /\ x >= n THEN 1 ELSE 0)
    BY <2>2 DEF Owing
  <2> PICK A : A = Adjacent(h, x) OBVIOUS
  <2> PICK o : o = IF x \in V /\ x >= n THEN 1 ELSE 0 OBVIOUS
  <2>4. IsFiniteSet(A) /\ Cardinality(A) \in Nat BY AdjacentType
  <2>5. o \in Nat OBVIOUS
  <2>6. h.degree[x] = Cardinality(A) + o BY DEF Owing
  <2>7. CASE x # v /\ x # w
    <3>1. Adjacent(r, x) = A BY <2>1, <2>2, <2>7 DEF Adjacent, Gone
    <3>2. r.degree[x] = h.degree[x] BY <2>1, <2>7
    <3> QED BY <3>1, <3>2, <2>6
  <2>8. CASE x = v
    <3>1. Adjacent(r, x) = A \cup {w} BY <2>1, <2>2, <2>8, <1>2 DEF Adjacent, Gone
    <3>2. w \notin A BY <2>3, <2>8 DEF Adjacent
    <3>3. Cardinality(A \cup {w}) = Cardinality(A) + 1 BY <3>2, <2>4, FS_AddElement
    <3>4. r.degree[x] = h.degree[x] + 1 BY <2>1, <2>8
    <3> QED BY <3>1, <3>3, <3>4, <2>4, <2>5, <2>6
  <2>9. CASE x = w
    <3>1. Adjacent(r, x) = A \cup {v} BY <2>1, <2>2, <2>9, <1>2 DEF Adjacent, Gone
    <3>2. v \notin A BY <1>2, <2>9 DEF Adjacent
    <3>3. Cardinality(A \cup {v}) = Cardinality(A) + 1 BY <3>2, <2>4, FS_AddElement
    <3>4. r.degree[x] = h.degree[x] + 1 BY <2>1, <2>9
    <3> QED BY <3>1, <3>3, <3>4, <2>4, <2>5, <2>6
  <2> QED BY <2>7, <2>8, <2>9
<1> QED BY <1>1, <1>2

\* The step of combine: t is joined to v and its degree lowered.
LEMMA TakeKeepsLists ==
  ASSUME NEW h, NEW t \in Reg, NEW v \in Reg, NEW f, NEW r, Numbered(class),
         Shape(class, code, h), Listed(class, h, {v}), t \notin Gone(h), t # v,
         f = InsertArc(h, t, v), r = DecrementDegree(f, t)
  PROVE  Listed(class, r, {v})
<1> USE DEF Reg
<1>0. \A x \in Reg : h.degree[x] \in Int BY ShapeFacts
<1>1. \A x \in Reg : Room(class, x) \in Nat BY RoomType
<1>2. h.spill \subseteq Reg /\ h.freeze \subseteq Reg BY ShapeFacts
<1>3. Apart(class, h) /\ Related(h, {v}) /\ Levels(class, h, {v}) BY DEF Listed
<1>4. CASE t \in h.adj[v]
  <2>1. f = h BY <1>4, ArcOld
  <2>2. Levels(class, h, {v} \cup {t}) BY <1>3 DEF Levels
  <2>3. t \in h.freeze => h.degree[t] =< Room(class, t) BY <1>3, <1>0, <1>1 DEF Levels
  <2> QED BY <2>1, <2>2, <2>3, <1>3, DecrementKeepsLists
<1>5. CASE t \notin h.adj[v]
  <2>1. /\ Shape(class, code, f) /\ Fixed(h, f) /\ SameLists(h, f)
        /\ f.active = h.active /\ f.worklist = h.worklist
        /\ \A x \in Reg : f.degree[x] = IF x = t \/ x = v THEN h.degree[x] + 1 ELSE h.degree[x]
    BY <1>5, ArcNew
  <2>2. Apart(class, f) BY <2>1, <1>3 DEF Apart, Gone, Fixed, SameLists
  <2>3. \A x : MoveRelated(f, x) = MoveRelated(h, x) BY <2>1, SameNodeMoves DEF Fixed
  <2>4. Related(f, {v}) BY <2>1, <2>3, <1>3 DEF Related, Fixed, SameLists
  <2>5. f.freeze = h.freeze /\ f.spill = h.spill BY <2>1 DEF SameLists
  <2>6. Levels(class, f, {v} \cup {t})
    <3>1. \A x \in f.freeze \ ({v} \cup {t}) : f.degree[x] < Room(class, x)
      BY <2>1, <2>5, <1>2, <1>3 DEF Levels
    <3>2. \A x \in f.spill : f.degree[x] >= Room(class, x)
      <4> SUFFICES ASSUME NEW x \in f.spill PROVE f.degree[x] >= Room(class, x) OBVIOUS
      <4>1. h.degree[x] >= Room(class, x) /\ x \in Reg BY <2>5, <1>2, <1>3 DEF Levels
      <4>2. f.degree[x] = h.degree[x] \/ f.degree[x] = h.degree[x] + 1 BY <4>1, <2>1
      <4> QED BY <4>1, <4>2, <1>0, <1>1
    <3> QED BY <3>1, <3>2 DEF Levels
  <2>7. t \in f.freeze => f.degree[t] =< Room(class, t)
    <3> SUFFICES ASSUME t \in f.freeze PROVE f.degree[t] =< Room(class, t) OBVIOUS
    <3>1. h.degree[t] < Room(class, t) BY <2>5, <1>3 DEF Levels
    <3>2. f.degree[t] = h.degree[t] + 1 BY <2>1
    <3> QED BY <3>1, <3>2, <1>0, <1>1
  <2>8. t \notin Gone(f) BY <2>1 DEF Gone, Fixed
  <2> QED BY <2>1, <2>2, <2>4, <2>6, <2>7, <2>8, DecrementKeepsLists
<1> QED BY <1>4, <1>5

-----------------------------------------------------------------------------
\* Loops over bitmaps, as sequences of graphs.

\* A set of natural numbers has a smallest one, the one that Min names.
LEMMA Smallest ==
  ASSUME NEW T, T \subseteq Nat, T # {}
  PROVE  \E n \in T : n \in Nat /\ \A m \in T : n =< m
<1>1. PICK n \in T : \A m \in T : ~ (<<m, n>> \in OpToRel(<, Nat))
  BY WFMin, NatLessThanWellFounded, Zenon
<1>2. \A m \in T : m \in Nat /\ n \in Nat /\ ~ (m < n)
  BY <1>1 DEF OpToRel
<1> QED
  BY <1>2

\* Induction on a set of numbers.
LEMMA Induction ==
  ASSUME NEW T, 0 \in T, \A n \in Nat : n \in T => n + 1 \in T
  PROVE  \A n \in Nat : n \in T
<1> DEFINE S == Nat \ T
<1> SUFFICES ASSUME S # {} PROVE FALSE OBVIOUS
<1>1. PICK n \in S : n \in Nat /\ \A m \in S : n =< m
  <2>1. S \subseteq Nat OBVIOUS
  <2> HIDE DEF S
  <2> QED BY <2>1, Smallest
<1>2. n # 0 /\ n - 1 \in Nat /\ (n - 1) + 1 = n BY <1>1
<1>3. n - 1 \notin S BY <1>1, <1>2
<1> QED BY <1>1, <1>2, <1>3

\* Values computed one after the other.
Computes(q, N, D, a, F) ==
  q \in [0..N -> D] /\ q[0] = a /\ \A n \in 1..N : q[n] = F[<<n, q[n - 1]>>]

\* A function that goes on from each value to the next exists up to every number.
LEMMA Recursion ==
  ASSUME NEW D, NEW a \in D, NEW N \in Nat, NEW F \in [(1..N) \X D -> D]
  PROVE  \E q : Computes(q, N, D, a, F)
<1> DEFINE T == {n \in Nat : n =< N /\ ~ (\E q : Computes(q, n, D, a, F))}
<1>1. T = {}
  <2> SUFFICES ASSUME T # {} PROVE FALSE
    OBVIOUS
  <2>1. PICK n \in T : n \in Nat /\ \A m \in T : n =< m
    <3>1. T \subseteq Nat
      OBVIOUS
    <3> HIDE DEF T
    <3> QED
      BY <3>1, Smallest
  <2>2. CASE n = 0
    <3> DEFINE f == [j \in 0..0 |-> a]
    <3>1. Computes(f, 0, D, a, F)
      BY DEF Computes
    <3> QED
      BY <2>1, <2>2, <3>1
  <2>3. CASE n # 0
    <3>1. PICK o \in Nat : n = o + 1 /\ o =< N /\ ~ (n =< o) /\ n \in 1..N
      <4>1. n - 1 \in Nat /\ n = n - 1 + 1 /\ n - 1 =< N /\ ~ (n =< n - 1) /\ n \in 1..N
        BY <2>1, <2>3
      <4> QED
        BY <4>1
    <3>2. PICK q : Computes(q, o, D, a, F)
      <4>1. o \notin T
        <5> HIDE DEF T
        <5> QED
          BY <2>1, <3>1
      <4> QED
        BY <3>1, <4>1
    <3>3. /\ q \in [0..o -> D] /\ q[0] = a /\ q[o] \in D
          /\ \A j \in 1..o : q[j] = F[<<j, q[j - 1]>>]
      BY <3>1, <3>2 DEF Computes
    <3>c. PICK c \in D : c = F[<<n, q[o]>>]
      BY <3>1, <3>3
    <3> DEFINE f == [j \in 0..n |-> IF j = n THEN c ELSE q[j]]
    <3>4. f \in [0..n -> D] /\ f[0] = a
      BY <3>1, <3>3, <3>c
    <3>5. ASSUME NEW j \in 1..n PROVE f[j] = F[<<j, f[j - 1]>>]
      <4>1. CASE j = n
        <5>1. j - 1 = o /\ f[j] = c /\ f[o] = q[o]
          BY <3>1, <4>1
        <5> QED
          BY <3>c, <4>1, <5>1
      <4>2. CASE j # n
        <5>1. j \in 1..o /\ f[j] = q[j] /\ f[j - 1] = q[j - 1]
          BY <3>1, <4>2
        <5> QED
          BY <3>3, <5>1
      <4> QED
        BY <4>1, <4>2
    <3>6. Computes(f, n, D, a, F)
      <4> HIDE DEF f
      <4> QED
        BY <3>4, <3>5 DEF Computes
    <3> QED
      BY <2>1, <3>6
  <2> QED
    BY <2>2, <2>3
<1>2. N =< N /\ N \notin T
  BY <1>1
<1> QED
  BY <1>2

\* The bound of a loop over the members of a bitmap lies above all of them.
LEMMA Bound ==
  ASSUME NEW V, NEW B \in Nat, V \subseteq 0..B
  PROVE  \E N \in Nat : N = Max(V \cup {0}) + 1 /\ V \subseteq 0..(N - 1) /\ N =< B + 1
<1> DEFINE W == V \cup {0}
           T == {j \in Nat : j =< B /\ B - j \in W}
<1>1. W \subseteq 0..B OBVIOUS
<1>2. PICK j \in T : j \in Nat /\ \A i \in T : j =< i
  <2>1. B \in T OBVIOUS
  <2>2. T \subseteq Nat OBVIOUS
  <2> HIDE DEF T
  <2> QED BY <2>1, <2>2, Smallest
<1>3. PICK m \in W : m = B - j BY <1>2
<1>4. \A y \in W : m >= y
  <2> TAKE y \in W
  <2>1. B - y \in T BY <1>1
  <2> QED BY <2>1, <1>1, <1>2, <1>3
<1>5. Max(W) \in W /\ \A y \in W : Max(W) >= y
  <2> HIDE DEF W
  <2> QED BY <1>4 DEF Max
<1>6. PICK x : x = Max(W) OBVIOUS
<1>7. x \in 0..B /\ \A y \in W : y \in 0..B /\ x >= y
  <2> HIDE DEF W
  <2> QED BY <1>1, <1>5, <1>6
<1>8. x + 1 \in Nat /\ V \subseteq 0..((x + 1) - 1) /\ x + 1 =< B + 1
  <2>1. \A y \in V : y \in 0..B /\ x >= y BY <1>7
  <2> HIDE DEF W, T
  <2>2. x \in Nat /\ x =< B /\ x + 1 - 1 = x BY <1>7
  <2>3. V \subseteq 0..x BY <2>1, <2>2
  <2> QED BY <2>2, <2>3
<1> QED BY <1>6, <1>8

\* The loop over the nodes whose degree is lowered.
LEMMA DecrementLoop ==
  ASSUME NEW h, NEW v, NEW V, Numbered(class), Shape(class, code, h), V \subseteq Reg,
         V = Adjacent(h, v)
  PROVE  \E N \in Nat : \E u :
           /\ u[0] = h /\ u[N] = LowerNeighbours(h, v) /\ V \subseteq 0..(N - 1)
           /\ \A n \in 0..N : Shape(class, code, u[n])
           /\ \A n \in 0..(N - 1) :
                u[n + 1] = IF n \in V THEN DecrementDegree(u[n], n) ELSE u[n]
<1>1. PICK B \in Nat : V \subseteq 0..B
  <2> PICK n \in Nat : class \in [0..(n - 1) -> DOMAIN Available] BY DEF Numbered
  <2>1. V \subseteq 0..n BY DEF Reg
  <2> QED BY <2>1
<1>2. PICK N \in Nat : N = Max(V \cup {0}) + 1 /\ V \subseteq 0..(N - 1) BY <1>1, Bound
<1> DEFINE D == Records(class, code)
           F == [p \in (1..N) \X D |-> IF p[1] - 1 \notin V THEN p[2] ELSE DecrementDegree(p[2], p[1] - 1)]
<1>3. F \in [(1..N) \X D -> D]
  <2>1. ASSUME NEW p \in (1..N) \X D, p[1] - 1 \in V PROVE DecrementDegree(p[2], p[1] - 1) \in D
    <3>1. p[2] \in D /\ p[1] - 1 \in Reg BY <2>1
    <3> QED BY <3>1, DecrementEffect DEF Shape
  <2> QED BY <2>1
<1>4. h \in D BY DEF Shape
<1>5. PICK u : Computes(u, N, D, h, F)
  <2> HIDE DEF D, F
  <2> QED BY <1>3, <1>4, Recursion
<1>6. u \in [0..N -> D] /\ u[0] = h /\ \A n \in 1..N : u[n] = F[<<n, u[n - 1]>>]
  <2> HIDE DEF D, F
  <2> QED BY <1>5 DEF Computes
<1>7. \A n \in 1..N : u[n] = IF n - 1 \notin V THEN u[n - 1] ELSE DecrementDegree(u[n - 1], n - 1)
  <2> TAKE n \in 1..N
  <2>1. <<n, u[n - 1]>> \in (1..N) \X D BY <1>6
  <2> QED BY <1>6, <2>1
<1> DEFINE e == [n \in 0..N |->
             IF n = 0 THEN h
             ELSE IF n - 1 \notin V THEN u[n - 1]
             ELSE CHOOSE r \in {DecrementDegree(f, n - 1) : f \in {u[n - 1]}} : TRUE]
<1>8. u = e
  <2>1. \A n \in 0..N : u[n] = e[n]
    <3> SUFFICES ASSUME NEW n \in 0..N PROVE u[n] = e[n] OBVIOUS
    <3>1. CASE n = 0 BY <3>1, <1>6
    <3>2. CASE n # 0
      <4>1. n \in 1..N BY <3>2
      <4>2. (CHOOSE r \in {DecrementDegree(f, n - 1) : f \in {u[n - 1]}} : TRUE)
              = DecrementDegree(u[n - 1], n - 1)
        OBVIOUS
      <4> QED BY <4>1, <4>2, <1>7, <3>2
    <3> QED BY <3>1, <3>2
  <2>2. u = [n \in 0..N |-> u[n]] BY <1>6
  <2> QED BY <2>1, <2>2
<1> DEFINE upTo == CHOOSE w : w = [n \in 0..N |->
             IF n = 0 THEN h
             ELSE IF n - 1 \notin V THEN w[n - 1]
             ELSE CHOOSE r \in {DecrementDegree(f, n - 1) : f \in {w[n - 1]}} : TRUE]
<1>9. upTo = [n \in 0..N |->
             IF n = 0 THEN h
             ELSE IF n - 1 \notin V THEN upTo[n - 1]
             ELSE CHOOSE r \in {DecrementDegree(f, n - 1) : f \in {upTo[n - 1]}} : TRUE]
  BY <1>8
<1>10. LowerNeighbours(h, v) = upTo[N] BY <1>2 DEF ForEach, LowerNeighbours
<1> DEFINE Q(n) == n =< N => upTo[n] = u[n]
           T == {n \in Nat : Q(n)}
<1>11. \A n \in Nat : n \in T
  <2>1. 0 \in T
    <3> HIDE DEF upTo
    <3>1. 0 \in 0..N OBVIOUS
    <3> QED BY <1>9, <1>6, <3>1
  <2>2. ASSUME NEW n \in Nat, n \in T PROVE n + 1 \in T
    <3> SUFFICES ASSUME n + 1 =< N PROVE upTo[n + 1] = u[n + 1] OBVIOUS
    <3>1. n + 1 \in 0..N /\ n + 1 \in 1..N /\ n + 1 # 0 /\ n + 1 - 1 = n OBVIOUS
    <3>2. upTo[n] = u[n] BY <2>2
    <3>3. u[n + 1] = IF n \notin V THEN u[n] ELSE DecrementDegree(u[n], n) BY <1>7, <3>1
    <3>4. upTo[n + 1] = IF n \notin V THEN upTo[n]
                        ELSE CHOOSE r \in {DecrementDegree(f, n) : f \in {upTo[n]}} : TRUE
      <4> HIDE DEF upTo
      <4> QED BY <1>9, <3>1
    <3>5. (CHOOSE r \in {DecrementDegree(f, n) : f \in {u[n]}} : TRUE) = DecrementDegree(u[n], n)
      OBVIOUS
    <3> HIDE DEF upTo
    <3> QED BY <3>2, <3>3, <3>4, <3>5
  <2> HIDE DEF T
  <2> QED BY <2>1, <2>2, Induction
<1>12. upTo[N] = u[N]
  <2>1. N \in T BY <1>11
  <2> QED BY <2>1
<1>13. \A n \in 0..N : Shape(class, code, u[n]) BY <1>6 DEF Shape
<1>14. \A n \in 0..(N - 1) : u[n + 1] = IF n \in V THEN DecrementDegree(u[n], n) ELSE u[n]
  <2> TAKE n \in 0..(N - 1)
  <2>1. n + 1 \in 1..N /\ n + 1 - 1 = n OBVIOUS
  <2> QED BY <1>7, <2>1
<1>15. u[N] = LowerNeighbours(h, v) BY <1>10, <1>12
<1> HIDE DEF upTo, T, Q, F, D
<1>16. u[0] = h /\ V \subseteq 0..(N - 1) BY ONLY <1>2, <1>6
<1> QED BY ONLY N \in Nat, <1>13, <1>14, <1>15, <1>16

-----------------------------------------------------------------------------
\* The loop of simplify.

\* What lowering degrees keeps.
Onward(h, f) ==
  Shape(class, code, f) /\ Fixed(h, f) /\ SameMoves(h, f) /\ f.active \subseteq h.active

\* What lowering degrees keeps it keeps over several steps.
LEMMA OnwardTrans ==
  ASSUME NEW h, NEW f, NEW r, Onward(h, f), Onward(f, r)
  PROVE  Onward(h, r)
BY DEF Onward, Fixed, SameMoves

\* A number that is not in the set owes nothing: the loop may go past it.
LEMMA OwingSkips ==
  ASSUME NEW k, NEW h, NEW V, NEW n \in Nat, n \notin V, Numbered(k), Owing(k, h, V, n)
  PROVE  Owing(k, h, V, n + 1)
<1> SUFFICES ASSUME NEW x \in DOMAIN k \ Gone(h)
             PROVE  (x \in V /\ x >= n + 1) <=> (x \in V /\ x >= n)
  BY DEF Owing
<1>1. x \in Nat BY NodesFinite
<1> QED BY <1>1

\* Beyond the last member of the set all is paid.
LEMMA OwingPaid ==
  ASSUME NEW k, NEW c, NEW h, NEW V, NEW n \in Nat, V \subseteq 0..(n - 1), Numbered(k),
         Shape(k, c, h), Owing(k, h, V, n)
  PROVE  Owing(k, h, {}, 0)
<1> SUFFICES ASSUME NEW x \in DOMAIN k \ Gone(h)
             PROVE  h.degree[x] = Cardinality(Adjacent(h, x)) + 0
  BY DEF Owing
<1>1. ~ (x \in V /\ x >= n)
  <2> SUFFICES ASSUME x \in V PROVE ~ (x >= n) OBVIOUS
  <2>1. x \in 0..(n - 1) OBVIOUS
  <2> QED BY <2>1
<1> QED BY <1>1 DEF Owing

\* The loop of simplify over the neighbours of the node it takes: every count is right
\* again behind it.
LEMMA DecrementAll ==
  ASSUME NEW h, NEW v, NEW V, NEW r, Numbered(class), Shape(class, code, h), V \subseteq Reg,
         V = Adjacent(h, v),
         V \cap Gone(h) = {}, Listed(class, h, {}), Owing(class, h, V, 0),
         r = LowerNeighbours(h, v)
  PROVE  Onward(h, r) /\ r.adj = h.adj /\ Listed(class, r, {}) /\ Owing(class, r, {}, 0)
<1>0. PICK N \in Nat : \E u :
           /\ u[0] = h /\ u[N] = LowerNeighbours(h, v) /\ V \subseteq 0..(N - 1)
           /\ \A n \in 0..N : Shape(class, code, u[n])
           /\ \A n \in 0..(N - 1) :
                u[n + 1] = IF n \in V THEN DecrementDegree(u[n], n) ELSE u[n]
  BY DecrementLoop
<1>1. PICK u :
           /\ u[0] = h /\ u[N] = r /\ V \subseteq 0..(N - 1)
           /\ \A n \in 0..N : Shape(class, code, u[n])
           /\ \A n \in 0..(N - 1) :
                u[n + 1] = IF n \in V THEN DecrementDegree(u[n], n) ELSE u[n]
  BY <1>0
<1> DEFINE Good(n) == Onward(h, u[n]) /\ u[n].adj = h.adj /\ Listed(class, u[n], {})
                      /\ Owing(class, u[n], V, n)
           T == {n \in Nat : n =< N => Good(n)}
<1>2. 0 \in T
  <2>1. Onward(h, h) BY DEF Onward, Fixed, SameMoves
  <2> QED BY <1>1, <2>1
<1>3. ASSUME NEW n \in Nat, n \in T PROVE n + 1 \in T
  <2> SUFFICES ASSUME n + 1 =< N PROVE Good(n + 1) OBVIOUS
  <2>1. Good(n) /\ n \in 0..(N - 1) BY <1>3
  <2> PICK f : f = u[n] OBVIOUS
  <2> PICK e : e = u[n + 1] OBVIOUS
  <2>2. Onward(h, f) /\ f.adj = h.adj /\ Listed(class, f, {}) /\ Owing(class, f, V, n) BY <2>1
  <2>3. e = IF n \in V THEN DecrementDegree(f, n) ELSE f BY <1>1, <2>1
  <2> SUFFICES Onward(h, e) /\ e.adj = h.adj /\ Listed(class, e, {}) /\ Owing(class, e, V, n + 1)
    OBVIOUS
  <2> HIDE DEF Good, T
  <2>4. CASE n \notin V BY <2>2, <2>3, <2>4, OwingSkips
  <2>5. CASE n \in V
    <3>1. e = DecrementDegree(f, n) /\ n \in Reg BY <2>3, <2>5
    <3>2. Shape(class, code, f) /\ n \notin Gone(f) BY <2>2, <2>5 DEF Onward, Gone, Fixed
    <3>3. Onward(f, e) /\ e.adj = f.adj BY <3>1, <3>2, DecrementEffect DEF Onward
    <3>4. Owing(class, e, V, n + 1) BY <3>1, <3>2, <2>2, <2>5, DecrementPays
    <3>5. Listed(class, e, {})
      <4>1. Apart(class, f) /\ Related(f, {}) BY <2>2 DEF Listed
      <4>2. Levels(class, f, {} \cup {n}) BY <2>2 DEF Listed, Levels
      <4>3. n \in f.freeze => f.degree[n] =< Room(class, n)
        <5>1. f.degree[n] \in Int /\ Room(class, n) \in Nat BY <3>1, <3>2, ShapeFacts, RoomType DEF Reg
        <5> QED BY <5>1, <2>2 DEF Listed, Levels
      <4>4. n \notin {} OBVIOUS
      <4> QED BY <3>1, <3>2, <4>1, <4>2, <4>3, <4>4, DecrementKeepsLists
    <3> QED BY <2>2, <3>3, <3>4, <3>5, OnwardTrans
  <2> QED BY <2>4, <2>5
<1>4. N \in T
  <2> HIDE DEF T
  <2> QED BY <1>2, <1>3, Induction
<1>5. Good(N) BY <1>4
<1> HIDE DEF T
<1>6. Onward(h, r) /\ r.adj = h.adj /\ Listed(class, r, {}) /\ Owing(class, r, V, N) BY <1>1, <1>5
<1> QED BY <1>1, <1>6, OwingPaid DEF Onward

\* The stack is the list select in order.
Stacked(h) ==
  /\ ToSet(h.stack) = h.select
  /\ \A i, j \in DOMAIN h.stack : h.stack[i] = h.stack[j] => i = j

\* simplify puts v on the stack.
Pushed(h, v) ==
  [h EXCEPT !.simplify = @ \ {v}, !.select = @ \cup {v}, !.stack = <<v>> \o @]

\* simplify puts the node on the stack; from then on each neighbour's degree counts one
\* arc too many.
LEMMA SimplifyMarks ==
  ASSUME NEW h, NEW v \in h.simplify, NEW r, Numbered(class), Shape(class, code, h),
         Symmetric(class, h), Stacked(h), Listed(class, h, {}), Owing(class, h, {}, 0),
         r = Pushed(h, v)
  PROVE  /\ Shape(class, code, r) /\ SameArcs(h, r) /\ r.active = h.active /\ r.worklist = h.worklist
         /\ r.moves = h.moves /\ r.alias = h.alias /\ r.hardNum = h.hardNum
         /\ r.coalesced = h.coalesced /\ r.spilled = h.spilled /\ r.temps = h.temps
         /\ r.select = h.select \cup {v} /\ r.stack = <<v>> \o h.stack
         /\ Stacked(r) /\ Listed(class, r, {}) /\ Owing(class, r, Adjacent(r, v), 0)
<1> USE DEF Reg
<1>1. v \in Reg /\ h.stack \in Seq(Reg) BY DEF Shape, Records
<1>2. /\ SameArcs(h, r) /\ r.active = h.active /\ r.worklist = h.worklist
      /\ r.moves = h.moves /\ r.alias = h.alias /\ r.hardNum = h.hardNum
      /\ r.coalesced = h.coalesced /\ r.spilled = h.spilled /\ r.temps = h.temps
      /\ r.select = h.select \cup {v} /\ r.stack = <<v>> \o h.stack
      /\ r.simplify = h.simplify \ {v} /\ r.freeze = h.freeze /\ r.spill = h.spill
  BY DEF Shape, Records, SameArcs, Pushed
<1>3. Shape(class, code, r)
  <2> PICK S : S = h.simplify \ {v} OBVIOUS
  <2> PICK E : E = h.select \cup {v} OBVIOUS
  <2> PICK s : s = <<v>> \o h.stack OBVIOUS
  <2>1. S \subseteq Reg /\ E \subseteq Reg /\ s \in Seq(Reg)
    <3>1. h.simplify \subseteq Reg /\ h.select \subseteq Reg BY ShapeFacts
    <3>2. <<v>> \in Seq(Reg) BY <1>1
    <3> QED BY <1>1, <3>1, <3>2
  <2>2. r = [h EXCEPT !.simplify = S, !.select = E, !.stack = s] BY DEF Pushed
  <2> QED BY ONLY <2>1, <2>2, Shape(class, code, h) DEF Shape, Records
<1>4. Apart(class, h) /\ Levels(class, h, {}) /\ Related(h, {}) BY DEF Listed
<1>5. v \notin Gone(h) BY <1>4 DEF Apart
<1>6. Gone(r) = Gone(h) \cup {v} BY <1>2 DEF Gone
<1>7. Stacked(r)
  <2>1. Len(r.stack) = Len(h.stack) + 1 /\ r.stack[1] = v
        /\ \A i \in DOMAIN h.stack : r.stack[i + 1] = h.stack[i]
    BY <1>1, <1>2
  <2>2. DOMAIN h.stack = 1..Len(h.stack) /\ DOMAIN r.stack = 1..Len(r.stack) /\ Len(h.stack) \in Nat
    BY <1>1, <1>2
  <2>3. \A i \in DOMAIN r.stack : i = 1 \/ (i - 1 \in DOMAIN h.stack /\ r.stack[i] = h.stack[i - 1])
    <3> TAKE i \in DOMAIN r.stack
    <3> SUFFICES ASSUME i # 1 PROVE i - 1 \in DOMAIN h.stack /\ r.stack[i] = h.stack[i - 1] OBVIOUS
    <3>1. i - 1 \in DOMAIN h.stack /\ (i - 1) + 1 = i BY <2>1, <2>2
    <3> QED BY <3>1, <2>1
  <2>4. ToSet(r.stack) = r.select
    <3>1. ToSet(h.stack) = h.select BY DEF Stacked
    <3>2. ASSUME NEW x \in r.select PROVE \E i \in DOMAIN r.stack : r.stack[i] = x
      <4>1. CASE x = v BY <4>1, <2>1, <2>2
      <4>2. CASE x \in h.select
        <5>1. PICK i \in DOMAIN h.stack : h.stack[i] = x BY <3>1, <4>2 DEF ToSet
        <5>2. i + 1 \in DOMAIN r.stack BY <2>1, <2>2
        <5> QED BY <5>1, <5>2, <2>1
      <4> QED BY <4>1, <4>2, <1>2
    <3>3. ASSUME NEW i \in DOMAIN r.stack PROVE r.stack[i] \in r.select
      <4>1. CASE i = 1 BY <4>1, <2>1, <1>2
      <4>2. CASE i # 1 BY <4>2, <2>3, <3>1, <1>2 DEF ToSet
      <4> QED BY <4>1, <4>2
    <3> QED BY <3>2, <3>3 DEF ToSet
  <2>5. v \notin h.select BY <1>5 DEF Gone
  <2>6. ASSUME NEW i \in DOMAIN r.stack, NEW j \in DOMAIN r.stack, r.stack[i] = r.stack[j] PROVE i = j
    <3>1. \A l \in DOMAIN h.stack : h.stack[l] # v BY <2>5 DEF Stacked, ToSet
    <3>2. CASE i = 1 BY <3>2, <2>1, <2>3, <2>6, <3>1
    <3>3. CASE j = 1 BY <3>3, <2>1, <2>3, <2>6, <3>1
    <3>4. CASE i # 1 /\ j # 1
      <4>1. i - 1 \in DOMAIN h.stack /\ j - 1 \in DOMAIN h.stack /\ h.stack[i - 1] = h.stack[j - 1]
        BY <3>4, <2>3, <2>6
      <4>2. i - 1 = j - 1 BY <4>1 DEF Stacked
      <4> QED BY <4>2, <2>2
    <3> QED BY <3>2, <3>3, <3>4
  <2> QED BY <2>4, <2>6 DEF Stacked
<1>8. Apart(class, r) BY <1>1, <1>2, <1>4, <1>6 DEF Apart, Gone
<1>9. Levels(class, r, {}) BY <1>2, <1>4 DEF Levels, SameArcs
<1>10. \A x : MoveRelated(r, x) = MoveRelated(h, x)
  <2>1. r.moves = h.moves /\ r.active \cup r.worklist = h.active \cup h.worklist BY <1>2
  <2> QED BY <2>1, SameNodeMoves
<1>11. Related(r, {}) BY <1>2, <1>4, <1>10 DEF Related
<1>12. Owing(class, r, Adjacent(r, v), 0)
  <2> SUFFICES ASSUME NEW x \in Reg \ Gone(r)
               PROVE  r.degree[x] = Cardinality(Adjacent(r, x))
                                      + (IF x \in Adjacent(r, v) /\ x >= 0 THEN 1 ELSE 0)
    BY DEF Owing
  <2> PICK A : A = Adjacent(r, x) OBVIOUS
  <2>1. x \in Nat /\ IsFiniteSet(A) /\ Cardinality(A) \in Nat BY NodesFinite, <1>3, AdjacentType
  <2>2. r.degree[x] = Cardinality(Adjacent(h, x)) + 0 BY <1>2, <1>6 DEF Owing, SameArcs
  <2>3. x \in Adjacent(r, v) <=> v \in h.adj[x]
    <3>1. x \in Adjacent(r, v) <=> x \in h.adj[v] BY <1>2 DEF Adjacent, Gone, SameArcs
    <3>2. x \in h.adj[v] <=> v \in h.adj[x] BY <1>1 DEF Symmetric
    <3> QED BY <3>1, <3>2
  <2>4. CASE v \in h.adj[x]
    <3>0. A = h.adj[x] \ Gone(r) BY <1>2 DEF Adjacent, Gone, SameArcs
    <3>3. Adjacent(h, x) = h.adj[x] \ Gone(h) BY DEF Adjacent, Gone
    <3>1. Adjacent(h, x) = A \cup {v} /\ v \notin A BY <1>5, <1>6, <2>4, <3>0, <3>3
    <3>4. Cardinality(A \cup {v}) = Cardinality(A) + 1 BY <3>1, <2>1, FS_AddElement
    <3>2. Cardinality(Adjacent(h, x)) = Cardinality(A) + 1 BY <3>1, <3>4
    <3> QED BY <2>1, <2>2, <2>3, <2>4, <3>2
  <2>5. CASE v \notin h.adj[x]
    <3>1. Adjacent(h, x) = A BY <1>2, <1>5, <1>6, <2>5 DEF Adjacent, Gone, SameArcs
    <3> QED BY <2>1, <2>2, <2>3, <2>5, <3>1
  <2> QED BY <2>4, <2>5
<1> QED BY <1>2, <1>3, <1>7, <1>8, <1>9, <1>11, <1>12 DEF Listed

-----------------------------------------------------------------------------
\* The loop of combine.

\* A step of combine's loop keeps the graph typed.
LEMMA TakeShape ==
  ASSUME NEW h, NEW t \in Reg, NEW v \in Reg, Shape(class, code, h)
  PROVE  Shape(class, code, DecrementDegree(InsertArc(h, t, v), t))
<1> PICK f : f = InsertArc(h, t, v) OBVIOUS
<1>1. Shape(class, code, f)
  <2>1. CASE t \in h.adj[v] \/ t = v BY <2>1, ArcOld
  <2>2. CASE t \notin h.adj[v] /\ t # v BY <2>2, ArcNew DEF Reg
  <2> QED BY <2>1, <2>2
<1> QED BY <1>1, DecrementEffect

\* The loop that hands the arcs of w over to v.
LEMMA TakeLoop ==
  ASSUME NEW h, NEW v \in Reg, NEW w, NEW V, Numbered(class), Shape(class, code, h), V \subseteq Reg,
         V = Adjacent(h, w)
  PROVE  \E N \in Nat : \E u :
           /\ u[0] = h /\ u[N] = TakeArcs(h, v, w) /\ V \subseteq 0..(N - 1)
           /\ \A n \in 0..N : Shape(class, code, u[n])
           /\ \A n \in 0..(N - 1) :
                u[n + 1] = IF n \in V THEN DecrementDegree(InsertArc(u[n], n, v), n) ELSE u[n]
<1>1. PICK B \in Nat : V \subseteq 0..B
  <2> PICK n \in Nat : class \in [0..(n - 1) -> DOMAIN Available] BY DEF Numbered
  <2>1. V \subseteq 0..n BY DEF Reg
  <2> QED BY <2>1
<1>2. PICK N \in Nat : N = Max(V \cup {0}) + 1 /\ V \subseteq 0..(N - 1) BY <1>1, Bound
<1> DEFINE D == Records(class, code)
           F == [p \in (1..N) \X D |-> IF p[1] - 1 \notin V THEN p[2] ELSE DecrementDegree(InsertArc(p[2], p[1] - 1, v), p[1] - 1)]
<1>3. F \in [(1..N) \X D -> D]
  <2>1. ASSUME NEW p \in (1..N) \X D, p[1] - 1 \in V PROVE DecrementDegree(InsertArc(p[2], p[1] - 1, v), p[1] - 1) \in D
    <3>1. p[2] \in D /\ p[1] - 1 \in Reg BY <2>1
    <3> QED BY <3>1, TakeShape DEF Shape
  <2> QED BY <2>1
<1>4. h \in D BY DEF Shape
<1>5. PICK u : Computes(u, N, D, h, F)
  <2> HIDE DEF D, F
  <2> QED BY <1>3, <1>4, Recursion
<1>6. u \in [0..N -> D] /\ u[0] = h /\ \A n \in 1..N : u[n] = F[<<n, u[n - 1]>>]
  <2> HIDE DEF D, F
  <2> QED BY <1>5 DEF Computes
<1>7. \A n \in 1..N : u[n] = IF n - 1 \notin V THEN u[n - 1] ELSE DecrementDegree(InsertArc(u[n - 1], n - 1, v), n - 1)
  <2> TAKE n \in 1..N
  <2>1. <<n, u[n - 1]>> \in (1..N) \X D BY <1>6
  <2> QED BY <1>6, <2>1
<1> DEFINE e == [n \in 0..N |->
             IF n = 0 THEN h
             ELSE IF n - 1 \notin V THEN u[n - 1]
             ELSE CHOOSE r \in {DecrementDegree(InsertArc(f, n - 1, v), n - 1) : f \in {u[n - 1]}} : TRUE]
<1>8. u = e
  <2>1. \A n \in 0..N : u[n] = e[n]
    <3> SUFFICES ASSUME NEW n \in 0..N PROVE u[n] = e[n] OBVIOUS
    <3>1. CASE n = 0 BY <3>1, <1>6
    <3>2. CASE n # 0
      <4>1. n \in 1..N BY <3>2
      <4>2. (CHOOSE r \in {DecrementDegree(InsertArc(f, n - 1, v), n - 1) : f \in {u[n - 1]}} : TRUE)
              = DecrementDegree(InsertArc(u[n - 1], n - 1, v), n - 1)
        OBVIOUS
      <4> QED BY <4>1, <4>2, <1>7, <3>2
    <3> QED BY <3>1, <3>2
  <2>2. u = [n \in 0..N |-> u[n]] BY <1>6
  <2> QED BY <2>1, <2>2
<1> DEFINE upTo == CHOOSE z : z = [n \in 0..N |->
             IF n = 0 THEN h
             ELSE IF n - 1 \notin V THEN z[n - 1]
             ELSE CHOOSE r \in {DecrementDegree(InsertArc(f, n - 1, v), n - 1) : f \in {z[n - 1]}} : TRUE]
<1>9. upTo = [n \in 0..N |->
             IF n = 0 THEN h
             ELSE IF n - 1 \notin V THEN upTo[n - 1]
             ELSE CHOOSE r \in {DecrementDegree(InsertArc(f, n - 1, v), n - 1) : f \in {upTo[n - 1]}} : TRUE]
  BY <1>8
<1>10. TakeArcs(h, v, w) = upTo[N] BY <1>2 DEF ForEach, TakeArcs
<1> DEFINE Q(n) == n =< N => upTo[n] = u[n]
           T == {n \in Nat : Q(n)}
<1>11. \A n \in Nat : n \in T
  <2>1. 0 \in T
    <3> HIDE DEF upTo
    <3>1. 0 \in 0..N OBVIOUS
    <3> QED BY <1>9, <1>6, <3>1
  <2>2. ASSUME NEW n \in Nat, n \in T PROVE n + 1 \in T
    <3> SUFFICES ASSUME n + 1 =< N PROVE upTo[n + 1] = u[n + 1] OBVIOUS
    <3>1. n + 1 \in 0..N /\ n + 1 \in 1..N /\ n + 1 # 0 /\ n + 1 - 1 = n OBVIOUS
    <3>2. upTo[n] = u[n] BY <2>2
    <3>3. u[n + 1] = IF n \notin V THEN u[n] ELSE DecrementDegree(InsertArc(u[n], n, v), n) BY <1>7, <3>1
    <3>4. upTo[n + 1] = IF n \notin V THEN upTo[n]
                        ELSE CHOOSE r \in {DecrementDegree(InsertArc(f, n, v), n) : f \in {upTo[n]}} : TRUE
      <4> HIDE DEF upTo
      <4> QED BY <1>9, <3>1
    <3>5. (CHOOSE r \in {DecrementDegree(InsertArc(f, n, v), n) : f \in {u[n]}} : TRUE) = DecrementDegree(InsertArc(u[n], n, v), n)
      OBVIOUS
    <3> HIDE DEF upTo
    <3> QED BY <3>2, <3>3, <3>4, <3>5
  <2> HIDE DEF T
  <2> QED BY <2>1, <2>2, Induction
<1>12. upTo[N] = u[N]
  <2>1. N \in T BY <1>11
  <2> QED BY <2>1
<1>13. \A n \in 0..N : Shape(class, code, u[n]) BY <1>6 DEF Shape
<1>14. \A n \in 0..(N - 1) : u[n + 1] = IF n \in V THEN DecrementDegree(InsertArc(u[n], n, v), n) ELSE u[n]
  <2> TAKE n \in 0..(N - 1)
  <2>1. n + 1 \in 1..N /\ n + 1 - 1 = n OBVIOUS
  <2> QED BY <1>7, <2>1
<1>15. u[N] = TakeArcs(h, v, w) BY <1>10, <1>12
<1> HIDE DEF upTo, T, Q, F, D
<1>16. u[0] = h /\ V \subseteq 0..(N - 1) BY ONLY <1>2, <1>6
<1> QED BY ONLY N \in Nat, <1>13, <1>14, <1>15, <1>16

\* The arcs of w that v has taken over.
Taken(h, f, V, v, n) ==
  /\ \A x \in Reg : h.adj[x] \subseteq f.adj[x]
  /\ \A x \in Reg : \A y \in f.adj[x] :
       y \in h.adj[x] \/ (x = v /\ y \in V) \/ (y = v /\ x \in V)
  /\ \A t \in V : t < n => v \in f.adj[t]

\* The arc that combine inserts is the next of those to be taken over.
LEMMA TakenArc ==
  ASSUME NEW h, NEW f, NEW V, NEW v \in Reg, NEW n \in Nat, NEW e, Shape(class, code, f),
         n \in V, V \subseteq Reg, V \subseteq Nat, n # v, Symmetric(class, f), Taken(h, f, V, v, n),
         e = InsertArc(f, n, v)
  PROVE  Taken(h, e, V, v, n + 1)
<1> USE DEF Reg
<1>1. \A t \in V : t < n + 1 => t < n \/ t = n OBVIOUS
<1>2. CASE n \in f.adj[v]
  <2>1. e = f BY <1>2, ArcOld
  <2>2. v \in f.adj[n] BY <1>2 DEF Symmetric
  <2> QED BY <2>1, <2>2, <1>1 DEF Taken
<1>3. CASE n \notin f.adj[v]
  <2>1. \A x \in Reg : e.adj[x] = f.adj[x] \cup (IF x = n THEN {v} ELSE {})
                                         \cup (IF x = v THEN {n} ELSE {})
    BY <1>3, ArcNew
  <2>2. \A x \in Reg : h.adj[x] \subseteq e.adj[x] BY <2>1 DEF Taken
  <2>3. \A x \in Reg : \A y \in e.adj[x] :
          y \in h.adj[x] \/ (x = v /\ y \in V) \/ (y = v /\ x \in V)
    BY <2>1 DEF Taken
  <2>4. \A t \in V : t < n + 1 => v \in e.adj[t]
    <3> SUFFICES ASSUME NEW t \in V, t < n + 1 PROVE v \in e.adj[t] OBVIOUS
    <3>1. CASE t = n BY <3>1, <2>1
    <3>2. CASE t < n
      <4>1. v \in f.adj[t] BY <3>2 DEF Taken
      <4> QED BY <4>1, <2>1
    <3> QED BY <3>1, <3>2, <1>1
  <2> QED BY <2>2, <2>3, <2>4 DEF Taken
<1> QED BY <1>2, <1>3

\* Numbers that are no neighbours of w leave nothing to take over.
LEMMA TakenSkips ==
  ASSUME NEW h, NEW f, NEW V, NEW v, NEW n \in Nat, V \subseteq Nat, n \notin V, Taken(h, f, V, v, n)
  PROVE  Taken(h, f, V, v, n + 1)
<1>1. \A t \in V : t < n + 1 => t < n OBVIOUS
<1> QED BY <1>1 DEF Taken

\* One arc of w is handed over to v.
LEMMA TakeOne ==
  ASSUME NEW h, NEW f, NEW V, NEW v \in Reg, NEW n \in Nat, NEW r,
         Numbered(class), Shape(class, code, f), V \subseteq Reg, n \in V, v \notin V,
         v \notin Gone(f), n \notin Gone(f), Symmetric(class, f), Listed(class, f, {v}),
         Owing(class, f, V, n), Taken(h, f, V, v, n),
         r = DecrementDegree(InsertArc(f, n, v), n)
  PROVE  /\ Onward(f, r) /\ Symmetric(class, r) /\ Listed(class, r, {v})
         /\ Owing(class, r, V, n + 1) /\ Taken(h, r, V, v, n + 1)
<1> PICK e : e = InsertArc(f, n, v) OBVIOUS
<1>1. n \in Reg /\ n # v /\ V \subseteq Nat BY NodesFinite DEF Reg
<1>2. /\ Shape(class, code, e) /\ Fixed(f, e) /\ SameLists(f, e)
      /\ e.active = f.active /\ e.worklist = f.worklist
  <2>1. CASE n \in f.adj[v] BY <2>1, ArcOld DEF Fixed, SameLists
  <2>2. CASE n \notin f.adj[v] BY <2>2, <1>1, ArcNew DEF Reg
  <2> QED BY <2>1, <2>2
<1>3. Symmetric(class, e) BY <1>1, ArcSymmetric DEF Reg
<1>4. Owing(class, e, V, n) BY <1>1, ArcCounts DEF Reg
<1>5. r = DecrementDegree(e, n) OBVIOUS
<1>6. Onward(e, r) /\ r.adj = e.adj BY ONLY <1>1, <1>2, <1>5, DecrementEffect DEF Onward
<1>7. Onward(f, e) BY <1>2 DEF Onward, SameMoves
<1>8. Onward(f, r) BY <1>6, <1>7, OnwardTrans
<1>9. Symmetric(class, r) BY <1>3, <1>6 DEF Symmetric
<1>10. Owing(class, r, V, n + 1) BY <1>1, <1>2, <1>4, <1>5, DecrementPays
<1>11. Listed(class, r, {v}) BY <1>1, <1>5, TakeKeepsLists
<1>12. Taken(h, e, V, v, n + 1) BY <1>1, TakenArc
<1>13. Taken(h, r, V, v, n + 1) BY <1>6, <1>12 DEF Taken
<1> QED BY <1>8, <1>9, <1>10, <1>11, <1>13

\* The loop of combine: v has all the arcs of w to nodes that are left, the counts are
\* right again, and no other arc appears.
LEMMA TakeAll ==
  ASSUME NEW h, NEW v \in Reg, NEW w, NEW V, NEW r, Numbered(class), Shape(class, code, h),
         V \subseteq Reg, V = Adjacent(h, w), V \cap Gone(h) = {}, v \notin V, v \notin Gone(h),
         Symmetric(class, h), Listed(class, h, {v}), Owing(class, h, V, 0), r = TakeArcs(h, v, w)
  PROVE  /\ Onward(h, r) /\ Symmetric(class, r) /\ Listed(class, r, {v})
         /\ Owing(class, r, {}, 0)
         /\ \A x \in Reg : h.adj[x] \subseteq r.adj[x]
         /\ \A x \in Reg : \A y \in r.adj[x] :
              y \in h.adj[x] \/ (x = v /\ y \in V) \/ (y = v /\ x \in V)
         /\ \A t \in V : v \in r.adj[t]
<1>0. PICK N \in Nat : \E u :
           /\ u[0] = h /\ u[N] = TakeArcs(h, v, w) /\ V \subseteq 0..(N - 1)
           /\ \A n \in 0..N : Shape(class, code, u[n])
           /\ \A n \in 0..(N - 1) :
                u[n + 1] = IF n \in V THEN DecrementDegree(InsertArc(u[n], n, v), n) ELSE u[n]
  BY TakeLoop
<1>1. PICK u :
           /\ u[0] = h /\ u[N] = r /\ V \subseteq 0..(N - 1)
           /\ \A n \in 0..N : Shape(class, code, u[n])
           /\ \A n \in 0..(N - 1) :
                u[n + 1] = IF n \in V THEN DecrementDegree(InsertArc(u[n], n, v), n) ELSE u[n]
  BY <1>0
<1> DEFINE Good(n) == Onward(h, u[n]) /\ Symmetric(class, u[n]) /\ Listed(class, u[n], {v})
                      /\ Owing(class, u[n], V, n) /\ Taken(h, u[n], V, v, n)
           T == {n \in Nat : n =< N => Good(n)}
<1>9. V \subseteq Nat BY NodesFinite DEF Reg
<1>2. 0 \in T
  <2>1. Onward(h, h) BY DEF Onward, Fixed, SameMoves
  <2>2. \A t \in V : ~ (t < 0) BY <1>9
  <2>3. Taken(h, h, V, v, 0) BY <2>2 DEF Taken
  <2> QED BY <1>1, <2>1, <2>3
<1>3. ASSUME NEW n \in Nat, n \in T PROVE n + 1 \in T
  <2> SUFFICES ASSUME n + 1 =< N PROVE Good(n + 1) OBVIOUS
  <2>1. Good(n) /\ n \in 0..(N - 1) BY <1>3
  <2> PICK f : f = u[n] OBVIOUS
  <2> PICK e : e = u[n + 1] OBVIOUS
  <2>2. Onward(h, f) /\ Symmetric(class, f) /\ Listed(class, f, {v}) /\ Owing(class, f, V, n)
        /\ Taken(h, f, V, v, n)
    BY <2>1
  <2>3. e = IF n \in V THEN DecrementDegree(InsertArc(f, n, v), n) ELSE f BY <1>1, <2>1
  <2> SUFFICES Onward(h, e) /\ Symmetric(class, e) /\ Listed(class, e, {v})
               /\ Owing(class, e, V, n + 1) /\ Taken(h, e, V, v, n + 1)
    OBVIOUS
  <2> HIDE DEF Good, T
  <2>4. CASE n \notin V BY <2>2, <2>3, <2>4, <1>9, OwingSkips, TakenSkips
  <2>5. CASE n \in V
    <3>1. e = DecrementDegree(InsertArc(f, n, v), n) BY <2>3, <2>5
    <3>2. Shape(class, code, f) /\ n \notin Gone(f) /\ v \notin Gone(f)
      BY <2>2, <2>5 DEF Onward, Gone, Fixed
    <3>3. /\ Onward(f, e) /\ Symmetric(class, e) /\ Listed(class, e, {v})
          /\ Owing(class, e, V, n + 1) /\ Taken(h, e, V, v, n + 1)
      BY <2>2, <2>5, <3>1, <3>2, TakeOne
    <3> QED BY <2>2, <3>3, OnwardTrans
  <2> QED BY <2>4, <2>5
<1>4. N \in T
  <2> HIDE DEF T
  <2> QED BY <1>2, <1>3, Induction
<1>5. Good(N) BY <1>4
<1> HIDE DEF T
<1>6. Onward(h, r) /\ Symmetric(class, r) /\ Listed(class, r, {v}) /\ Owing(class, r, V, N)
      /\ Taken(h, r, V, v, N)
  BY <1>1, <1>5
<1>7. Owing(class, r, {}, 0) BY <1>1, <1>6, OwingPaid DEF Onward
<1>8. \A t \in V : t < N BY <1>1
<1> QED BY <1>6, <1>7, <1>8 DEF Taken

-----------------------------------------------------------------------------
\* alias.

\* Aliases lead downwards, so alias ends.
Ranked(k, h) == \E N \in Nat : \E r \in [DOMAIN k -> 0..N] : \A w \in h.coalesced : r[h.alias[w]] < r[w]

\* What holds of a node when it holds of the one it was joined to holds of all.
LEMMA RankInduction ==
  ASSUME NEW k, NEW c, NEW h, NEW S, Shape(k, c, h), Ranked(k, h),
         \A w \in DOMAIN k : (w \in h.coalesced => h.alias[w] \in S) => w \in S
  PROVE  DOMAIN k \subseteq S
<1>1. PICK N \in Nat : \E r \in [DOMAIN k -> 0..N] : \A w \in h.coalesced : r[h.alias[w]] < r[w]
  BY DEF Ranked
<1>2. PICK r \in [DOMAIN k -> 0..N] : \A w \in h.coalesced : r[h.alias[w]] < r[w] BY <1>1
<1> DEFINE T == {n \in Nat : \A w \in DOMAIN k : r[w] < n => w \in S}
<1>3. 0 \in T OBVIOUS
<1>4. ASSUME NEW n \in Nat, n \in T PROVE n + 1 \in T
  <2> SUFFICES ASSUME NEW w \in DOMAIN k, r[w] < n + 1 PROVE w \in S OBVIOUS
  <2>1. w \in h.coalesced => h.alias[w] \in S
    <3> SUFFICES ASSUME w \in h.coalesced PROVE h.alias[w] \in S OBVIOUS
    <3>1. h.alias[w] \in DOMAIN k BY ShapeFacts
    <3>2. r[h.alias[w]] < r[w] /\ r[w] \in 0..N /\ r[h.alias[w]] \in 0..N BY <1>2, <3>1
    <3>3. r[h.alias[w]] < n BY <3>2
    <3> QED BY <3>1, <3>3, <1>4
  <2> QED BY <2>1
<1>5. N + 1 \in T
  <2> HIDE DEF T
  <2> QED BY <1>3, <1>4, Induction
<1>6. \A w \in DOMAIN k : r[w] < N + 1 BY <1>2
<1> QED BY <1>5, <1>6

\* alias follows the field alias of a coalesced node (alias in ra-colorize.c is a loop
\* that ends because of the rank).
LEMMA AliasStep ==
  ASSUME NEW k, NEW c, NEW h, Shape(k, c, h), Ranked(k, h)
  PROVE  \A v \in DOMAIN k : Alias(h, v) = IF v \in h.coalesced THEN Alias(h, h.alias[v]) ELSE v
<1>1. PICK N \in Nat : \E r \in [DOMAIN k -> 0..N] : \A w \in h.coalesced : r[h.alias[w]] < r[w]
  BY DEF Ranked
<1>2. PICK r \in [DOMAIN k -> 0..N] : \A w \in h.coalesced : r[h.alias[w]] < r[w] BY <1>1
<1>3. h.alias \in [DOMAIN k -> DOMAIN k] /\ h.coalesced \subseteq DOMAIN k BY DEF Shape, Records
<1> PICK C : C = h.coalesced OBVIOUS
<1> PICK a : a = h.alias OBVIOUS
<1> PICK K : K = DOMAIN k OBVIOUS
<1> DEFINE D == [K -> K]
           G(f) == [w \in K |-> IF w \in C THEN f[a[w]] ELSE w]
           F == [p \in (1..(N + 1)) \X D |-> G(p[2])]
           id == [w \in K |-> w]
<1>4. a \in [K -> K] /\ C \subseteq K /\ r \in [K -> 0..N] /\ \A w \in C : r[a[w]] < r[w]
  BY <1>2, <1>3
<1>5. id \in D OBVIOUS
<1>6. F \in [(1..(N + 1)) \X D -> D]
  <2>1. ASSUME NEW f \in D PROVE G(f) \in D BY <1>4
  <2>2. \A p \in (1..(N + 1)) \X D : G(p[2]) \in D
    <3> TAKE p \in (1..(N + 1)) \X D
    <3>1. p[2] \in D OBVIOUS
    <3> HIDE DEF G, D
    <3> QED BY <2>1, <3>1
  <2> HIDE DEF G, D
  <2> QED BY <2>2
<1>7. PICK q : Computes(q, N + 1, D, id, F)
  <2> PICK M \in Nat : M = N + 1 OBVIOUS
  <2>1. F \in [(1..M) \X D -> D] BY <1>6
  <2> HIDE DEF D, F, id
  <2> QED BY <1>5, <2>1, Recursion
<1>8. q[0] = id /\ \A n \in 1..(N + 1) : q[n] = G(q[n - 1]) /\ q[n] \in D
  <2> HIDE DEF G, D, id
  <2>1. q \in [0..(N + 1) -> D] /\ q[0] = id /\ \A n \in 1..(N + 1) : q[n] = F[<<n, q[n - 1]>>]
    <3> HIDE DEF F
    <3> QED BY <1>7 DEF Computes
  <2>2. ASSUME NEW n \in 1..(N + 1) PROVE q[n] = G(q[n - 1])
    <3>1. n - 1 \in 0..(N + 1) OBVIOUS
    <3>2. <<n, q[n - 1]>> \in (1..(N + 1)) \X D BY <2>1, <3>1
    <3> QED BY <2>1, <3>2
  <2> QED BY <2>1, <2>2
<1> DEFINE T == {n \in Nat : n =< N => \A w \in K : r[w] =< n => q[n + 1][w] = q[n][w]}
<1>9. 0 \in T
  <2> SUFFICES ASSUME NEW w \in K, r[w] =< 0 PROVE q[1][w] = q[0][w] OBVIOUS
  <2>1. w \notin C BY <1>4
  <2>2. q[1] = G(q[0]) BY <1>8
  <2> QED BY <2>1, <2>2, <1>8
<1>10. ASSUME NEW n \in Nat, n \in T PROVE n + 1 \in T
  <2> SUFFICES ASSUME n + 1 =< N, NEW w \in K, r[w] =< n + 1 PROVE q[n + 2][w] = q[n + 1][w] OBVIOUS
  <2>1. n + 2 \in 1..(N + 1) /\ n + 1 \in 1..(N + 1) /\ n + 2 - 1 = n + 1 /\ n + 1 - 1 = n OBVIOUS
  <2>2. q[n + 2] = G(q[n + 1]) /\ q[n + 1] = G(q[n]) BY <1>8, <2>1
  <2>3. CASE w \notin C BY <2>2, <2>3
  <2>4. CASE w \in C
    <3>1. r[a[w]] =< n /\ a[w] \in K BY <1>4, <2>4
    <3>2. q[n + 1][a[w]] = q[n][a[w]] BY <1>10, <3>1
    <3> QED BY <2>2, <2>4, <3>2
  <2> QED BY <2>3, <2>4
<1>11. N \in T
  <2> HIDE DEF T
  <2> QED BY <1>9, <1>10, Induction
<1> PICK f : f = q[N + 1] OBVIOUS
<1>12. f = [w \in K |-> IF w \in C THEN f[a[w]] ELSE w]
  <2>1. f = G(q[N]) /\ f \in D
    <3>1. N + 1 \in 1..(N + 1) /\ N + 1 - 1 = N OBVIOUS
    <3> HIDE DEF G, D
    <3> QED BY <3>1, <1>8
  <2>2. \A w \in K : f[w] = q[N][w] BY <1>11, <1>4
  <2>3. \A w \in C : f[a[w]] = q[N][a[w]] BY <2>2, <1>4
  <2>4. \A w \in K : f[w] = IF w \in C THEN f[a[w]] ELSE w BY <2>1, <2>3
  <2> QED BY <2>1, <2>4
<1> DEFINE alias == CHOOSE z : z = [w \in K |-> IF w \in C THEN z[a[w]] ELSE w]
<1>13. alias = [w \in K |-> IF w \in C THEN alias[a[w]] ELSE w]
  <2>1. \E z : z = [w \in K |-> IF w \in C THEN z[a[w]] ELSE w] BY <1>12
  <2> QED BY <2>1
<1>14. \A v : Alias(h, v) = alias[v]
  <2>1. DOMAIN h.alias = K BY <1>3
  <2> QED BY <2>1 DEF Alias
<1> HIDE DEF alias
<1>15. \A v \in K : alias[v] = IF v \in C THEN alias[a[v]] ELSE v BY <1>13
<1> QED BY <1>14, <1>15

\* alias ends at a node that is not coalesced, and stays there.
LEMMA AliasFacts ==
  ASSUME NEW k, NEW c, NEW h, Shape(k, c, h), Ranked(k, h)
  PROVE  /\ \A v \in DOMAIN k : Alias(h, v) \in DOMAIN k /\ Alias(h, v) \notin h.coalesced
         /\ \A v \in DOMAIN k : v \notin h.coalesced => Alias(h, v) = v
         /\ \A v \in DOMAIN k : Alias(h, Alias(h, v)) = Alias(h, v)
<1> DEFINE S == {v \in DOMAIN k : Alias(h, v) \in DOMAIN k /\ Alias(h, v) \notin h.coalesced}
<1>1. \A v \in DOMAIN k : Alias(h, v) = IF v \in h.coalesced THEN Alias(h, h.alias[v]) ELSE v BY AliasStep
<1>2. \A w \in DOMAIN k : (w \in h.coalesced => h.alias[w] \in S) => w \in S BY <1>1
<1>3. DOMAIN k \subseteq S
  <2> HIDE DEF S
  <2> QED BY <1>2, RankInduction
<1> QED BY <1>1, <1>3

\* alias looks at nothing but the field alias and the list of coalesced nodes.
LEMMA SameAliases ==
  ASSUME NEW h, NEW r, r.alias = h.alias, r.coalesced = h.coalesced
  PROVE  \A v : Alias(r, v) = Alias(h, v)
BY DEF Alias

\* w is joined to v.
LEMMA AliasJoined ==
  ASSUME NEW k, NEW c, NEW h, NEW r, NEW v \in DOMAIN k, NEW w \in DOMAIN k, Shape(k, c, h), Ranked(k, h),
         Shape(k, c, r), v # w, v \notin h.coalesced, w \notin h.coalesced,
         r.coalesced = h.coalesced \cup {w}, r.alias = [h.alias EXCEPT ![w] = v]
  PROVE  /\ Ranked(k, r)
         /\ \A x \in DOMAIN k : Alias(r, x) = IF Alias(h, x) = w THEN v ELSE Alias(h, x)
<1>1. PICK N \in Nat : \E m \in [DOMAIN k -> 0..N] : \A x \in h.coalesced : m[h.alias[x]] < m[x]
  BY DEF Ranked
<1>2. PICK m \in [DOMAIN k -> 0..N] : \A x \in h.coalesced : m[h.alias[x]] < m[x] BY <1>1
<1>3. /\ h.alias \in [DOMAIN k -> DOMAIN k] /\ h.coalesced \subseteq DOMAIN k
      /\ r.coalesced = h.coalesced \cup {w}
      /\ \A x \in DOMAIN k : r.alias[x] = IF x = w THEN v ELSE h.alias[x]
  BY DEF Shape, Records
<1>4. \A x \in DOMAIN k : Alias(h, x) = IF x \in h.coalesced THEN Alias(h, h.alias[x]) ELSE x BY AliasStep
<1> DEFINE o == [x \in DOMAIN k |-> IF Alias(h, x) = w THEN m[x] + m[v] + 1 ELSE m[x]]
<1>5. o \in [DOMAIN k -> 0..(N + N + 1)] BY <1>2
<1>6. ASSUME NEW x \in r.coalesced PROVE o[r.alias[x]] < o[x]
  <2>1. CASE x = w
    <3>1. r.alias[x] = v /\ Alias(h, v) = v /\ Alias(h, w) = w BY <2>1, <1>3, <1>4
    <3>2. o[v] = m[v] /\ o[x] = m[w] + m[v] + 1 /\ m[v] \in 0..N /\ m[w] \in 0..N BY <2>1, <3>1, <1>2
    <3> QED BY <3>1, <3>2
  <2>2. CASE x # w
    <3>1. x \in h.coalesced /\ x \in DOMAIN k /\ r.alias[x] = h.alias[x] /\ h.alias[x] \in DOMAIN k
      BY <2>2, <1>3
    <3>2. Alias(h, h.alias[x]) = Alias(h, x) BY <3>1, <1>4
    <3>3. m[h.alias[x]] < m[x] /\ m[x] \in 0..N /\ m[h.alias[x]] \in 0..N /\ m[v] \in 0..N
      BY <3>1, <1>2
    <3>4. CASE Alias(h, x) = w
      <4>1. o[x] = m[x] + m[v] + 1 /\ o[r.alias[x]] = m[h.alias[x]] + m[v] + 1 BY <3>1, <3>2, <3>4
      <4> QED BY <4>1, <3>3
    <3>5. CASE Alias(h, x) # w
      <4>1. o[x] = m[x] /\ o[r.alias[x]] = m[h.alias[x]] BY <3>1, <3>2, <3>5
      <4> QED BY <4>1, <3>3
    <3> QED BY <3>4, <3>5
  <2> QED BY <2>1, <2>2
<1>7. Ranked(k, r)
  <2> HIDE DEF o
  <2>1. N + N + 1 \in Nat OBVIOUS
  <2> QED BY <1>5, <1>6, <2>1 DEF Ranked
<1> HIDE DEF o
<1>8. \A x \in DOMAIN k : Alias(r, x) = IF x \in r.coalesced THEN Alias(r, r.alias[x]) ELSE x
  BY <1>7, AliasStep
<1> DEFINE S == {x \in DOMAIN k : Alias(r, x) = IF Alias(h, x) = w THEN v ELSE Alias(h, x)}
<1>9. \A x \in DOMAIN k : (x \in h.coalesced => h.alias[x] \in S) => x \in S
  <2> SUFFICES ASSUME NEW x \in DOMAIN k, x \in h.coalesced => h.alias[x] \in S PROVE x \in S OBVIOUS
  <2>1. CASE x \in h.coalesced
    <3>1. x \in r.coalesced /\ r.alias[x] = h.alias[x] BY <2>1, <1>3
    <3> QED BY <2>1, <3>1, <1>4, <1>8
  <2>2. CASE x = w
    <3>1. Alias(h, x) = w /\ Alias(r, x) = Alias(r, v) BY <2>2, <1>3, <1>4, <1>8
    <3>2. Alias(r, v) = v BY <1>3, <1>8
    <3> QED BY <3>1, <3>2
  <2>3. CASE x \notin h.coalesced /\ x # w BY <2>3, <1>3, <1>4, <1>8
  <2> QED BY <2>1, <2>2, <2>3
<1>10. DOMAIN k \subseteq S
  <2> HIDE DEF S
  <2> QED BY <1>9, RankInduction
<1> QED BY <1>7, <1>10

-----------------------------------------------------------------------------
\* add_worklist, and a node that leaves the graph.

\* Moving nodes between lists leaves arcs, counts and moves alone.
LEMMA UntouchedKeeps ==
  ASSUME NEW k, NEW h, NEW r, Untouched(h, r)
  PROVE  /\ Gone(r) = Gone(h) /\ \A x : MoveRelated(r, x) = MoveRelated(h, x)
         /\ Symmetric(k, h) => Symmetric(k, r)
         /\ \A V, n : Owing(k, h, V, n) => Owing(k, r, V, n)
<1>1. r.select = h.select /\ r.coalesced = h.coalesced /\ r.adj = h.adj /\ r.degree = h.degree
      /\ r.moves = h.moves /\ r.active = h.active /\ r.worklist = h.worklist
  BY DEF Untouched, Fixed, SameArcs
<1>2. Gone(r) = Gone(h) /\ \A x : Adjacent(r, x) = Adjacent(h, x) BY <1>1 DEF Gone, Adjacent
<1>3. \A x : MoveRelated(r, x) = MoveRelated(h, x) BY <1>1, SameNodeMoves
<1> QED BY <1>1, <1>2, <1>3 DEF Symmetric, Owing

\* A node that no move needs any more leaves the list of frozen ones.
LEMMA AddWorklistEffect ==
  ASSUME NEW h, NEW v \in Reg, NEW E, NEW r, Numbered(class), Shape(class, code, h),
         Apart(class, h), Levels(class, h, {}), Related(h, E), v \notin Gone(h),
         r = AddWorklist(h, v)
  PROVE  /\ Shape(class, code, r) /\ Untouched(h, r)
         /\ Apart(class, r) /\ Levels(class, r, {}) /\ Related(r, E \ {v})
<1> USE DEF Reg
<1>1. h.degree[v] \in Int /\ Room(class, v) \in Nat /\ h.freeze \subseteq Reg /\ h.simplify \subseteq Reg
  BY ShapeFacts, RoomType
<1>2. CASE ~ (v \notin Hard /\ ~ MoveRelated(h, v) /\ h.degree[v] < Room(class, v))
  <2>1. r = h BY <1>2 DEF AddWorklist, Avail, Room
  <2>2. v \in h.freeze => h.degree[v] < Room(class, v) BY DEF Levels
  <2>3. Related(h, E \ {v}) BY <1>2, <2>2 DEF Related
  <2>4. Untouched(h, h) BY DEF Untouched, Fixed, SameArcs
  <2> QED BY <2>1, <2>3, <2>4
<1>3. CASE v \notin Hard /\ ~ MoveRelated(h, v) /\ h.degree[v] < Room(class, v)
  <2> PICK F : F = h.freeze \ {v} OBVIOUS
  <2> PICK S : S = h.simplify \cup {v} OBVIOUS
  <2>1. r = [h EXCEPT !.freeze = F, !.simplify = S] BY <1>3 DEF AddWorklist, Avail, Room
  <2>2. S \subseteq Reg /\ F \subseteq Reg BY <1>1
  <2>3. Shape(class, code, r) /\ Untouched(h, r) /\ r.freeze = F /\ r.simplify = S /\ r.spill = h.spill
    <3>1. S \subseteq DOMAIN class /\ F \subseteq DOMAIN class BY <2>2
    <3> QED BY ONLY Shape(class, code, h), <2>1, <3>1 DEF Shape, Records, Untouched, Fixed, SameArcs
  <2>4. Gone(r) = Gone(h) /\ \A x : MoveRelated(r, x) = MoveRelated(h, x) BY <2>3, UntouchedKeeps
  <2>5. r.select = h.select /\ r.coalesced = h.coalesced /\ r.degree = h.degree
    BY <2>3 DEF Untouched, Fixed, SameArcs
  <2>6. v \notin h.spill
    <3> SUFFICES ASSUME v \in h.spill PROVE FALSE OBVIOUS
    <3>1. h.degree[v] >= Room(class, v) BY DEF Levels
    <3> QED BY <3>1, <1>1, <1>3
  <2>7. Apart(class, r) BY <2>3, <2>4, <2>5, <2>6 DEF Apart
  <2>8. Levels(class, r, {}) BY <2>3, <2>5 DEF Levels
  <2>9. Related(r, E \ {v}) BY <2>3, <2>4, <2>5, <1>3 DEF Related
  <2> QED BY <2>3, <2>7, <2>8, <2>9
<1> QED BY <1>2, <1>3

\* When v leaves the graph, exactly its neighbours have one neighbour less.
LEMMA CountAway ==
  ASSUME NEW k, NEW h, NEW r, NEW v \in DOMAIN k, NEW x \in DOMAIN k, Numbered(k), Symmetric(k, h),
         h.adj[x] \subseteq DOMAIN k, r.adj = h.adj, Gone(r) = Gone(h) \cup {v}, v \notin Gone(h)
  PROVE  Cardinality(Adjacent(h, x)) = Cardinality(Adjacent(r, x))
                                          + (IF x \notin Gone(r) /\ x \in Adjacent(r, v) THEN 1 ELSE
                                             IF v \in h.adj[x] THEN 1 ELSE 0)
<1> PICK A : A = Adjacent(r, x) OBVIOUS
<1>1. A = h.adj[x] \ Gone(r) /\ Adjacent(h, x) = h.adj[x] \ Gone(h) BY DEF Adjacent, Gone
<1>2. IsFiniteSet(A) /\ Cardinality(A) \in Nat
  <2>1. A \subseteq DOMAIN k BY <1>1
  <2>2. IsFiniteSet(A) BY <2>1, NodesFinite, FS_Subset
  <2> QED BY <2>2, FS_CardinalityType
<1>3. Adjacent(r, v) = h.adj[v] \ Gone(r) BY DEF Adjacent, Gone
<1>4. x \in h.adj[v] <=> v \in h.adj[x] BY DEF Symmetric
<1>5. CASE v \in h.adj[x]
  <2>1. Adjacent(h, x) = A \cup {v} /\ v \notin A BY <1>1, <1>5
  <2>2. Cardinality(A \cup {v}) = Cardinality(A) + 1 BY <2>1, <1>2, FS_AddElement
  <2> QED BY <1>5, <2>1, <2>2
<1>6. CASE v \notin h.adj[x]
  <2>1. Adjacent(h, x) = A BY <1>1, <1>6
  <2> QED BY <1>2, <1>3, <1>4, <1>6, <2>1
<1> QED BY <1>5, <1>6

\* So exactly they owe one after it.
LEMMA OwingAway ==
  ASSUME NEW k, NEW c, NEW h, NEW r, NEW v \in DOMAIN k, Numbered(k), Shape(k, c, h), Symmetric(k, h),
         Owing(k, h, {}, 0), SameArcs(h, r), Gone(r) = Gone(h) \cup {v}, v \notin Gone(h)
  PROVE  Owing(k, r, Adjacent(r, v), 0)
<1> SUFFICES ASSUME NEW x \in DOMAIN k \ Gone(r)
             PROVE  r.degree[x] = Cardinality(Adjacent(r, x))
                                    + (IF x \in Adjacent(r, v) /\ x >= 0 THEN 1 ELSE 0)
  BY DEF Owing
<1>1. x \in Nat BY NodesFinite
<1>2. r.adj = h.adj /\ r.degree = h.degree BY DEF SameArcs
<1>3. r.degree[x] = Cardinality(Adjacent(h, x)) + 0 BY <1>2 DEF Owing
<1>4. h.adj[x] \subseteq DOMAIN k BY ShapeFacts
<1>5. x \in Adjacent(r, v) <=> v \in h.adj[x]
  <2>1. x \in Adjacent(r, v) <=> x \in h.adj[v] BY <1>2 DEF Adjacent, Gone
  <2> QED BY <2>1 DEF Symmetric
<1> PICK n : n = Cardinality(Adjacent(h, x)) OBVIOUS
<1> PICK A : A = Adjacent(r, x) OBVIOUS
<1>6. n = Cardinality(A) + (IF x \notin Gone(r) /\ x \in Adjacent(r, v) THEN 1 ELSE
                                             IF v \in h.adj[x] THEN 1 ELSE 0)
  BY <1>2, <1>4, CountAway
<1>7. Cardinality(A) \in Nat
  <2>1. A \subseteq DOMAIN k BY <1>2, <1>4 DEF Adjacent
  <2>2. IsFiniteSet(A) BY <2>1, NodesFinite, FS_Subset
  <2> QED BY <2>2, FS_CardinalityType
<1> QED BY ONLY <1>1, <1>3, <1>5, <1>6, <1>7, n = Cardinality(Adjacent(h, x)), A = Adjacent(r, x)

-----------------------------------------------------------------------------
\* combine.

\* The fields that change when w is joined to v.
Joins(h, r, v, w) ==
  /\ SameArcs(h, r) /\ r.active = h.active /\ r.worklist = h.worklist
  /\ r.hardNum = h.hardNum /\ r.select = h.select /\ r.stack = h.stack
  /\ r.spilled = h.spilled /\ r.temps = h.temps /\ r.simplify = h.simplify
  /\ r.freeze = h.freeze \ {w} /\ r.spill = (IF w \in h.freeze THEN h.spill ELSE h.spill \ {w})
  /\ r.coalesced = h.coalesced \cup {w} /\ r.alias = [h.alias EXCEPT ![w] = v]
  /\ r.moves = [h.moves EXCEPT ![v] = @ \cup h.moves[w]]

Joined(h, v, w) == [h EXCEPT !.freeze = @ \ {w},
                       !.spill = IF w \in h.freeze THEN @ ELSE @ \ {w},
                       !.coalesced = @ \cup {w}, !.alias[w] = v,
                       !.moves[v] = @ \cup h.moves[w]]

\* The assignments at the start of combine change what Joins says.
LEMMA JoinsType ==
  ASSUME NEW k, NEW c, NEW h, NEW v \in DOMAIN k, NEW w \in DOMAIN k, NEW r, Shape(k, c, h),
         r = Joined(h, v, w)
  PROVE  Shape(k, c, r) /\ Joins(h, r, v, w)
<1> PICK F : F = h.freeze \ {w} OBVIOUS
<1> PICK S : S = IF w \in h.freeze THEN h.spill ELSE h.spill \ {w} OBVIOUS
<1> PICK C : C = h.coalesced \cup {w} OBVIOUS
<1> PICK a : a = [h.alias EXCEPT ![w] = v] OBVIOUS
<1> PICK m : m = [h.moves EXCEPT ![v] = @ \cup h.moves[w]] OBVIOUS
<1>1. r = [h EXCEPT !.freeze = F, !.spill = S, !.coalesced = C, !.alias = a, !.moves = m]
  BY DEF Shape, Records, Joined
<1>2. F \subseteq DOMAIN k /\ S \subseteq DOMAIN k /\ C \subseteq DOMAIN k BY ShapeFacts
<1>3. a \in [DOMAIN k -> DOMAIN k] /\ m \in [DOMAIN k -> SUBSET Moves(c)]
  <2>1. h.alias \in [DOMAIN k -> DOMAIN k] /\ h.moves \in [DOMAIN k -> SUBSET Moves(c)]
    BY DEF Shape, Records
  <2> QED BY <2>1
<1>4. Shape(k, c, r) BY ONLY <1>1, <1>2, <1>3, Shape(k, c, h) DEF Shape, Records
<1>5. /\ SameArcs(h, r) /\ r.active = h.active /\ r.worklist = h.worklist
      /\ r.hardNum = h.hardNum /\ r.select = h.select /\ r.stack = h.stack
      /\ r.spilled = h.spilled /\ r.temps = h.temps /\ r.simplify = h.simplify
      /\ r.freeze = F /\ r.spill = S /\ r.coalesced = C /\ r.alias = a /\ r.moves = m
  BY ONLY <1>1, Shape(k, c, h) DEF Shape, Records, SameArcs
<1> QED BY <1>4, <1>5 DEF Joins

\* After them w has left the graph, v may have too high a degree for its list, and the
\* neighbours of w owe one each.
LEMMA JoinsEffect ==
  ASSUME NEW k, NEW c, NEW h, NEW v \in DOMAIN k, NEW w \in DOMAIN k, NEW r, Numbered(k), Shape(k, c, h),
         Shape(k, c, r), Joins(h, r, v, w), v # w, w \notin Hard, w \notin Gone(h), w \notin h.simplify,
         v \notin Gone(h), v \notin h.simplify, Symmetric(k, h), Apart(k, h), Levels(k, h, {}),
         Related(h, {v, w}), Owing(k, h, {}, 0), w \notin h.adj[v]
  PROVE  /\ Symmetric(k, r) /\ Listed(k, r, {v}) /\ Gone(r) = Gone(h) \cup {w}
         /\ Adjacent(r, w) = Adjacent(h, w) /\ Owing(k, r, Adjacent(r, w), 0)
         /\ v \notin Adjacent(r, w) /\ Adjacent(r, w) \cap Gone(r) = {}
         /\ Adjacent(r, w) \subseteq DOMAIN k
<1>1. Gone(r) = Gone(h) \cup {w} BY DEF Gone, Joins
<1>2. r.adj = h.adj /\ r.degree = h.degree BY DEF Joins, SameArcs
<1>3. w \notin h.adj[w] /\ v \notin h.adj[w] BY DEF Symmetric
<1>4. /\ Adjacent(r, w) = Adjacent(h, w) /\ v \notin Adjacent(r, w) /\ Adjacent(r, w) \cap Gone(r) = {}
      /\ Adjacent(r, w) \subseteq DOMAIN k
  <2>1. Adjacent(r, w) = h.adj[w] \ Gone(r) /\ Adjacent(h, w) = h.adj[w] \ Gone(h)
    BY <1>2 DEF Adjacent, Gone
  <2>2. h.adj[w] \subseteq DOMAIN k BY ShapeFacts
  <2> QED BY <2>1, <2>2, <1>1, <1>3
<1>5. Symmetric(k, r) BY <1>2 DEF Symmetric
<1>6. Owing(k, r, Adjacent(r, w), 0) BY <1>1, OwingAway DEF Joins
<1>7. Apart(k, r)
  <2>1. r.simplify = h.simplify /\ r.freeze = h.freeze \ {w} /\ r.spill = h.spill \ {w}
        /\ r.select = h.select /\ r.coalesced = h.coalesced \cup {w}
    BY DEF Joins, Apart
  <2> QED BY <2>1, <1>1 DEF Apart, Gone
<1>8. Levels(k, r, {v}) BY <1>2 DEF Levels, Joins
<1>9. \A x \in DOMAIN k \ {v} : MoveRelated(r, x) = MoveRelated(h, x)
  <2> TAKE x \in DOMAIN k \ {v}
  <2>1. h.moves \in [DOMAIN k -> SUBSET Moves(c)] BY DEF Shape, Records
  <2>2. r.moves[x] = h.moves[x] BY <2>1 DEF Joins
  <2> QED BY <2>2 DEF Joins, MoveRelated, NodeMoves
<1>10. Related(r, {v})
  <2>1. \A x \in r.simplify \cup r.select : ~ MoveRelated(r, x)
    <3> TAKE x \in r.simplify \cup r.select
    <3>1. x \in h.simplify \cup h.select BY DEF Joins
    <3>2. x \in DOMAIN k /\ x # v BY <3>1, ShapeFacts DEF Gone
    <3> QED BY <3>1, <3>2, <1>9 DEF Related
  <2>2. \A x \in r.freeze \ (Hard \cup {v}) : MoveRelated(r, x)
    <3> TAKE x \in r.freeze \ (Hard \cup {v})
    <3>1. x \in h.freeze \ (Hard \cup {v, w}) BY DEF Joins
    <3>2. x \in DOMAIN k BY <3>1, ShapeFacts
    <3> QED BY <3>1, <3>2, <1>9 DEF Related
  <2> QED BY <2>1, <2>2 DEF Related
<1> QED BY <1>1, <1>4, <1>5, <1>6, <1>7, <1>8, <1>10 DEF Listed

\* What becomes of the graph when w is joined to v.
Combined(h, r, v, w) ==
  /\ r.hardNum = h.hardNum /\ r.select = h.select /\ r.stack = h.stack
  /\ r.spilled = h.spilled /\ r.temps = h.temps
  /\ r.coalesced = h.coalesced \cup {w} /\ r.alias = [h.alias EXCEPT ![w] = v]
  /\ r.moves = [h.moves EXCEPT ![v] = @ \cup h.moves[w]]
  /\ SameMoves(h, r)
  /\ \A x \in Reg : h.adj[x] \subseteq r.adj[x]
  /\ \A x \in Reg : \A y \in r.adj[x] :
       y \in h.adj[x] \/ (x = v /\ y \in Adjacent(h, w)) \/ (y = v /\ x \in Adjacent(h, w))
  /\ \A t \in Adjacent(h, w) : v \in r.adj[t]

\* combine as a whole: lists, degrees and moves agree again, and v has what w had.
LEMMA CombineEffect ==
  ASSUME NEW h, NEW v \in Reg, NEW w \in Reg, NEW r, Numbered(class), Shape(class, code, h),
         v # w, w \notin Hard, w \notin Gone(h), w \notin h.simplify,
         v \notin Gone(h), v \notin h.simplify, Symmetric(class, h), Apart(class, h), Levels(class, h, {}),
         Related(h, {v, w}), Owing(class, h, {}, 0), w \notin h.adj[v], r = Combine(h, v, w)
  PROVE  /\ Shape(class, code, r) /\ Combined(h, r, v, w) /\ Symmetric(class, r) /\ Apart(class, r)
         /\ Levels(class, r, {}) /\ Related(r, {v}) /\ Owing(class, r, {}, 0)
<1> PICK joined : joined = Joined(h, v, w) OBVIOUS
<1> PICK low : low = EnableMoves(joined, {w}) OBVIOUS
<1> PICK linked : linked = TakeArcs(low, v, w) OBVIOUS
<1>1. r = IF linked.degree[v] >= Room(class, v) /\ v \in linked.freeze
          THEN [linked EXCEPT !.freeze = @ \ {v}, !.spill = @ \cup {v}] ELSE linked
  BY DEF Combine, Avail, Room, Joined
<1>0. v \in DOMAIN class /\ w \in DOMAIN class BY DEF Reg
<1>2. Shape(class, code, joined) /\ Joins(h, joined, v, w) BY <1>0, JoinsType
<1>3. /\ Symmetric(class, joined) /\ Listed(class, joined, {v}) /\ Gone(joined) = Gone(h) \cup {w}
      /\ Adjacent(joined, w) = Adjacent(h, w) /\ Owing(class, joined, Adjacent(joined, w), 0)
      /\ v \notin Adjacent(joined, w) /\ Adjacent(joined, w) \cap Gone(joined) = {}
      /\ Adjacent(joined, w) \subseteq DOMAIN class
  BY ONLY <1>0, <1>2, JoinsEffect, Numbered(class), Shape(class, code, h),
       v # w, w \notin Hard, w \notin Gone(h), w \notin h.simplify,
       v \notin Gone(h), v \notin h.simplify, Symmetric(class, h), Apart(class, h), Levels(class, h, {}),
       Related(h, {v, w}), Owing(class, h, {}, 0), w \notin h.adj[v]
<1>4. /\ Shape(class, code, low) /\ Fixed(joined, low) /\ SameLists(joined, low)
      /\ SameArcs(joined, low) /\ SameMoves(joined, low) /\ low.active \subseteq joined.active
  BY ONLY <1>2, low = EnableMoves(joined, {w}), EnableEffect
<1> PICK V : V = Adjacent(h, w) OBVIOUS
<1>5. /\ Symmetric(class, low) /\ Listed(class, low, {v}) /\ Gone(low) = Gone(h) \cup {w}
      /\ Adjacent(low, w) = V /\ Owing(class, low, V, 0) /\ V \cap Gone(low) = {}
  <2>1. /\ low.adj = joined.adj /\ low.degree = joined.degree /\ low.select = joined.select
        /\ low.coalesced = joined.coalesced /\ low.moves = joined.moves
        /\ low.simplify = joined.simplify /\ low.freeze = joined.freeze /\ low.spill = joined.spill
    BY <1>4 DEF Fixed, SameArcs, SameLists
  <2>2. Gone(low) = Gone(joined) BY <2>1 DEF Gone
  <2>3. \A x : Adjacent(low, x) = Adjacent(joined, x) BY <2>1 DEF Adjacent
  <2>4. \A x : MoveRelated(low, x) = MoveRelated(joined, x) 
    <3>1. low.moves = joined.moves /\ low.active \cup low.worklist = joined.active \cup joined.worklist
      BY <2>1, <1>4 DEF SameMoves
    <3> QED BY ONLY <3>1, SameNodeMoves
  <2>5. Symmetric(class, low) BY <2>1, <1>3 DEF Symmetric
  <2>6. Owing(class, low, V, 0)
    <3>1. Owing(class, joined, V, 0) BY <1>3
    <3> QED BY ONLY <3>1, <2>1, <2>2, <2>3 DEF Owing
  <2>7. Listed(class, low, {v})
    BY <2>1, <2>2, <2>4, <1>3 DEF Listed, Apart, Levels, Related
  <2> QED BY <2>2, <2>3, <2>5, <2>6, <2>7, <1>3
<1>6. V \subseteq Reg /\ v \notin V /\ v \notin Gone(low) BY <1>3, <1>5 DEF Reg
<1>7. /\ Onward(low, linked) /\ Symmetric(class, linked) /\ Listed(class, linked, {v})
      /\ Owing(class, linked, {}, 0)
      /\ \A x \in Reg : low.adj[x] \subseteq linked.adj[x]
      /\ \A x \in Reg : \A y \in linked.adj[x] :
           y \in low.adj[x] \/ (x = v /\ y \in V) \/ (y = v /\ x \in V)
      /\ \A t \in V : v \in linked.adj[t]
  <2>1. Shape(class, code, low) /\ V = Adjacent(low, w) /\ linked = TakeArcs(low, v, w) BY <1>4, <1>5
  <2> QED BY ONLY Numbered(class), v \in Reg, <2>1, <1>5, <1>6, TakeAll
<1>8. Combined(h, linked, v, w)
  <2>1. Fixed(low, linked) /\ SameMoves(low, linked) BY <1>7 DEF Onward
  <2>2. SameMoves(h, linked) BY <2>1, <1>2, <1>4 DEF SameMoves, Joins
  <2>3. /\ linked.hardNum = h.hardNum /\ linked.select = h.select /\ linked.stack = h.stack
        /\ linked.spilled = h.spilled /\ linked.temps = h.temps
        /\ linked.coalesced = h.coalesced \cup {w} /\ linked.alias = [h.alias EXCEPT ![w] = v]
        /\ linked.moves = [h.moves EXCEPT ![v] = @ \cup h.moves[w]]
    BY <2>1, <1>2, <1>4 DEF Joins, Fixed
  <2>4. low.adj = h.adj BY <1>2, <1>4 DEF Joins, SameArcs
  <2>5. /\ \A x \in Reg : h.adj[x] \subseteq linked.adj[x]
        /\ \A x \in Reg : \A y \in linked.adj[x] :
             y \in h.adj[x] \/ (x = v /\ y \in V) \/ (y = v /\ x \in V)
        /\ \A t \in V : v \in linked.adj[t]
    BY ONLY <2>4, <1>7
  <2> QED BY ONLY <2>2, <2>3, <2>5, V = Adjacent(h, w) DEF Combined
<1>9. Shape(class, code, linked) BY <1>7 DEF Onward
<1>10. CASE ~ (linked.degree[v] >= Room(class, v) /\ v \in linked.freeze)
  <2>1. r = linked BY <1>1, <1>10
  <2>2. Levels(class, linked, {})
    <3>1. linked.degree[v] \in Int /\ Room(class, v) \in Nat BY <1>9, ShapeFacts, RoomType DEF Reg
    <3>2. v \in linked.freeze => linked.degree[v] < Room(class, v) BY <3>1, <1>10
    <3> QED BY <3>2, <1>7 DEF Listed, Levels
  <2> QED BY <2>1, <2>2, <1>7, <1>8, <1>9 DEF Listed
<1>11. CASE linked.degree[v] >= Room(class, v) /\ v \in linked.freeze
  <2> PICK F : F = linked.freeze \ {v} OBVIOUS
  <2> PICK S : S = linked.spill \cup {v} OBVIOUS
  <2>1. r = [linked EXCEPT !.freeze = F, !.spill = S] BY <1>1, <1>11
  <2>2. F \subseteq DOMAIN class /\ S \subseteq DOMAIN class BY <1>9, ShapeFacts DEF Reg
  <2>3. /\ Shape(class, code, r) /\ Untouched(linked, r)
        /\ r.freeze = F /\ r.spill = S /\ r.simplify = linked.simplify
    BY ONLY <1>9, <2>1, <2>2 DEF Shape, Records, Untouched, Fixed, SameArcs
  <2>4. /\ Gone(r) = Gone(linked) /\ \A x : MoveRelated(r, x) = MoveRelated(linked, x)
        /\ Symmetric(class, r) /\ Owing(class, r, {}, 0)
    BY ONLY <2>3, <1>7, UntouchedKeeps
  <2>5. r.select = linked.select /\ r.coalesced = linked.coalesced /\ r.degree = linked.degree
    BY <2>3 DEF Untouched, Fixed, SameArcs
  <2>6. Apart(class, r)
    <3>1. Apart(class, linked) BY <1>7 DEF Listed
    <3> QED BY ONLY <3>1, <1>11, <2>3, <2>4, <2>5, F = linked.freeze \ {v}, S = linked.spill \cup {v} DEF Apart
  <2>7. Levels(class, r, {}) BY <1>7, <1>11, <2>3, <2>5 DEF Levels, Listed
  <2>8. Related(r, {v}) BY <1>7, <2>3, <2>4, <2>5 DEF Related, Listed
  <2>9. Combined(h, r, v, w) BY <1>8, <2>3 DEF Combined, Untouched, Fixed, SameArcs, SameMoves
  <2> QED BY <2>3, <2>4, <2>6, <2>7, <2>8, <2>9
<1> QED BY <1>10, <1>11

-----------------------------------------------------------------------------
\* What must not be lost: moves, classes and interference.

\* The moves left belong to the nodes their ends stand for.
Owned(k, h) ==
  \A m \in h.active \cup h.worklist :
    /\ m \in h.moves[Alias(h, m.src)] /\ m \in h.moves[Alias(h, m.dst)]
    /\ \A v \in DOMAIN k \ h.coalesced : m \in h.moves[v] => v \in {Alias(h, m.src), Alias(h, m.dst)}
\* A node stands for nodes of its class, a hard one only if the class may get it.
SameClass(k, h) == \A v \in DOMAIN k :
  /\ k[Alias(h, v)] = k[v]
  /\ Alias(h, v) \in Hard => v \in Hard \/ Alias(h, v) \in Available[k[v]]
\* What interferes in the code has an arc, whatever was joined since.
Covers(k, c, h) == \A a \in Arcs(c) : a[1] \in DOMAIN k /\ a[2] \in h.adj[a[1]]
\* p has an arc to a node that q stands for.
Sees(h, p, q) == \E z \in h.adj[p] : Alias(h, z) = q
\* Two nodes that interfere still do, seen from the one that is coloured later.
Left(h, p, q) ==
  /\ p # q
  /\ p \notin h.select /\ q \notin h.select => q \in h.adj[p]
  /\ p \in h.select /\ q \notin h.select => Sees(h, p, q)
  /\ \A i, j \in DOMAIN h.stack : i < j /\ h.stack[j] = p /\ h.stack[i] = q => Sees(h, p, q)
Kept(k, h) == \A v \in DOMAIN k : \A w \in h.adj[v] : Left(h, Alias(h, v), Alias(h, w))
\* No colour but those of the hard registers has been given.
Uncoloured(k, h) == h.hardNum = [v \in DOMAIN k |-> IF v \in Hard THEN v ELSE -1]

\* Nothing but lists of nodes, degrees and moves changes.
Rests(h, r) ==
  /\ r.adj = h.adj /\ r.alias = h.alias /\ r.coalesced = h.coalesced /\ r.moves = h.moves
  /\ r.select = h.select /\ r.stack = h.stack /\ r.hardNum = h.hardNum /\ r.spilled = h.spilled

\* What is said of arcs, aliases, stack and colours stays true while only lists of
\* nodes, degrees and moves change.
LEMMA RestsKeep ==
  ASSUME NEW k, NEW c, NEW h, NEW r, Rests(h, r)
  PROVE  /\ \A v : Alias(r, v) = Alias(h, v)
         /\ Symmetric(k, h) => Symmetric(k, r)
         /\ Stacked(h) => Stacked(r)
         /\ Ranked(k, h) => Ranked(k, r)
         /\ SameClass(k, h) => SameClass(k, r)
         /\ Covers(k, c, h) => Covers(k, c, r)
         /\ Kept(k, h) => Kept(k, r)
         /\ Uncoloured(k, h) => Uncoloured(k, r)
         /\ Owned(k, h) /\ r.active \cup r.worklist \subseteq h.active \cup h.worklist => Owned(k, r)
<1>1. \A v : Alias(r, v) = Alias(h, v) BY SameAliases DEF Rests
<1>2. Symmetric(k, h) => Symmetric(k, r) BY DEF Rests, Symmetric
<1>3. Stacked(h) => Stacked(r) BY DEF Rests, Stacked
<1>4. Ranked(k, h) => Ranked(k, r) BY DEF Rests, Ranked
<1>5. SameClass(k, h) => SameClass(k, r) BY <1>1 DEF Rests, SameClass
<1>6. Covers(k, c, h) => Covers(k, c, r) BY DEF Rests, Covers
<1>7. Kept(k, h) => Kept(k, r)
  <2>1. \A p, q : Sees(r, p, q) = Sees(h, p, q) BY <1>1 DEF Rests, Sees
  <2>2. \A p, q : Left(h, p, q) => Left(r, p, q) BY <2>1 DEF Rests, Left
  <2> QED BY <1>1, <2>2 DEF Rests, Kept
<1>8. Uncoloured(k, h) => Uncoloured(k, r) BY DEF Rests, Uncoloured
<1>9. Owned(k, h) /\ r.active \cup r.worklist \subseteq h.active \cup h.worklist => Owned(k, r)
  BY <1>1 DEF Rests, Owned
<1> QED BY <1>1, <1>2, <1>3, <1>4, <1>5, <1>6, <1>7, <1>8, <1>9

\* v leaves the graph for the stack.
LEMMA PushKeeps ==
  ASSUME NEW k, NEW c, NEW h, NEW r, NEW v \in DOMAIN k, Shape(k, c, h), Ranked(k, h), Kept(k, h),
         r.adj = h.adj, r.alias = h.alias, r.coalesced = h.coalesced, v \notin Gone(h),
         r.select = h.select \cup {v}, r.stack = <<v>> \o h.stack, Stacked(h)
  PROVE  Kept(k, r)
<1>1. \A x : Alias(r, x) = Alias(h, x) BY SameAliases
<1>2. /\ \A x \in DOMAIN k : Alias(h, x) \in DOMAIN k /\ Alias(h, x) \notin h.coalesced
      /\ \A x \in DOMAIN k : x \notin h.coalesced => Alias(h, x) = x
  BY AliasFacts
<1>3. \A p, q : Sees(r, p, q) = Sees(h, p, q) BY <1>1 DEF Sees
<1> SUFFICES ASSUME NEW x \in DOMAIN k, NEW y \in h.adj[x]
             PROVE  Left(r, Alias(h, x), Alias(h, y))
  BY <1>1 DEF Kept
<1> PICK p : p = Alias(h, x) OBVIOUS
<1> PICK q : q = Alias(h, y) OBVIOUS
<1>4. y \in DOMAIN k BY ShapeFacts
<1>5. p \in DOMAIN k /\ q \in DOMAIN k /\ Alias(h, p) = p /\ Alias(h, q) = q BY <1>2, <1>4
<1>6. Left(h, p, q) BY DEF Kept
<1>7. p \in r.select /\ q \notin r.select => Sees(r, p, q)
  <2> SUFFICES ASSUME p \in r.select, q \notin r.select PROVE Sees(h, p, q) BY <1>3
  <2>1. CASE p \in h.select BY <2>1, <1>6 DEF Left
  <2>2. CASE p \notin h.select
    <3>1. q \in h.adj[p] BY <2>2, <1>6 DEF Left
    <3> QED BY <3>1, <1>5 DEF Sees
  <2> QED BY <2>1, <2>2
<1>8. ASSUME NEW i \in DOMAIN r.stack, NEW j \in DOMAIN r.stack, i < j, r.stack[j] = p, r.stack[i] = q
      PROVE  Sees(r, p, q)
  <2>1. h.stack \in Seq(DOMAIN k) BY DEF Shape, Records
  <2>2. Len(r.stack) = Len(h.stack) + 1 /\ r.stack[1] = v
        /\ \A n \in DOMAIN h.stack : r.stack[n + 1] = h.stack[n]
    BY <2>1
  <2>3. DOMAIN h.stack = 1..Len(h.stack) /\ DOMAIN r.stack = 1..Len(r.stack) /\ Len(h.stack) \in Nat
    BY <2>1
  <2>4. j - 1 \in DOMAIN h.stack /\ h.stack[j - 1] = p
    <3>1. j - 1 \in DOMAIN h.stack /\ (j - 1) + 1 = j BY <1>8, <2>2, <2>3
    <3> QED BY <3>1, <2>2, <1>8
  <2>5. p \in h.select BY <2>4 DEF Stacked, ToSet
  <2>6. CASE i = 1
    <3>1. q = v /\ v \notin h.select BY <2>6, <1>8, <2>2 DEF Gone
    <3> QED BY <3>1, <2>5, <1>3, <1>6 DEF Left
  <2>7. CASE i # 1
    <3>1. i - 1 \in DOMAIN h.stack /\ (i - 1) + 1 = i /\ i - 1 < j - 1 BY <1>8, <2>2, <2>3, <2>7
    <3>2. h.stack[i - 1] = q BY <3>1, <2>2, <1>8
    <3> QED BY <3>1, <3>2, <2>4, <1>3, <1>6 DEF Left
  <2> QED BY <2>6, <2>7
<1> QED BY <1>6, <1>7, <1>8 DEF Left

\* A joined node leaves its moves to the node it is joined to.
LEMMA JoinedOwned ==
  ASSUME NEW k, NEW c, NEW h, NEW r, NEW v \in DOMAIN k, NEW w \in DOMAIN k, Shape(k, c, h), v # w,
         v \notin h.coalesced, w \notin h.coalesced, Owned(k, h),
         \A m \in h.active \cup h.worklist : m.src \in DOMAIN k /\ m.dst \in DOMAIN k,
         \A x \in DOMAIN k : Alias(h, x) \in DOMAIN k,
         \A x \in DOMAIN k : Alias(r, x) = IF Alias(h, x) = w THEN v ELSE Alias(h, x),
         r.coalesced = h.coalesced \cup {w}, r.moves = [h.moves EXCEPT ![v] = @ \cup h.moves[w]],
         r.active \cup r.worklist \subseteq h.active \cup h.worklist
  PROVE  Owned(k, r)
<1>1. \A x \in DOMAIN k : r.moves[x] = IF x = v THEN h.moves[v] \cup h.moves[w] ELSE h.moves[x]
  BY DEF Shape, Records
<1> SUFFICES ASSUME NEW m \in r.active \cup r.worklist
             PROVE  /\ m \in r.moves[Alias(r, m.src)] /\ m \in r.moves[Alias(r, m.dst)]
                    /\ \A x \in DOMAIN k \ r.coalesced :
                         m \in r.moves[x] => x \in {Alias(r, m.src), Alias(r, m.dst)}
  BY DEF Owned
<1> PICK a : a = Alias(h, m.src) OBVIOUS
<1> PICK b : b = Alias(h, m.dst) OBVIOUS
<1>2. a \in DOMAIN k /\ b \in DOMAIN k /\ m.src \in DOMAIN k /\ m.dst \in DOMAIN k OBVIOUS
<1>3. /\ m \in h.moves[a] /\ m \in h.moves[b]
      /\ \A x \in DOMAIN k \ h.coalesced : m \in h.moves[x] => x \in {a, b}
  BY DEF Owned
<1>4. Alias(r, m.src) = IF a = w THEN v ELSE a BY <1>2
<1>5. Alias(r, m.dst) = IF b = w THEN v ELSE b BY <1>2
<1>6. m \in r.moves[Alias(r, m.src)] /\ m \in r.moves[Alias(r, m.dst)]
  BY <1>1, <1>2, <1>3, <1>4, <1>5
<1>7. ASSUME NEW x \in DOMAIN k \ r.coalesced, m \in r.moves[x]
      PROVE  x \in {Alias(r, m.src), Alias(r, m.dst)}
  <2>1. x \notin h.coalesced /\ x # w OBVIOUS
  <2>2. CASE x # v
    <3>1. m \in h.moves[x] BY <2>2, <1>1, <1>7
    <3>2. x \in {a, b} BY <3>1, <2>1, <1>3
    <3> QED BY <3>2, <2>1, <1>4, <1>5
  <2>3. CASE x = v
    <3>1. m \in h.moves[v] \/ m \in h.moves[w] BY <2>3, <1>1, <1>7
    <3>2. v \in {a, b} \/ w \in {a, b} BY <3>1, <1>3
    <3> QED BY <3>2, <2>3, <1>4, <1>5
  <2> QED BY <2>2, <2>3
<1> QED BY <1>6, <1>7

\* Joining two nodes that do not interfere keeps every interference between aliases.
LEMMA JoinedKept ==
  ASSUME NEW k, NEW c, NEW h, NEW r, NEW v \in DOMAIN k, NEW w \in DOMAIN k, Shape(k, c, h), v # w,
         Symmetric(k, h), Symmetric(k, r), Ranked(k, h), Kept(k, h),
         v \notin Gone(h), w \notin Gone(h), w \notin h.adj[v],
         \A x \in DOMAIN k : Alias(r, x) = IF Alias(h, x) = w THEN v ELSE Alias(h, x),
         r.select = h.select, r.stack = h.stack, Stacked(h),
         \A x \in DOMAIN k : h.adj[x] \subseteq r.adj[x],
         \A x \in DOMAIN k : \A y \in r.adj[x] :
           y \in h.adj[x] \/ (x = v /\ y \in Adjacent(h, w)) \/ (y = v /\ x \in Adjacent(h, w)),
         \A t \in Adjacent(h, w) : v \in r.adj[t]
  PROVE  Kept(k, r)
<1>1. \A x \in DOMAIN k : Alias(h, x) \in DOMAIN k /\ Alias(h, x) \notin h.coalesced
                            /\ (x \notin h.coalesced => Alias(h, x) = x)
  BY AliasFacts
<1>2. \A x \in DOMAIN k : h.adj[x] \subseteq DOMAIN k BY ShapeFacts
<1>3. v \notin h.adj[w] /\ w \notin h.adj[w] BY DEF Symmetric
<1>4. v \notin h.select /\ w \notin h.select /\ v \notin h.coalesced /\ w \notin h.coalesced BY DEF Gone
<1>5. \A t \in h.adj[w] : t \notin h.select /\ t \notin h.coalesced => t \in Adjacent(h, w) BY DEF Adjacent
<1>6. \A t \in Adjacent(h, w) : t \in DOMAIN k /\ t \in r.adj[v]
  <2> TAKE t \in Adjacent(h, w)
  <2>1. t \in DOMAIN k /\ v \in r.adj[t] BY <1>2 DEF Adjacent
  <2> QED BY <2>1 DEF Symmetric
<1>7. \A j \in DOMAIN h.stack : h.stack[j] \in h.select BY DEF Stacked, ToSet
<1> SUFFICES ASSUME NEW x \in DOMAIN k, NEW y \in r.adj[x] PROVE Left(r, Alias(r, x), Alias(r, y))
  BY DEF Kept
<1>8. CASE y \in h.adj[x]
  <2> PICK p : p = Alias(h, x) OBVIOUS
  <2> PICK q : q = Alias(h, y) OBVIOUS
  <2>1. y \in DOMAIN k BY <1>2, <1>8
  <2>2. p \in DOMAIN k /\ q \in DOMAIN k /\ p \notin h.coalesced /\ q \notin h.coalesced BY <1>1, <2>1
  <2>3. Alias(r, x) = (IF p = w THEN v ELSE p) /\ Alias(r, y) = (IF q = w THEN v ELSE q) BY <2>1
  <2>4. /\ p # q
        /\ p \notin h.select /\ q \notin h.select => q \in h.adj[p]
        /\ p \in h.select /\ q \notin h.select => Sees(h, p, q)
        /\ \A i, j \in DOMAIN h.stack : i < j /\ h.stack[j] = p /\ h.stack[i] = q => Sees(h, p, q)
    BY <1>8 DEF Kept, Left
  <2>5. \A s : Sees(h, p, s) => Sees(r, p, IF s = w THEN v ELSE s)
    <3> SUFFICES ASSUME NEW s, Sees(h, p, s) PROVE Sees(r, p, IF s = w THEN v ELSE s) OBVIOUS
    <3>1. PICK z \in h.adj[p] : Alias(h, z) = s BY DEF Sees
    <3>2. z \in r.adj[p] /\ z \in DOMAIN k BY <1>2, <2>2
    <3>3. Alias(r, z) = IF s = w THEN v ELSE s BY <3>1, <3>2
    <3> QED BY <3>2, <3>3 DEF Sees
  <2>6. CASE p # w /\ q # w
    <3>1. Alias(r, x) = p /\ Alias(r, y) = q BY <2>3, <2>6
    <3>2. Sees(h, p, q) => Sees(r, p, q) BY <2>5, <2>6
    <3>3. q \in h.adj[p] => q \in r.adj[p] BY <2>2
    <3> QED BY <3>1, <3>2, <3>3, <2>4 DEF Left
  <2>7. CASE p = w
    <3>1. q # w /\ q # v
      <4>1. v \notin h.adj[w] BY <1>3
      <4> QED BY <4>1, <2>4, <2>7, <1>4
    <3>2. Alias(r, x) = v /\ Alias(r, y) = q BY <2>3, <2>7, <3>1
    <3>3. q \notin h.select => q \in r.adj[v]
      <4> SUFFICES ASSUME q \notin h.select PROVE q \in r.adj[v] OBVIOUS
      <4>1. q \in h.adj[w] BY <2>4, <2>7, <1>4
      <4> QED BY <4>1, <1>5, <1>6, <2>2
    <3> QED BY <3>1, <3>2, <3>3, <1>4, <1>7 DEF Left
  <2>8. CASE q = w
    <3>1. p # w BY <2>4, <2>8
    <3>2. p # v BY <2>4, <2>8, <1>4
    <3>3. Alias(r, x) = p /\ Alias(r, y) = v BY <2>3, <2>8, <3>1
    <3>4. p \notin h.select => v \in r.adj[p]
      <4> SUFFICES ASSUME p \notin h.select PROVE v \in r.adj[p] OBVIOUS
      <4>1. w \in h.adj[p] BY <2>4, <2>8, <1>4
      <4>2. p \in h.adj[w] BY <4>1, <2>2 DEF Symmetric
      <4> QED BY <4>2, <1>5, <2>2
    <3>5. p \in h.select => Sees(r, p, v) BY <2>4, <2>5, <2>8, <1>4
    <3> QED BY <3>2, <3>3, <3>4, <3>5, <1>4, <1>7 DEF Left
  <2> QED BY <2>6, <2>7, <2>8
<1>9. CASE y \notin h.adj[x]
  <2>1. (x = v /\ y \in Adjacent(h, w)) \/ (y = v /\ x \in Adjacent(h, w)) BY <1>9
  <2>2. \A t \in Adjacent(h, w) : t \in DOMAIN k /\ t \notin h.select /\ t \notin h.coalesced
                                     /\ t # v /\ t # w
    BY <1>2, <1>3 DEF Adjacent
  <2>3. Alias(r, x) = x /\ Alias(r, y) = y BY <2>1, <2>2, <1>1, <1>4
  <2>4. x # y /\ x \notin h.select /\ y \notin h.select BY <2>1, <2>2, <1>4
  <2> QED BY <2>3, <2>4, <1>7 DEF Left
<1> QED BY <1>8, <1>9

-----------------------------------------------------------------------------
\* The graph while it is taken apart.

\* The two sides of a move are registers of one class, and a hard one is one that may be
\* given out (is_move).
LEMMA MovesFacts ==
  ASSUME NEW k, NEW c, Program(c, k)
  PROVE  \A m \in Moves(c) :
           /\ m.src \in DOMAIN k /\ m.dst \in DOMAIN k /\ k[m.src] = k[m.dst]
           /\ m.src \in Hard => m.src \in Available[k[m.src]]
           /\ m.dst \in Hard => m.dst \in Available[k[m.dst]]
<1> SUFFICES ASSUME NEW m \in Moves(c)
             PROVE  /\ m.src \in DOMAIN k /\ m.dst \in DOMAIN k /\ k[m.src] = k[m.dst]
                    /\ m.src \in Hard => m.src \in Available[k[m.src]]
                    /\ m.dst \in Hard => m.dst \in Available[k[m.dst]]
  OBVIOUS
<1>1. PICK b \in Block : m \in {[uid |-> FirstUid(c, b) + i, dst |-> c[b][i].ops[1].reg,
                     src |-> c[b][i].ops[2].reg] :
                    i \in {j \in DOMAIN c[b] : c[b][j].kind = "move"}}
  BY DEF Moves
<1>2. PICK i \in DOMAIN c[b] : c[b][i].kind = "move" /\
            m = [uid |-> FirstUid(c, b) + i, dst |-> c[b][i].ops[1].reg, src |-> c[b][i].ops[2].reg]
  BY <1>1
<1> PICK insn : insn = c[b][i] OBVIOUS
<1>3. insn.kind = "move" /\ m.dst = insn.ops[1].reg /\ m.src = insn.ops[2].reg BY <1>2
<1>4. WellFormed(insn, k) /\ insn \in Insn BY DEF Program
<1>5. DOMAIN insn.ops = 1..Len(insn.ops) BY <1>4 DEF Insn
<1>6. /\ Len(insn.ops) = 2 /\ k[insn.ops[1].reg] = k[insn.ops[2].reg]
      /\ \A o \in DOMAIN insn.ops : insn.ops[o].reg \in DOMAIN k
      /\ \A o \in 1..2 : insn.ops[o].reg \in Hard => insn.ops[o].reg \in Available[k[insn.ops[o].reg]]
  BY <1>3, <1>4 DEF WellFormed
<1>7. 1 \in 1..2 /\ 2 \in 1..2 OBVIOUS
<1> QED BY <1>3, <1>5, <1>6, <1>7

\* The graph while it is taken apart; the nodes of E may be frozen with no move left.
Graph(k, c, h, E) ==
  /\ Shape(k, c, h) /\ Symmetric(k, h) /\ Stacked(h) /\ Ranked(k, h)
  /\ h.active \cap h.worklist = {} /\ h.spilled = {} /\ Uncoloured(k, h)
  /\ Apart(k, h) /\ Levels(k, h, {}) /\ Related(h, E) /\ Owing(k, h, {}, 0)
  /\ Owned(k, h) /\ SameClass(k, h) /\ Covers(k, c, h) /\ Kept(k, h)

\* Moving nodes between lists is one of the changes Rests allows.
LEMMA UntouchedRests ==
  ASSUME NEW h, NEW r, Untouched(h, r)
  PROVE  Rests(h, r) /\ r.active = h.active /\ r.worklist = h.worklist
BY DEF Untouched, Fixed, SameArcs, Rests

\* add_worklist keeps the graph in order, and frees v from being frozen without a move.
LEMMA AddWorklistGraph ==
  ASSUME NEW h, NEW v \in Reg, NEW E, NEW r, Numbered(class), Graph(class, code, h, E),
         v \notin Gone(h), r = AddWorklist(h, v)
  PROVE  Graph(class, code, r, E \ {v}) /\ Gone(r) = Gone(h)
<1>1. /\ Shape(class, code, r) /\ Untouched(h, r)
      /\ Apart(class, r) /\ Levels(class, r, {}) /\ Related(r, E \ {v})
  BY AddWorklistEffect DEF Graph
<1>2. Rests(h, r) /\ r.active = h.active /\ r.worklist = h.worklist BY <1>1, UntouchedRests
<1>3. Symmetric(class, r) /\ Stacked(r) /\ Ranked(class, r) /\ Uncoloured(class, r) /\ Owned(class, r)
      /\ SameClass(class, r) /\ Covers(class, code, r) /\ Kept(class, r)
  BY <1>2, RestsKeep DEF Graph
<1>4. Gone(r) = Gone(h) /\ Owing(class, r, {}, 0) BY <1>1, UntouchedKeeps DEF Graph
<1>5. r.active \cap r.worklist = {} /\ r.spilled = {} BY <1>2 DEF Graph, Rests
<1> QED BY <1>1, <1>3, <1>4, <1>5 DEF Graph

\* combine keeps the graph in order.
LEMMA CombineGraph ==
  ASSUME NEW h, NEW v \in Reg, NEW w \in Reg, NEW r, Numbered(class), Program(code, class),
         Graph(class, code, h, {v, w}), v # w, w \notin Hard, w \notin Gone(h), w \notin h.simplify,
         v \notin Gone(h), v \notin h.simplify, w \notin h.adj[v],
         class[v] = class[w], v \in Hard => v \in Available[class[w]], r = Combine(h, v, w)
  PROVE  Graph(class, code, r, {v}) /\ v \notin Gone(r)
<1> USE DEF Reg
<1>0. /\ Shape(class, code, h) /\ Symmetric(class, h) /\ Stacked(h) /\ Ranked(class, h)
      /\ h.active \cap h.worklist = {} /\ h.spilled = {} /\ Uncoloured(class, h)
      /\ Apart(class, h) /\ Levels(class, h, {}) /\ Related(h, {v, w}) /\ Owing(class, h, {}, 0)
      /\ Owned(class, h) /\ SameClass(class, h) /\ Covers(class, code, h) /\ Kept(class, h)
  BY DEF Graph
<1>1. /\ Shape(class, code, r) /\ Combined(h, r, v, w) /\ Symmetric(class, r) /\ Apart(class, r)
      /\ Levels(class, r, {}) /\ Related(r, {v}) /\ Owing(class, r, {}, 0)
  BY <1>0, CombineEffect
<1>2. v \notin h.coalesced /\ w \notin h.coalesced BY DEF Gone
<1>3. r.coalesced = h.coalesced \cup {w} /\ r.alias = [h.alias EXCEPT ![w] = v]
      /\ r.moves = [h.moves EXCEPT ![v] = @ \cup h.moves[w]]
      /\ r.select = h.select /\ r.stack = h.stack /\ r.hardNum = h.hardNum /\ r.spilled = h.spilled
      /\ SameMoves(h, r)
  BY <1>1 DEF Combined
<1>4. /\ Ranked(class, r)
      /\ \A x \in DOMAIN class : Alias(r, x) = IF Alias(h, x) = w THEN v ELSE Alias(h, x)
  BY <1>0, <1>1, <1>2, <1>3, AliasJoined
<1>5. \A x \in DOMAIN class : Alias(h, x) \in DOMAIN class BY <1>0, AliasFacts
<1>6. Owned(class, r)
  <2>1. \A m \in h.active \cup h.worklist : m.src \in DOMAIN class /\ m.dst \in DOMAIN class
    <3>1. h.active \subseteq Moves(code) /\ h.worklist \subseteq Moves(code) BY <1>0, ShapeFacts
    <3> QED BY <3>1, MovesFacts
  <2>2. r.active \cup r.worklist \subseteq h.active \cup h.worklist BY <1>3 DEF SameMoves
  <2> QED BY <1>0, <1>2, <1>3, <1>4, <1>5, <2>1, <2>2, JoinedOwned
<1>7. SameClass(class, r)
  <2> SUFFICES ASSUME NEW x \in DOMAIN class
               PROVE  /\ class[Alias(r, x)] = class[x]
                      /\ Alias(r, x) \in Hard => x \in Hard \/ Alias(r, x) \in Available[class[x]]
    BY DEF SameClass
  <2>1. /\ class[Alias(h, x)] = class[x]
        /\ Alias(h, x) \in Hard => x \in Hard \/ Alias(h, x) \in Available[class[x]]
    BY <1>0 DEF SameClass
  <2>2. CASE Alias(h, x) = w
    <3>1. Alias(r, x) = v BY <1>4, <2>2
    <3> QED BY <3>1, <2>1, <2>2
  <2>3. CASE Alias(h, x) # w
    <3>1. Alias(r, x) = Alias(h, x) BY <1>4, <2>3
    <3> QED BY <3>1, <2>1
  <2> QED BY <2>2, <2>3
<1>8. /\ \A x \in Reg : h.adj[x] \subseteq r.adj[x]
      /\ \A x \in Reg : \A y \in r.adj[x] :
           y \in h.adj[x] \/ (x = v /\ y \in Adjacent(h, w)) \/ (y = v /\ x \in Adjacent(h, w))
      /\ \A t \in Adjacent(h, w) : v \in r.adj[t]
  BY <1>1 DEF Combined
<1>9. Kept(class, r)
  BY ONLY v \in Reg, w \in Reg, v # w, w \notin Gone(h), v \notin Gone(h), w \notin h.adj[v],
     <1>0, <1>1, <1>3, <1>4, <1>8, JoinedKept
<1>10. Covers(class, code, r)
  <2> SUFFICES ASSUME NEW a \in Arcs(code) PROVE a[1] \in Reg /\ a[2] \in r.adj[a[1]] BY DEF Covers
  <2>1. a[1] \in Reg /\ a[2] \in h.adj[a[1]] BY <1>0 DEF Covers
  <2> QED BY <2>1, <1>8
<1>11. r.active \cap r.worklist = {} BY <1>0, <1>3 DEF SameMoves
<1>12. Stacked(r) /\ Uncoloured(class, r) /\ r.spilled = {} BY <1>0, <1>3 DEF Stacked, Uncoloured
<1>13. v \notin Gone(r) BY <1>3 DEF Gone
<1> QED BY <1>1, <1>4, <1>6, <1>7, <1>9, <1>10, <1>11, <1>12, <1>13 DEF Graph

\* simplify keeps the graph in order.
LEMMA SimplifyGraph ==
  ASSUME NEW h, NEW v \in h.simplify, NEW r, Numbered(class), Graph(class, code, h, {}),
         r = LowerNeighbours(Pushed(h, v), v)
  PROVE  Graph(class, code, r, {})
<1> USE DEF Reg
<1>0. /\ Shape(class, code, h) /\ Symmetric(class, h) /\ Stacked(h) /\ Ranked(class, h)
      /\ h.active \cap h.worklist = {} /\ h.spilled = {} /\ Uncoloured(class, h)
      /\ Apart(class, h) /\ Levels(class, h, {}) /\ Related(h, {}) /\ Owing(class, h, {}, 0)
      /\ Owned(class, h) /\ SameClass(class, h) /\ Covers(class, code, h) /\ Kept(class, h)
  BY DEF Graph
<1> PICK f : f = Pushed(h, v) OBVIOUS
<1>1. /\ Shape(class, code, f) /\ SameArcs(h, f) /\ f.active = h.active /\ f.worklist = h.worklist
      /\ f.moves = h.moves /\ f.alias = h.alias /\ f.hardNum = h.hardNum
      /\ f.coalesced = h.coalesced /\ f.spilled = h.spilled /\ f.temps = h.temps
      /\ f.select = h.select \cup {v} /\ f.stack = <<v>> \o h.stack
      /\ Stacked(f) /\ Listed(class, f, {}) /\ Owing(class, f, Adjacent(f, v), 0)
  <2>1. Listed(class, h, {}) BY <1>0 DEF Listed
  <2> HIDE DEF Reg
  <2> QED BY <1>0, <2>1, SimplifyMarks
<1>2. v \in Reg /\ v \notin Gone(h) BY <1>0, ShapeFacts DEF Apart
<1>3. f.adj = h.adj BY <1>1 DEF SameArcs
<1>4. Kept(class, f)
  BY ONLY <1>0, <1>1, <1>2, <1>3, PushKeeps DEF Reg
<1> PICK V : V = Adjacent(f, v) OBVIOUS
<1>5. V \subseteq Reg /\ V \cap Gone(f) = {}
  <2>1. h.adj[v] \subseteq Reg BY <1>0, <1>2, ShapeFacts
  <2> QED BY <2>1, <1>3 DEF Adjacent, Gone
<1>6. Onward(f, r) /\ r.adj = f.adj /\ Listed(class, r, {}) /\ Owing(class, r, {}, 0)
  <2>1. r = LowerNeighbours(f, v) OBVIOUS
  <2> QED BY ONLY Numbered(class), V = Adjacent(f, v), <1>1, <1>5, <2>1, DecrementAll
<1>7. /\ Shape(class, code, r) /\ r.active \cup r.worklist = f.active \cup f.worklist
      /\ r.active \cap r.worklist = {}
  BY <1>0, <1>1, <1>6 DEF Onward, SameMoves
<1>8. Rests(f, r) BY <1>6 DEF Onward, Fixed, Rests
<1>9. \A x : Alias(f, x) = Alias(h, x) BY <1>1, SameAliases
<1>10. Symmetric(class, f) BY <1>0, <1>3 DEF Symmetric
<1>11. Ranked(class, f) BY <1>0, <1>1 DEF Ranked
<1>12. SameClass(class, f) BY <1>0, <1>9 DEF SameClass
<1>13. Covers(class, code, f) BY <1>0, <1>3 DEF Covers
<1>14. Owned(class, f)
  <2>1. /\ f.active = h.active /\ f.worklist = h.worklist /\ f.moves = h.moves
        /\ f.coalesced = h.coalesced
    BY <1>1
  <2> QED BY ONLY <2>1, <1>0, <1>9 DEF Owned
<1>15. Uncoloured(class, f) BY <1>0, <1>1 DEF Uncoloured
<1>16. /\ Symmetric(class, r) /\ Stacked(r) /\ Ranked(class, r) /\ SameClass(class, r)
       /\ Covers(class, code, r) /\ Kept(class, r) /\ Uncoloured(class, r) /\ Owned(class, r)
  BY ONLY <1>1, <1>4, <1>7, <1>8, <1>10, <1>11, <1>12, <1>13, <1>14, <1>15, RestsKeep
<1>17. r.spilled = {} BY <1>0, <1>1, <1>8 DEF Rests
<1> QED BY <1>6, <1>7, <1>16, <1>17 DEF Graph, Listed

\* The ends of a move in the worklist.
LEMMA MoveEnds ==
  ASSUME NEW h, NEW m \in h.active \cup h.worklist, NEW a, NEW b, Numbered(class), Program(code, class),
         Graph(class, code, h, {}), a = Alias(h, m.src), b = Alias(h, m.dst)
  PROVE  /\ a \in Reg /\ b \in Reg /\ a \notin Gone(h) \cup h.simplify /\ b \notin Gone(h) \cup h.simplify
         /\ class[a] = class[b]
         /\ a \in Hard => a \in Available[class[b]]
         /\ b \in Hard => b \in Available[class[a]]
         /\ \A x \in Reg \ h.coalesced : m \in h.moves[x] => x \in {a, b}
         /\ m \in h.moves[a] /\ m \in h.moves[b]
<1> USE DEF Reg
<1>0. /\ Shape(class, code, h) /\ Ranked(class, h) /\ Apart(class, h) /\ Related(h, {})
      /\ Owned(class, h) /\ SameClass(class, h)
  BY DEF Graph
<1>1. m \in Moves(code)
  <2>1. h.active \subseteq Moves(code) /\ h.worklist \subseteq Moves(code) BY <1>0, ShapeFacts
  <2> QED BY <2>1
<1>2. /\ m.src \in Reg /\ m.dst \in Reg /\ class[m.src] = class[m.dst]
      /\ m.src \in Hard => m.src \in Available[class[m.src]]
      /\ m.dst \in Hard => m.dst \in Available[class[m.dst]]
  BY <1>1, MovesFacts
<1>3. /\ a \in Reg /\ b \in Reg /\ a \notin h.coalesced /\ b \notin h.coalesced
      /\ m.src \notin h.coalesced => a = m.src
      /\ m.dst \notin h.coalesced => b = m.dst
  BY <1>0, <1>2, AliasFacts
<1>4. /\ m \in h.moves[a] /\ m \in h.moves[b]
      /\ \A x \in Reg \ h.coalesced : m \in h.moves[x] => x \in {a, b}
  BY <1>0 DEF Owned
<1>5. MoveRelated(h, a) /\ MoveRelated(h, b) BY <1>4 DEF MoveRelated, NodeMoves
<1>6. a \notin h.simplify \cup h.select /\ b \notin h.simplify \cup h.select
  BY <1>0, <1>5 DEF Related
<1>7. /\ class[a] = class[m.src] /\ class[b] = class[m.dst]
      /\ a \in Hard => m.src \in Hard \/ a \in Available[class[m.src]]
      /\ b \in Hard => m.dst \in Hard \/ b \in Available[class[m.dst]]
  BY <1>0, <1>2 DEF SameClass
<1>8. \A x \in Hard : x \notin h.coalesced BY <1>0 DEF Apart
<1>9. a \in Hard => a \in Available[class[b]]
  BY <1>2, <1>3, <1>7, <1>8
<1>10. b \in Hard => b \in Available[class[a]]
  BY <1>2, <1>3, <1>7, <1>8
<1> QED BY <1>2, <1>3, <1>4, <1>6, <1>7, <1>9, <1>10 DEF Gone

\* A move leaves the worklist: only its ends may be frozen with no move left.
LEMMA MoveTaken ==
  ASSUME NEW h, NEW m \in h.worklist, NEW a, NEW b, NEW r, Numbered(class), Program(code, class),
         Graph(class, code, h, {}), a = Alias(h, m.src), b = Alias(h, m.dst),
         Shape(class, code, r), Rests(h, r),
         r.simplify = h.simplify, r.freeze = h.freeze, r.spill = h.spill, r.degree = h.degree,
         r.worklist = h.worklist \ {m}, r.active = h.active
  PROVE  Graph(class, code, r, {a, b}) /\ Gone(r) = Gone(h)
<1> USE DEF Reg
<1>0. /\ Shape(class, code, h) /\ Symmetric(class, h) /\ Stacked(h) /\ Ranked(class, h)
      /\ h.active \cap h.worklist = {} /\ h.spilled = {} /\ Uncoloured(class, h)
      /\ Apart(class, h) /\ Levels(class, h, {}) /\ Related(h, {}) /\ Owing(class, h, {}, 0)
      /\ Owned(class, h) /\ SameClass(class, h) /\ Covers(class, code, h) /\ Kept(class, h)
  BY DEF Graph
<1>1. \A x \in Reg \ h.coalesced : m \in h.moves[x] => x \in {a, b} BY MoveEnds
<1>2. r.active \cup r.worklist \subseteq h.active \cup h.worklist OBVIOUS
<1>3. /\ Symmetric(class, r) /\ Stacked(r) /\ Ranked(class, r) /\ SameClass(class, r)
      /\ Covers(class, code, r) /\ Kept(class, r) /\ Uncoloured(class, r) /\ Owned(class, r)
  BY ONLY Rests(h, r), <1>0, <1>2, RestsKeep
<1>4. Gone(r) = Gone(h) /\ r.select = h.select /\ r.coalesced = h.coalesced
      /\ r.adj = h.adj /\ r.moves = h.moves /\ r.spilled = h.spilled
  BY DEF Gone, Rests
<1>5. Apart(class, r) BY <1>0, <1>4 DEF Apart
<1>6. Levels(class, r, {}) BY <1>0 DEF Levels
<1>7. Owing(class, r, {}, 0)
  <2>1. \A x : Adjacent(r, x) = Adjacent(h, x) BY <1>4 DEF Adjacent
  <2> QED BY <2>1, <1>0, <1>4 DEF Owing
<1>8. \A x : MoveRelated(r, x) => MoveRelated(h, x) BY <1>4 DEF MoveRelated, NodeMoves
<1>9. \A x \in Reg \ h.coalesced : x \notin {a, b} /\ MoveRelated(h, x) => MoveRelated(r, x)
  BY <1>1, <1>4 DEF MoveRelated, NodeMoves
<1>10. Related(r, {a, b})
  <2>1. \A x \in r.freeze \ (Hard \cup {a, b}) : MoveRelated(r, x)
    <3> TAKE x \in r.freeze \ (Hard \cup {a, b})
    <3>1. x \in Reg /\ x \notin h.coalesced BY <1>0, ShapeFacts DEF Apart, Gone
    <3>2. MoveRelated(h, x) BY <1>0 DEF Related
    <3> QED BY <3>1, <3>2, <1>9
  <2> QED BY <2>1, <1>0, <1>4, <1>8 DEF Related
<1>11. r.active \cap r.worklist = {} BY <1>0
<1> QED BY <1>0, <1>3, <1>4, <1>5, <1>6, <1>7, <1>10, <1>11 DEF Graph

-----------------------------------------------------------------------------
\* coalesce.

\* m goes from the worklist to one of the other lists of moves.
TakesMove(h, r, m) ==
  /\ Rests(h, r) /\ r.degree = h.degree
  /\ r.simplify = h.simplify /\ r.freeze = h.freeze /\ r.spill = h.spill
  /\ r.worklist = h.worklist \ {m}
Joining(h, m) == [[h EXCEPT !.worklist = @ \ {m}] EXCEPT !.joined = @ \cup {m}]
Constraining(h, m) == [[h EXCEPT !.worklist = @ \ {m}] EXCEPT !.constrained = @ \cup {m}]
Waiting(h, m) == [[h EXCEPT !.worklist = @ \ {m}] EXCEPT !.active = @ \cup {m}]

\* The three ways a move leaves the worklist.
LEMMA TakesMoveType ==
  ASSUME NEW k, NEW c, NEW h, NEW m \in h.worklist, NEW r, Shape(k, c, h),
         r \in {Joining(h, m), Constraining(h, m), Waiting(h, m)}
  PROVE  /\ Shape(k, c, r) /\ TakesMove(h, r, m)
         /\ r \in {Joining(h, m), Constraining(h, m)} => r.active = h.active
         /\ r = Waiting(h, m) => r.active = h.active \cup {m}
<1> PICK W : W = h.worklist \ {m} OBVIOUS
<1>1. W \subseteq Moves(c) /\ m \in Moves(c) BY ShapeFacts
<1>2. CASE r = Joining(h, m)
  <2> PICK J : J = h.joined \cup {m} OBVIOUS
  <2>1. J \subseteq Moves(c) BY <1>1 DEF Shape, Records
  <2>2. r = [h EXCEPT !.worklist = W, !.joined = J] BY <1>2 DEF Joining, Shape, Records
  <2>3. Shape(k, c, r) /\ TakesMove(h, r, m) /\ r.active = h.active
    BY ONLY <1>1, <2>1, <2>2, Shape(k, c, h), W = h.worklist \ {m} DEF Shape, Records, TakesMove, Rests
  <2>4. r.active = h.active \cup {m} \/ r # Waiting(h, m)
    <3>1. Waiting(h, m).worklist = h.worklist \ {m} /\ Waiting(h, m).active = h.active \cup {m}
      BY DEF Waiting, Shape, Records
    <3> QED BY <3>1
  <2> QED BY <2>3, <2>4
<1>3. CASE r = Constraining(h, m)
  <2> PICK J : J = h.constrained \cup {m} OBVIOUS
  <2>1. J \subseteq Moves(c) BY <1>1 DEF Shape, Records
  <2>2. r = [h EXCEPT !.worklist = W, !.constrained = J] BY <1>3 DEF Constraining, Shape, Records
  <2>3. Shape(k, c, r) /\ TakesMove(h, r, m) /\ r.active = h.active
    BY ONLY <1>1, <2>1, <2>2, Shape(k, c, h), W = h.worklist \ {m} DEF Shape, Records, TakesMove, Rests
  <2>4. r.active = h.active \cup {m} \/ r # Waiting(h, m)
    <3>1. Waiting(h, m).worklist = h.worklist \ {m} /\ Waiting(h, m).active = h.active \cup {m}
      BY DEF Waiting, Shape, Records
    <3> QED BY <3>1
  <2> QED BY <2>3, <2>4
<1>4. CASE r = Waiting(h, m)
  <2> PICK J : J = h.active \cup {m} OBVIOUS
  <2>1. J \subseteq Moves(c) BY <1>1, ShapeFacts
  <2>2. r = [h EXCEPT !.worklist = W, !.active = J] BY <1>4 DEF Waiting, Shape, Records
  <2>3. Shape(k, c, r) /\ TakesMove(h, r, m) /\ r.active = J
    BY ONLY <1>1, <2>1, <2>2, Shape(k, c, h), W = h.worklist \ {m} DEF Shape, Records, TakesMove, Rests
  <2>4. r \in {Joining(h, m), Constraining(h, m)} => r.active = h.active
    BY DEF Joining, Constraining, Shape, Records
  <2> QED BY <2>3, <2>4
<1> QED BY <1>2, <1>3, <1>4

\* A move that can not be coalesced yet waits in active: the graph stays in order.
LEMMA WaitingGraph ==
  ASSUME NEW h, NEW m \in h.worklist, NEW r, Graph(class, code, h, {}),
         Shape(class, code, r), TakesMove(h, r, m), r.active = h.active \cup {m}
  PROVE  Graph(class, code, r, {})
<1>0. /\ Shape(class, code, h) /\ Symmetric(class, h) /\ Stacked(h) /\ Ranked(class, h)
      /\ h.active \cap h.worklist = {} /\ h.spilled = {} /\ Uncoloured(class, h)
      /\ Apart(class, h) /\ Levels(class, h, {}) /\ Related(h, {}) /\ Owing(class, h, {}, 0)
      /\ Owned(class, h) /\ SameClass(class, h) /\ Covers(class, code, h) /\ Kept(class, h)
  BY DEF Graph
<1>1. /\ Rests(h, r) /\ r.degree = h.degree /\ r.worklist = h.worklist \ {m}
      /\ r.simplify = h.simplify /\ r.freeze = h.freeze /\ r.spill = h.spill
  BY DEF TakesMove
<1>2. r.active \cup r.worklist = h.active \cup h.worklist /\ r.active \cap r.worklist = {} BY <1>0, <1>1
<1>3. /\ Symmetric(class, r) /\ Stacked(r) /\ Ranked(class, r) /\ SameClass(class, r)
      /\ Covers(class, code, r) /\ Kept(class, r) /\ Uncoloured(class, r) /\ Owned(class, r)
  BY ONLY <1>0, <1>1, <1>2, RestsKeep
<1>4. Gone(r) = Gone(h) /\ r.select = h.select /\ r.coalesced = h.coalesced
      /\ r.adj = h.adj /\ r.moves = h.moves /\ r.spilled = h.spilled
  BY <1>1 DEF Gone, Rests
<1>5. Apart(class, r) BY <1>0, <1>1, <1>4 DEF Apart
<1>6. Levels(class, r, {}) BY <1>0, <1>1 DEF Levels
<1>7. Owing(class, r, {}, 0)
  <2>1. \A x : Adjacent(r, x) = Adjacent(h, x) BY <1>4 DEF Adjacent
  <2> QED BY <2>1, <1>0, <1>1, <1>4 DEF Owing
<1>8. \A x : MoveRelated(r, x) = MoveRelated(h, x) BY ONLY <1>2, <1>4, SameNodeMoves
<1>9. Related(r, {}) BY <1>0, <1>1, <1>4, <1>8 DEF Related
<1> QED BY <1>0, <1>2, <1>3, <1>4, <1>5, <1>6, <1>7, <1>9 DEF Graph

\* coalesce keeps the graph in order, in each of its four cases.
LEMMA CoalesceGraph ==
  ASSUME NEW h, NEW m \in h.worklist, NEW a, NEW b, NEW dst, NEW src, NEW r,
         Numbered(class), Program(code, class), Graph(class, code, h, {}), h.simplify = {},
         a = Alias(h, m.src), b = Alias(h, m.dst),
         dst = (IF a \in Hard THEN a ELSE b), src = (IF a \in Hard THEN b ELSE a),
         \/ src = dst /\ r = AddWorklist(Joining(h, m), dst)
         \/ r = AddWorklist(AddWorklist(Constraining(h, m), dst), src)
         \/ /\ src # dst /\ src \notin Hard /\ dst \notin h.adj[src]
            /\ r = AddWorklist(Combine(Joining(h, m), dst, src), dst)
         \/ r = Waiting(h, m)
  PROVE  Graph(class, code, r, {})
<1>0. Shape(class, code, h) /\ Symmetric(class, h) BY DEF Graph
<1>1. /\ a \in Reg /\ b \in Reg /\ a \notin Gone(h) \cup h.simplify /\ b \notin Gone(h) \cup h.simplify
      /\ class[a] = class[b]
      /\ a \in Hard => a \in Available[class[b]]
      /\ b \in Hard => b \in Available[class[a]]
  BY MoveEnds
<1>2. /\ dst \in Reg /\ src \in Reg /\ dst \notin Gone(h) /\ src \notin Gone(h) /\ {a, b} = {dst, src}
      /\ class[dst] = class[src]
      /\ dst \in Hard => dst \in Available[class[src]]
  BY <1>1
<1>3. CASE src = dst /\ r = AddWorklist(Joining(h, m), dst)
  <2> PICK f : f = Joining(h, m) OBVIOUS
  <2>1. Shape(class, code, f) /\ TakesMove(h, f, m) /\ f.active = h.active BY <1>0, TakesMoveType
  <2>2. Graph(class, code, f, {a, b}) /\ Gone(f) = Gone(h) BY <2>1, MoveTaken DEF TakesMove
  <2>3. Graph(class, code, r, {a, b} \ {dst})
    BY <1>2, <1>3, <2>2, AddWorklistGraph
  <2>4. {a, b} \ {dst} = {} BY <1>2, <1>3
  <2> QED BY <2>3, <2>4
<1>4. CASE r = AddWorklist(AddWorklist(Constraining(h, m), dst), src)
  <2> PICK f : f = Constraining(h, m) OBVIOUS
  <2> PICK e : e = AddWorklist(f, dst) OBVIOUS
  <2>1. Shape(class, code, f) /\ TakesMove(h, f, m) /\ f.active = h.active BY <1>0, TakesMoveType
  <2>2. Graph(class, code, f, {a, b}) /\ Gone(f) = Gone(h) BY <2>1, MoveTaken DEF TakesMove
  <2>3. Graph(class, code, e, {a, b} \ {dst}) /\ Gone(e) = Gone(h)
    BY <1>2, <2>2, AddWorklistGraph
  <2>4. Graph(class, code, r, ({a, b} \ {dst}) \ {src})
    BY <1>2, <1>4, <2>3, AddWorklistGraph
  <2>5. ({a, b} \ {dst}) \ {src} = {} BY <1>2
  <2> QED BY <2>4, <2>5
<1>5. CASE /\ src # dst /\ src \notin Hard /\ dst \notin h.adj[src]
           /\ r = AddWorklist(Combine(Joining(h, m), dst, src), dst)
  <2> PICK f : f = Joining(h, m) OBVIOUS
  <2> PICK e : e = Combine(f, dst, src) OBVIOUS
  <2>1. Shape(class, code, f) /\ TakesMove(h, f, m) /\ f.active = h.active BY <1>0, TakesMoveType
  <2>2. Graph(class, code, f, {dst, src}) /\ Gone(f) = Gone(h)
    <3>1. Graph(class, code, f, {a, b}) /\ Gone(f) = Gone(h) BY <2>1, MoveTaken DEF TakesMove
    <3> QED BY <3>1, <1>2
  <2>3. f.simplify = {} /\ f.adj = h.adj BY <2>1 DEF TakesMove, Rests
  <2>4. src \notin h.adj[dst] BY <1>0, <1>2, <1>5 DEF Symmetric, Reg
  <2>5. Graph(class, code, e, {dst}) /\ dst \notin Gone(e)
    <3>1. src # dst /\ src \notin Hard BY <1>5
    <3>2. dst \notin Gone(f) /\ src \notin Gone(f) /\ dst \notin f.simplify /\ src \notin f.simplify
          /\ src \notin f.adj[dst]
      BY <1>2, <2>2, <2>3, <2>4
    <3>3. dst \in Reg /\ src \in Reg BY <1>2
    <3>4. class[dst] = class[src] BY ONLY <1>2
    <3>5. dst \in Hard => dst \in Available[class[src]] BY ONLY <1>2
    <3>6. Graph(class, code, f, {dst, src}) BY <2>2
    <3> QED BY ONLY Numbered(class), Program(code, class), e = Combine(f, dst, src),
                    <3>1, <3>2, <3>3, <3>4, <3>5, <3>6, CombineGraph
  <2>6. Graph(class, code, r, {dst} \ {dst})
    BY <1>2, <1>5, <2>5, AddWorklistGraph
  <2>7. {dst} \ {dst} = {} OBVIOUS
  <2> QED BY <2>6, <2>7
<1>6. CASE r = Waiting(h, m)
  <2>0. Shape(class, code, h) BY <1>0
  <2>1. Shape(class, code, r) /\ TakesMove(h, r, m) /\ r.active = h.active \cup {m}
    BY ONLY <2>0, <1>6, m \in h.worklist, TakesMoveType
  <2> QED BY <2>1, WaitingGraph
<1> QED BY <1>3, <1>4, <1>5, <1>6

-----------------------------------------------------------------------------
\* The numbers of moves.

\* The instructions of the first n blocks.
Before(c) == CHOOSE z : z = [n \in 0..Len(Blocks) |->
  IF n = 0 THEN 0 ELSE z[n - 1] + Len(c[Blocks[n]])]

\* number_instructions counts block by block.
LEMMA BeforeFacts ==
  ASSUME NEW c, NEW k, Program(c, k)
  PROVE  /\ Len(Blocks) \in Nat /\ Before(c)[0] = 0
         /\ \A n \in 0..Len(Blocks) : Before(c)[n] \in Nat
         /\ \A n \in 1..Len(Blocks) : Before(c)[n] = Before(c)[n - 1] + Len(c[Blocks[n]])
<1> PICK N : N = Len(Blocks) OBVIOUS
<1>1. N \in Nat /\ \A n \in 1..N : Blocks[n] \in Block BY BlocksAssumption
<1>2. \A n \in 1..N : Len(c[Blocks[n]]) \in Nat BY <1>1 DEF Program
<1> DEFINE F == [p \in (1..N) \X Nat |-> p[2] + Len(c[Blocks[p[1]]])]
<1>3. F \in [(1..N) \X Nat -> Nat] BY <1>2
<1>4. PICK q : Computes(q, N, Nat, 0, F)
  <2> HIDE DEF F
  <2>1. 0 \in Nat OBVIOUS
  <2> QED BY <1>1, <1>3, <2>1, Recursion
<1>5. q \in [0..N -> Nat] /\ q[0] = 0 /\ \A n \in 1..N : q[n] = q[n - 1] + Len(c[Blocks[n]])
  <2>1. q \in [0..N -> Nat] /\ q[0] = 0 /\ \A n \in 1..N : q[n] = F[<<n, q[n - 1]>>]
    <3> HIDE DEF F
    <3> QED BY <1>4 DEF Computes
  <2>2. ASSUME NEW n \in 1..N PROVE q[n] = q[n - 1] + Len(c[Blocks[n]])
    <3>1. n - 1 \in 0..N BY <1>1
    <3>2. <<n, q[n - 1]>> \in (1..N) \X Nat BY <2>1, <3>1
    <3> QED BY <2>1, <3>2
  <2> QED BY <2>1, <2>2
<1>6. q = [n \in 0..N |-> IF n = 0 THEN 0 ELSE q[n - 1] + Len(c[Blocks[n]])]
  <2>1. \A n \in 0..N : q[n] = IF n = 0 THEN 0 ELSE q[n - 1] + Len(c[Blocks[n]])
    <3> TAKE n \in 0..N
    <3>1. n = 0 \/ n \in 1..N BY <1>1
    <3> QED BY <3>1, <1>5
  <2>2. q = [n \in 0..N |-> q[n]] BY <1>5
  <2> QED BY <2>1, <2>2
<1>7. Before(c) = [n \in 0..N |-> IF n = 0 THEN 0 ELSE Before(c)[n - 1] + Len(c[Blocks[n]])]
  <2>1. \E z : z = [n \in 0..N |-> IF n = 0 THEN 0 ELSE z[n - 1] + Len(c[Blocks[n]])] BY <1>6
  <2> QED BY <2>1 DEF Before
<1> PICK B : B = Before(c) OBVIOUS
<1>8. \A n \in 0..N : B[n] = IF n = 0 THEN 0 ELSE B[n - 1] + Len(c[Blocks[n]]) BY <1>7
<1> DEFINE T == {n \in Nat : n =< N => B[n] = q[n]}
<1>9. 0 \in T
  <2>1. 0 \in 0..N BY <1>1
  <2> QED BY <2>1, <1>5, <1>8
<1>10. ASSUME NEW n \in Nat, n \in T PROVE n + 1 \in T
  <2> SUFFICES ASSUME n + 1 =< N PROVE B[n + 1] = q[n + 1] OBVIOUS
  <2>1. n + 1 \in 0..N /\ n + 1 \in 1..N /\ n + 1 # 0 /\ n + 1 - 1 = n /\ n =< N BY <1>1
  <2>2. B[n + 1] = B[n] + Len(c[Blocks[n + 1]]) BY <1>8, <2>1
  <2>3. q[n + 1] = q[n] + Len(c[Blocks[n + 1]]) BY <1>5, <2>1
  <2> QED BY <1>10, <2>1, <2>2, <2>3
<1>11. \A n \in Nat : n \in T
  <2> HIDE DEF T
  <2> QED BY <1>9, <1>10, Induction
<1>12. \A n \in 0..N : B[n] = q[n] BY <1>11, <1>1
<1>13. \A n \in 1..N : n \in 0..N /\ n - 1 \in 0..N BY <1>1
<1>14. 0 \in 0..N BY <1>1
<1> HIDE DEF T, F
<1> QED BY <1>1, <1>5, <1>12, <1>13, <1>14

\* So later blocks have higher numbers.
LEMMA BeforeGrows ==
  ASSUME NEW c, NEW k, Program(c, k), NEW i \in 0..Len(Blocks), NEW j \in 0..Len(Blocks), i =< j
  PROVE  Before(c)[i] =< Before(c)[j]
<1> PICK N : N = Len(Blocks) OBVIOUS
<1> PICK B : B = Before(c) OBVIOUS
<1>1. /\ N \in Nat /\ \A n \in 0..N : B[n] \in Nat
      /\ \A n \in 1..N : B[n] = B[n - 1] + Len(c[Blocks[n]])
  BY BeforeFacts
<1>2. \A n \in 1..N : Len(c[Blocks[n]]) \in Nat
  <2>1. \A n \in 1..N : Blocks[n] \in Block BY BlocksAssumption
  <2> QED BY <2>1 DEF Program
<1> DEFINE T == {n \in Nat : i + n =< N => B[i] =< B[i + n]}
<1>3. 0 \in T BY <1>1
<1>4. ASSUME NEW n \in Nat, n \in T PROVE n + 1 \in T
  <2> SUFFICES ASSUME i + (n + 1) =< N PROVE B[i] =< B[i + (n + 1)] OBVIOUS
  <2> PICK o : o = i + (n + 1) OBVIOUS
  <2>1. o \in 1..N /\ o - 1 = i + n /\ i + n \in 0..N /\ o \in 0..N /\ i + n =< N BY <1>1
  <2>2. B[o] = B[i + n] + Len(c[Blocks[o]]) BY <1>1, <2>1
  <2>3. B[i] =< B[i + n] BY <1>4, <2>1
  <2>4. B[i] \in Nat /\ B[i + n] \in Nat /\ Len(c[Blocks[o]]) \in Nat BY <1>1, <1>2, <2>1
  <2> QED BY <2>2, <2>3, <2>4
<1>5. j - i \in T
  <2>1. j - i \in Nat BY <1>1
  <2> HIDE DEF T
  <2> QED BY <1>3, <1>4, <2>1, Induction
<1>6. i + (j - i) = j /\ j =< N BY <1>1
<1> QED BY <1>5, <1>6

\* Every block has a place in the order of blocks.
LEMMA PlaceFacts ==
  ASSUME NEW b \in Block
  PROVE  Place(b) \in 1..Len(Blocks) /\ Blocks[Place(b)] = b /\ Place(b) - 1 \in 0..Len(Blocks)
<1>1. DOMAIN Blocks = 1..Len(Blocks) /\ Len(Blocks) \in Nat BY BlocksAssumption
<1>2. \E i \in DOMAIN Blocks : Blocks[i] = b BY BlocksAssumption DEF ToSet
<1>3. Place(b) \in DOMAIN Blocks /\ Blocks[Place(b)] = b BY <1>2 DEF Place
<1> QED BY <1>1, <1>3

\* m is the move that instruction i of block b is.
MoveAt(c, m, b, i) ==
  /\ m = [uid |-> FirstUid(c, b) + i, dst |-> c[b][i].ops[1].reg, src |-> c[b][i].ops[2].reg]
  /\ m.uid = Before(c)[Place(b) - 1] + i
  /\ i \in Nat /\ 1 =< i
  /\ m.uid \in Nat /\ m.uid =< Before(c)[Place(b)] /\ Before(c)[Place(b)] \in Nat

\* A move is some instruction of some block.
LEMMA UidFacts ==
  ASSUME NEW c, NEW k, Program(c, k), NEW m \in Moves(c)
  PROVE  \E b \in Block : \E i \in DOMAIN c[b] : MoveAt(c, m, b, i)
<1>1. PICK b \in Block : m \in {[uid |-> FirstUid(c, b) + i, dst |-> c[b][i].ops[1].reg,
                     src |-> c[b][i].ops[2].reg] :
                    i \in {j \in DOMAIN c[b] : c[b][j].kind = "move"}}
  BY DEF Moves
<1>2. PICK i \in DOMAIN c[b] :
            m = [uid |-> FirstUid(c, b) + i, dst |-> c[b][i].ops[1].reg, src |-> c[b][i].ops[2].reg]
  BY <1>1
<1>3. FirstUid(c, b) = Before(c)[Place(b) - 1] BY DEF FirstUid, Before
<1> PICK p : p = Place(b) OBVIOUS
<1> PICK n : n = Len(c[b]) OBVIOUS
<1>4. i \in 1..n /\ n \in Nat BY DEF Program
<1>5. p \in 1..Len(Blocks) /\ Blocks[p] = b /\ p - 1 \in 0..Len(Blocks) BY PlaceFacts
<1>6. Before(c)[p] = Before(c)[p - 1] + n BY <1>5, BeforeFacts
<1>7. Before(c)[p - 1] \in Nat BY <1>5, BeforeFacts
<1>8. m.uid = Before(c)[p - 1] + i BY <1>2, <1>3
<1>9. m.uid \in Nat /\ m.uid =< Before(c)[p] /\ Before(c)[p] \in Nat /\ i \in Nat /\ 1 =< i
  BY <1>4, <1>6, <1>7, <1>8
<1> QED BY <1>2, <1>8, <1>9 DEF MoveAt

\* No two moves have one number: freeze_moves finds the move it means.
LEMMA UidUnique ==
  ASSUME NEW c, NEW k, Program(c, k), NEW m \in Moves(c), NEW o \in Moves(c), m.uid = o.uid
  PROVE  m = o
<1>1b. PICK b \in Block : \E i \in DOMAIN c[b] : MoveAt(c, m, b, i) BY UidFacts
<1>1. PICK i \in DOMAIN c[b] :
           /\ m = [uid |-> FirstUid(c, b) + i, dst |-> c[b][i].ops[1].reg, src |-> c[b][i].ops[2].reg]
           /\ m.uid = Before(c)[Place(b) - 1] + i
           /\ i \in Nat /\ 1 =< i
           /\ m.uid \in Nat /\ m.uid =< Before(c)[Place(b)] /\ Before(c)[Place(b)] \in Nat
  BY <1>1b DEF MoveAt
<1>2b. PICK d \in Block : \E j \in DOMAIN c[d] : MoveAt(c, o, d, j) BY UidFacts
<1>2. PICK j \in DOMAIN c[d] :
           /\ o = [uid |-> FirstUid(c, d) + j, dst |-> c[d][j].ops[1].reg, src |-> c[d][j].ops[2].reg]
           /\ o.uid = Before(c)[Place(d) - 1] + j
           /\ j \in Nat /\ 1 =< j
           /\ o.uid \in Nat /\ o.uid =< Before(c)[Place(d)] /\ Before(c)[Place(d)] \in Nat
  BY <1>2b DEF MoveAt
<1> PICK p : p = Place(b) OBVIOUS
<1> PICK q : q = Place(d) OBVIOUS
<1>3. /\ p \in 1..Len(Blocks) /\ Blocks[p] = b /\ p - 1 \in 0..Len(Blocks)
      /\ q \in 1..Len(Blocks) /\ Blocks[q] = d /\ q - 1 \in 0..Len(Blocks)
  BY PlaceFacts
<1>4. Len(Blocks) \in Nat /\ p \in 0..Len(Blocks) /\ q \in 0..Len(Blocks) /\ p \in Nat /\ q \in Nat
  BY <1>3, BeforeFacts
<1>5. Before(c)[p - 1] \in Nat /\ Before(c)[q - 1] \in Nat BY <1>3, BeforeFacts
<1>6. ~ (p < q)
  <2> SUFFICES ASSUME p < q PROVE FALSE OBVIOUS
  <2>1. p =< q - 1 BY <1>4
  <2>2. Before(c)[p] =< Before(c)[q - 1] BY <1>3, <1>4, <2>1, BeforeGrows
  <2>3. m.uid =< Before(c)[p] /\ o.uid = Before(c)[q - 1] + j BY <1>1, <1>2
  <2> QED BY <2>2, <2>3, <1>1, <1>2, <1>5
<1>7. ~ (q < p)
  <2> SUFFICES ASSUME q < p PROVE FALSE OBVIOUS
  <2>1. q =< p - 1 BY <1>4
  <2>2. Before(c)[q] =< Before(c)[p - 1] BY <1>3, <1>4, <2>1, BeforeGrows
  <2>3. o.uid =< Before(c)[q] /\ m.uid = Before(c)[p - 1] + i BY <1>1, <1>2
  <2> QED BY <2>2, <2>3, <1>1, <1>2, <1>5
<1>8. p = q BY <1>4, <1>6, <1>7
<1>9. b = d BY <1>3, <1>8
<1>10. m.uid = Before(c)[p - 1] + i /\ o.uid = Before(c)[p - 1] + j BY <1>1, <1>2, <1>8
<1>11. i = j
  <2> PICK z : z = Before(c)[p - 1] OBVIOUS
  <2>1. z + i = z + j BY <1>10
  <2>2. z \in Nat /\ i \in Nat /\ j \in Nat BY <1>1, <1>2, <1>5
  <2> QED BY ONLY <2>1, <2>2
<1> QED BY <1>1, <1>2, <1>9, <1>11

\* The numbers of the moves are bounded.
LEMMA UidBound ==
  ASSUME NEW c, NEW k, Program(c, k)
  PROVE  \E B \in Nat : \A m \in Moves(c) : m.uid \in 0..B
<1> PICK N : N = Len(Blocks) OBVIOUS
<1>1. N \in Nat /\ N \in 0..N /\ Before(c)[N] \in Nat BY BeforeFacts
<1>2. ASSUME NEW m \in Moves(c) PROVE m.uid \in 0..Before(c)[N]
  <2>1. PICK b \in Block : \E i \in DOMAIN c[b] :
           m.uid \in Nat /\ m.uid =< Before(c)[Place(b)] /\ Before(c)[Place(b)] \in Nat
    BY UidFacts DEF MoveAt
  <2>2. Place(b) \in 0..N /\ Place(b) =< N BY PlaceFacts
  <2>3. Before(c)[Place(b)] =< Before(c)[N] BY <1>1, <2>2, BeforeGrows
  <2> QED BY <1>1, <2>1, <2>3
<1> QED BY <1>1, <1>2

-----------------------------------------------------------------------------
\* freeze_moves.

\* Move m is given up; w is the node at its other end.
Frozen(f, r, m, w) ==
  /\ Rests(f, r) /\ r.degree = f.degree /\ r.spill = f.spill
  /\ r.active = f.active \ {m} /\ r.worklist = f.worklist
  /\ ~ MoveRelated(r, w) /\ f.degree[w] < Room(class, w) =>
       r.freeze = f.freeze \ {w} /\ r.simplify = f.simplify \cup {w}
  /\ MoveRelated(r, w) \/ ~ (f.degree[w] < Room(class, w)) =>
       r.freeze = f.freeze /\ r.simplify = f.simplify

\* One pass of freeze_moves gives up one move, and the node at its other end may go to
\* be simplified.
LEMMA FreezeMoveEffect ==
  ASSUME NEW h, NEW v \in Reg, NEW m \in Moves(code), NEW w, NEW r, Program(code, class),
         Shape(class, code, h), Ranked(class, h),
         w = (IF Alias(h, v) = Alias(h, m.src) THEN Alias(h, m.dst) ELSE Alias(h, m.src)),
         r = FreezeMove(h, v, m.uid)
  PROVE  Shape(class, code, r) /\ w \in Reg /\ Frozen(h, r, m, w)
<1> USE DEF Reg
<1>1. (CHOOSE n \in Moves(code) : n.uid = m.uid) = m
  <2>1. (CHOOSE n \in Moves(code) : n.uid = m.uid) \in Moves(code)
        /\ (CHOOSE n \in Moves(code) : n.uid = m.uid).uid = m.uid
    OBVIOUS
  <2> QED BY <2>1, UidUnique
<1>2. m.src \in Reg /\ m.dst \in Reg BY MovesFacts
<1>3. w \in Reg BY <1>2, AliasFacts
<1> PICK A : A = h.active \ {m} OBVIOUS
<1> PICK Z : Z = h.frozen \cup {m} OBVIOUS
<1> PICK frozen : frozen = [h EXCEPT !.active = A, !.frozen = Z] OBVIOUS
<1>4. r = IF NodeMoves(frozen, w) = {} /\ frozen.degree[w] < Room(class, w)
          THEN [frozen EXCEPT !.freeze = @ \ {w}, !.simplify = @ \cup {w}] ELSE frozen
  BY <1>1 DEF FreezeMove, Avail, Room
<1>5. A \subseteq Moves(code) /\ Z \subseteq Moves(code) BY DEF Shape, Records
<1>6. /\ Shape(class, code, frozen) /\ Rests(h, frozen) /\ frozen.active = A
      /\ frozen.worklist = h.worklist /\ frozen.degree = h.degree
      /\ frozen.simplify = h.simplify /\ frozen.freeze = h.freeze /\ frozen.spill = h.spill
  BY ONLY <1>5, Shape(class, code, h), frozen = [h EXCEPT !.active = A, !.frozen = Z]
     DEF Shape, Records, Rests
<1>7. CASE ~ (NodeMoves(frozen, w) = {} /\ frozen.degree[w] < Room(class, w))
  <2>1. r = frozen BY <1>4, <1>7
  <2>2. MoveRelated(r, w) \/ ~ (h.degree[w] < Room(class, w)) BY <2>1, <1>6, <1>7 DEF MoveRelated
  <2> QED BY <2>1, <2>2, <1>3, <1>6 DEF Frozen
<1>8. CASE NodeMoves(frozen, w) = {} /\ frozen.degree[w] < Room(class, w)
  <2> PICK F : F = frozen.freeze \ {w} OBVIOUS
  <2> PICK S : S = frozen.simplify \cup {w} OBVIOUS
  <2>1. r = [frozen EXCEPT !.freeze = F, !.simplify = S] BY <1>4, <1>8
  <2>2. F \subseteq DOMAIN class /\ S \subseteq DOMAIN class BY <1>3, <1>6, ShapeFacts
  <2>3. /\ Shape(class, code, r) /\ Untouched(frozen, r)
        /\ r.freeze = F /\ r.simplify = S /\ r.spill = frozen.spill
    BY ONLY <1>6, <2>1, <2>2 DEF Shape, Records, Untouched, Fixed, SameArcs
  <2>4. Rests(frozen, r) /\ r.active = A /\ r.worklist = h.worklist /\ r.degree = h.degree
    BY <1>6, <2>3 DEF Untouched, Fixed, SameArcs, Rests
  <2>5. NodeMoves(r, w) = {}
    BY <1>6, <1>8, <2>4 DEF NodeMoves, Rests
  <2>6. Rests(h, r) BY <1>6, <2>4 DEF Rests
  <2> QED BY <1>3, <1>6, <1>8, <2>3, <2>4, <2>5, <2>6 DEF Frozen, MoveRelated
<1> QED BY <1>7, <1>8

\* The moves of v from uid n on are still to be given up.
Freezing(h, f, v, n) ==
  /\ Shape(class, code, f) /\ Rests(h, f) /\ f.degree = h.degree /\ f.worklist = {}
  /\ f.active \subseteq h.active /\ v \in f.simplify
  /\ Apart(class, f) /\ Levels(class, f, {})
  /\ \A x \in (f.simplify \cup f.select) \ {v} : ~ MoveRelated(f, x)
  /\ \A x \in f.freeze \ Hard : MoveRelated(f, x)
  /\ \A m \in NodeMoves(f, v) : m.uid >= n
  /\ \A m \in NodeMoves(h, v) : m.uid >= n => m \in f.active

\* It does so without disturbing what is said of the other nodes.
LEMMA FreezeOne ==
  ASSUME NEW h, NEW f, NEW v \in Reg, NEW n \in Nat, NEW m \in NodeMoves(h, v), NEW r,
         Numbered(class), Program(code, class), Shape(class, code, h), Ranked(class, h),
         Owned(class, h), h.worklist = {}, Freezing(h, f, v, n), m.uid = n, r = FreezeMove(f, v, n)
  PROVE  Freezing(h, r, v, n + 1)
<1> USE DEF Reg
<1>0. /\ Shape(class, code, f) /\ Rests(h, f) /\ f.degree = h.degree /\ f.worklist = {}
      /\ f.active \subseteq h.active /\ v \in f.simplify
      /\ Apart(class, f) /\ Levels(class, f, {})
      /\ \A x \in (f.simplify \cup f.select) \ {v} : ~ MoveRelated(f, x)
      /\ \A x \in f.freeze \ Hard : MoveRelated(f, x)
      /\ \A o \in NodeMoves(f, v) : o.uid >= n
      /\ \A o \in NodeMoves(h, v) : o.uid >= n => o \in f.active
  BY DEF Freezing
<1>1. m \in h.active /\ m \in h.moves[v] /\ h.active \subseteq Moves(code) /\ m \in Moves(code)
  BY ShapeFacts DEF NodeMoves
<1>2. \A x : Alias(f, x) = Alias(h, x) BY <1>0, SameAliases DEF Rests
<1>3. Ranked(class, f) BY <1>0, RestsKeep
<1> PICK w : w = (IF Alias(f, v) = Alias(f, m.src) THEN Alias(f, m.dst) ELSE Alias(f, m.src)) OBVIOUS
<1>4. Shape(class, code, r) /\ w \in Reg /\ Frozen(f, r, m, w)
  BY <1>0, <1>1, <1>3, FreezeMoveEffect
<1>5. /\ Rests(f, r) /\ r.degree = f.degree /\ r.spill = f.spill
      /\ r.active = f.active \ {m} /\ r.worklist = f.worklist
      /\ ~ MoveRelated(r, w) /\ f.degree[w] < Room(class, w) =>
           r.freeze = f.freeze \ {w} /\ r.simplify = f.simplify \cup {w}
      /\ MoveRelated(r, w) \/ ~ (f.degree[w] < Room(class, w)) =>
           r.freeze = f.freeze /\ r.simplify = f.simplify
  BY <1>4 DEF Frozen
<1>6. v \notin h.coalesced /\ Alias(h, v) = v
  <2>1. v \notin f.coalesced BY <1>0 DEF Apart, Gone
  <2> QED BY <2>1, <1>0, AliasFacts DEF Rests
<1>7. /\ m \in h.moves[w] /\ w \notin h.coalesced
      /\ \A x \in Reg \ h.coalesced : m \in h.moves[x] => x \in {v, w}
  <2> PICK a : a = Alias(h, m.src) OBVIOUS
  <2> PICK b : b = Alias(h, m.dst) OBVIOUS
  <2>1. /\ m \in h.moves[a] /\ m \in h.moves[b]
        /\ \A x \in Reg \ h.coalesced : m \in h.moves[x] => x \in {a, b}
    BY <1>1 DEF Owned
  <2>2. v \in {a, b} BY <2>1, <1>1, <1>6
  <2>3. w = (IF v = a THEN b ELSE a) BY <1>2, <1>6
  <2>4. {v, w} = {a, b} BY <2>2, <2>3
  <2>5. a \notin h.coalesced /\ b \notin h.coalesced
    <3>1. m.src \in Reg /\ m.dst \in Reg BY <1>1, MovesFacts
    <3> QED BY <3>1, AliasFacts
  <2> QED BY <2>1, <2>3, <2>4, <2>5
<1>8. /\ f.moves = h.moves /\ r.moves = h.moves /\ f.coalesced = h.coalesced /\ r.coalesced = h.coalesced
      /\ f.select = h.select /\ r.select = h.select
  BY <1>0, <1>5 DEF Rests
<1>9. \A x : NodeMoves(r, x) = NodeMoves(f, x) \ {m} BY <1>0, <1>5, <1>8 DEF NodeMoves
<1>10. \A x \in Reg \ h.coalesced : x \notin {v, w} => MoveRelated(r, x) = MoveRelated(f, x)
  <2> TAKE x \in Reg \ h.coalesced
  <2> SUFFICES ASSUME x \notin {v, w} PROVE MoveRelated(r, x) = MoveRelated(f, x) OBVIOUS
  <2>1. m \notin NodeMoves(f, x) BY <1>7, <1>8 DEF NodeMoves
  <2> QED BY <2>1, <1>9 DEF MoveRelated
<1>11. \A o \in NodeMoves(r, v) : o.uid >= n + 1
  <2> TAKE o \in NodeMoves(r, v)
  <2>1. o \in NodeMoves(f, v) /\ o # m BY <1>9
  <2>2. o \in Moves(code) BY <2>1, <1>0, <1>1 DEF NodeMoves
  <2>3. o.uid >= n BY <2>1, <1>0
  <2>4. o.uid # n BY <2>1, <2>2, <1>1, UidUnique
  <2>5. o.uid \in Nat
    <3>1. PICK B \in Nat : \A p \in Moves(code) : p.uid \in 0..B BY UidBound
    <3> QED BY <2>2, <3>1
  <2> QED BY <2>3, <2>4, <2>5
<1>12. w # v /\ m \in f.active => w \notin f.simplify /\ w \notin f.select
  <2> SUFFICES ASSUME w # v, m \in f.active PROVE w \notin f.simplify /\ w \notin f.select OBVIOUS
  <2>1. MoveRelated(f, w) BY <1>7, <1>8 DEF MoveRelated, NodeMoves
  <2> QED BY <2>1, <1>0
<1>13. \A x \in f.simplify \cup f.select \cup f.freeze \cup f.spill : x \in Reg /\ x \notin h.coalesced
  BY <1>0, <1>8, ShapeFacts DEF Apart, Gone
<1>14. m \in f.active BY <1>0
<1>20. \A o \in NodeMoves(h, v) : o.uid >= n + 1 => o \in r.active
  <2> TAKE o \in NodeMoves(h, v)
  <2> SUFFICES ASSUME o.uid >= n + 1 PROVE o \in r.active OBVIOUS
  <2>1. o \in Moves(code) BY <1>1 DEF NodeMoves
  <2>2. PICK B \in Nat : \A p \in Moves(code) : p.uid \in 0..B BY UidBound
  <2>3. o.uid \in Nat BY <2>1, <2>2
  <2>4. o.uid >= n /\ o # m BY <2>3
  <2> QED BY <2>4, <1>0, <1>5
<1>15. f.freeze \cap f.simplify = {} /\ v \notin f.freeze BY <1>0 DEF Apart
<1>16. /\ Rests(h, r) /\ r.degree = h.degree /\ r.worklist = {} /\ r.active \subseteq h.active
       /\ v \in r.simplify
  BY <1>0, <1>5 DEF Rests
<1>17. Gone(r) = Gone(f) BY <1>8 DEF Gone
<1>18. CASE ~ MoveRelated(r, w) /\ f.degree[w] < Room(class, w) /\ m \in f.active
  <2>1. r.freeze = f.freeze \ {w} /\ r.simplify = f.simplify \cup {w} BY <1>5, <1>18
  <2>2. w \notin f.spill
    <3> SUFFICES ASSUME w \in f.spill PROVE FALSE OBVIOUS
    <3>1. f.degree[w] >= Room(class, w) BY <1>0 DEF Levels
    <3>2. f.degree[w] \in Int /\ Room(class, w) \in Nat BY <1>0, <1>4, ShapeFacts, RoomType
    <3> QED BY <3>1, <3>2, <1>18
  <2>3. w \notin Gone(f)
    <3>1. w = v => w \notin Gone(f) BY <1>0 DEF Apart
    <3>2. w # v => w \notin Gone(f) BY <1>7, <1>8, <1>12, <1>18 DEF Gone
    <3> QED BY <3>1, <3>2
  <2>4. Apart(class, r)
    <3>1. /\ f.simplify \cap (f.freeze \cup f.spill \cup Gone(f)) = {}
          /\ f.freeze \cap (f.spill \cup Gone(f)) = {}
          /\ f.spill \cap Gone(f) = {} /\ f.select \cap f.coalesced = {} /\ f.coalesced \cap Hard = {}
          /\ DOMAIN class \ Hard \subseteq f.simplify \cup f.freeze \cup f.spill \cup Gone(f)
      BY <1>0 DEF Apart
    <3>2. r.select = f.select /\ r.coalesced = f.coalesced BY <1>8
    <3> QED BY ONLY <3>1, <3>2, <2>1, <2>2, <2>3, <1>5, <1>17 DEF Apart
  <2>5. Levels(class, r, {}) BY <1>0, <1>5, <2>1 DEF Levels
  <2>6. \A x \in (r.simplify \cup r.select) \ {v} : ~ MoveRelated(r, x)
    <3> TAKE x \in (r.simplify \cup r.select) \ {v}
    <3>1. CASE x = w BY <3>1, <1>18
    <3>2. CASE x # w
      <4>1. x \in (f.simplify \cup f.select) \ {v} BY <3>2, <2>1, <1>8
      <4> QED BY <4>1, <3>2, <1>0, <1>10, <1>13
    <3> QED BY <3>1, <3>2
  <2>7. \A x \in r.freeze \ Hard : MoveRelated(r, x)
    <3> TAKE x \in r.freeze \ Hard
    <3>1. x \in f.freeze \ Hard /\ x # w /\ x # v BY <2>1, <1>15
    <3> QED BY <3>1, <1>0, <1>10, <1>13
  <2> QED BY <1>4, <1>11, <1>16, <1>20, <2>4, <2>5, <2>6, <2>7 DEF Freezing
<1>19. CASE (MoveRelated(r, w) \/ ~ (f.degree[w] < Room(class, w))) /\ m \in f.active
  <2>1. r.freeze = f.freeze /\ r.simplify = f.simplify BY <1>5, <1>19
  <2>4. Apart(class, r) BY <1>0, <1>5, <1>8, <1>17, <2>1 DEF Apart
  <2>5. Levels(class, r, {}) BY <1>0, <1>5, <2>1 DEF Levels
  <2>6. \A x \in (r.simplify \cup r.select) \ {v} : ~ MoveRelated(r, x)
    <3> TAKE x \in (r.simplify \cup r.select) \ {v}
    <3>1. x \in (f.simplify \cup f.select) \ {v} BY <2>1, <1>8
    <3>2. x # w BY <3>1, <1>12, <1>19
    <3> QED BY <3>1, <3>2, <1>0, <1>10, <1>13
  <2>7. \A x \in r.freeze \ Hard : MoveRelated(r, x)
    <3> TAKE x \in r.freeze \ Hard
    <3>1. x \in f.freeze \ Hard /\ x # v BY <2>1, <1>15
    <3>2. CASE x = w
      <4>1. f.degree[w] < Room(class, w) BY <3>1, <3>2, <1>0 DEF Levels
      <4> QED BY <4>1, <3>2, <1>19
    <3>3. CASE x # w BY <3>1, <3>3, <1>0, <1>10, <1>13
    <3> QED BY <3>2, <3>3
  <2> QED BY <1>4, <1>11, <1>16, <1>20, <2>4, <2>5, <2>6, <2>7 DEF Freezing
<1> QED BY <1>14, <1>18, <1>19

\* The numbers of the moves that still need v.
Uids(h, v) == {m.uid : m \in NodeMoves(h, v)}

\* The loop that gives up the moves of v.
LEMMA FreezeLoop ==
  ASSUME NEW h, NEW v \in Reg, NEW V, Program(code, class), Shape(class, code, h),
         Ranked(class, h), V = Uids(h, v)
  PROVE  \E N \in Nat : \E u :
           /\ u[0] = h /\ u[N] = FreezeMoves(h, v) /\ V \subseteq 0..(N - 1)
           /\ \A n \in 0..(N - 1) :
                u[n + 1] = IF n \in V THEN FreezeMove(u[n], v, n) ELSE u[n]
<1>0. \A m \in NodeMoves(h, v) : m \in Moves(code) BY ShapeFacts DEF NodeMoves
<1>1. PICK B \in Nat : V \subseteq 0..B
  <2>1. PICK B \in Nat : \A m \in Moves(code) : m.uid \in 0..B BY UidBound
  <2> QED BY <2>1, <1>0 DEF Uids
<1>2. PICK N \in Nat : N = Max(V \cup {0}) + 1 /\ V \subseteq 0..(N - 1) BY <1>1, Bound
<1> DEFINE D == {f \in Records(class, code) : f.alias = h.alias /\ f.coalesced = h.coalesced}
           F == [p \in (1..N) \X D |-> IF p[1] - 1 \notin V THEN p[2] ELSE FreezeMove(p[2], v, p[1] - 1)]
<1>3. F \in [(1..N) \X D -> D]
  <2>1. ASSUME NEW p \in (1..N) \X D, p[1] - 1 \in V PROVE FreezeMove(p[2], v, p[1] - 1) \in D
    <3> PICK f : f = p[2] OBVIOUS
    <3>1. f \in Records(class, code) /\ f.alias = h.alias /\ f.coalesced = h.coalesced BY <2>1
    <3>2. PICK m \in Moves(code) : m.uid = p[1] - 1 BY <2>1, <1>0 DEF Uids
    <3>3. Shape(class, code, f) /\ Ranked(class, f) BY <3>1 DEF Shape, Ranked
    <3> PICK r : r = FreezeMove(f, v, m.uid) OBVIOUS
    <3> PICK w : w = (IF Alias(f, v) = Alias(f, m.src) THEN Alias(f, m.dst) ELSE Alias(f, m.src)) OBVIOUS
    <3>4. Shape(class, code, r) /\ Frozen(f, r, m, w) BY ONLY <3>3, v \in Reg, Program(code, class),
      r = FreezeMove(f, v, m.uid), m \in Moves(code),
      w = (IF Alias(f, v) = Alias(f, m.src) THEN Alias(f, m.dst) ELSE Alias(f, m.src)), FreezeMoveEffect
    <3>5. r.alias = h.alias /\ r.coalesced = h.coalesced BY <3>1, <3>4 DEF Frozen, Rests
    <3>6. r \in D BY <3>4, <3>5 DEF Shape
    <3> HIDE DEF D
    <3> QED BY <3>2, <3>6
  <2> HIDE DEF D
  <2> QED BY <2>1
<1>4. h \in D BY DEF Shape
<1>5. PICK u : Computes(u, N, D, h, F)
  <2> HIDE DEF D, F
  <2> QED BY <1>3, <1>4, Recursion
<1>6. u \in [0..N -> D] /\ u[0] = h /\ \A n \in 1..N : u[n] = F[<<n, u[n - 1]>>]
  <2> HIDE DEF D, F
  <2> QED BY <1>5 DEF Computes
<1>7. \A n \in 1..N : u[n] = IF n - 1 \notin V THEN u[n - 1] ELSE FreezeMove(u[n - 1], v, n - 1)
  <2> TAKE n \in 1..N
  <2>1. <<n, u[n - 1]>> \in (1..N) \X D
    <3> HIDE DEF D
    <3> QED BY <1>6
  <2> HIDE DEF D
  <2> QED BY <1>6, <2>1
<1> HIDE DEF D, F
<1> DEFINE e == [n \in 0..N |->
             IF n = 0 THEN h
             ELSE IF n - 1 \notin V THEN u[n - 1]
             ELSE CHOOSE r \in {FreezeMove(f, v, n - 1) : f \in {u[n - 1]}} : TRUE]
<1>8. u = e
  <2>1. \A n \in 0..N : u[n] = e[n]
    <3> SUFFICES ASSUME NEW n \in 0..N PROVE u[n] = e[n] OBVIOUS
    <3>1. CASE n = 0 BY <3>1, <1>6
    <3>2. CASE n # 0
      <4>1. n \in 1..N BY <3>2
      <4>2. (CHOOSE r \in {FreezeMove(f, v, n - 1) : f \in {u[n - 1]}} : TRUE)
              = FreezeMove(u[n - 1], v, n - 1)
        OBVIOUS
      <4> QED BY <4>1, <4>2, <1>7, <3>2
    <3> QED BY <3>1, <3>2
  <2>2. u = [n \in 0..N |-> u[n]] BY <1>6
  <2> QED BY <2>1, <2>2
<1> DEFINE upTo == CHOOSE z : z = [n \in 0..N |->
             IF n = 0 THEN h
             ELSE IF n - 1 \notin V THEN z[n - 1]
             ELSE CHOOSE r \in {FreezeMove(f, v, n - 1) : f \in {z[n - 1]}} : TRUE]
<1>9. upTo = [n \in 0..N |->
             IF n = 0 THEN h
             ELSE IF n - 1 \notin V THEN upTo[n - 1]
             ELSE CHOOSE r \in {FreezeMove(f, v, n - 1) : f \in {upTo[n - 1]}} : TRUE]
  BY <1>8
<1>10. FreezeMoves(h, v) = upTo[N] BY <1>2 DEF ForEach, FreezeMoves, Uids
<1> DEFINE Q(n) == n =< N => upTo[n] = u[n]
           T == {n \in Nat : Q(n)}
<1>11. \A n \in Nat : n \in T
  <2>1. 0 \in T
    <3> HIDE DEF upTo
    <3>1. 0 \in 0..N OBVIOUS
    <3> QED BY <1>9, <1>6, <3>1
  <2>2. ASSUME NEW n \in Nat, n \in T PROVE n + 1 \in T
    <3> SUFFICES ASSUME n + 1 =< N PROVE upTo[n + 1] = u[n + 1] OBVIOUS
    <3>1. n + 1 \in 0..N /\ n + 1 \in 1..N /\ n + 1 # 0 /\ n + 1 - 1 = n OBVIOUS
    <3>2. upTo[n] = u[n] BY <2>2
    <3>3. u[n + 1] = IF n \notin V THEN u[n] ELSE FreezeMove(u[n], v, n) BY <1>7, <3>1
    <3>4. upTo[n + 1] = IF n \notin V THEN upTo[n]
                        ELSE CHOOSE r \in {FreezeMove(f, v, n) : f \in {upTo[n]}} : TRUE
      <4> HIDE DEF upTo
      <4> QED BY ONLY <1>9, <3>1
    <3>5. (CHOOSE r \in {FreezeMove(f, v, n) : f \in {u[n]}} : TRUE) = FreezeMove(u[n], v, n)
      OBVIOUS
    <3> HIDE DEF upTo
    <3> QED BY <3>2, <3>3, <3>4, <3>5
  <2> HIDE DEF T
  <2> QED BY <2>1, <2>2, Induction
<1>12. upTo[N] = u[N]
  <2>1. N \in T BY <1>11
  <2> QED BY <2>1
<1>14. \A n \in 0..(N - 1) : u[n + 1] = IF n \in V THEN FreezeMove(u[n], v, n) ELSE u[n]
  <2> TAKE n \in 0..(N - 1)
  <2>1. n + 1 \in 1..N /\ n + 1 - 1 = n OBVIOUS
  <2> QED BY <1>7, <2>1
<1>15. u[N] = FreezeMoves(h, v) BY <1>10, <1>12
<1> HIDE DEF upTo, T, Q
<1>16. u[0] = h /\ V \subseteq 0..(N - 1) BY ONLY <1>2, <1>6
<1> QED BY ONLY N \in Nat, <1>14, <1>15, <1>16

\* Behind freeze_moves no move is left that needs v.
LEMMA FreezeAll ==
  ASSUME NEW h, NEW v \in Reg, NEW r, Numbered(class), Program(code, class),
         Shape(class, code, h), Ranked(class, h), Owned(class, h), h.worklist = {},
         Freezing(h, h, v, 0), r = FreezeMoves(h, v)
  PROVE  (\E n \in Nat : Freezing(h, r, v, n)) /\ ~ MoveRelated(r, v)
<1> PICK V : V = Uids(h, v) OBVIOUS
<1>0. PICK N \in Nat : \E u :
           /\ u[0] = h /\ u[N] = FreezeMoves(h, v) /\ V \subseteq 0..(N - 1)
           /\ \A n \in 0..(N - 1) :
                u[n + 1] = IF n \in V THEN FreezeMove(u[n], v, n) ELSE u[n]
  BY ONLY v \in Reg, Program(code, class), Shape(class, code, h), Ranked(class, h),
          V = Uids(h, v), FreezeLoop
<1>1. PICK u :
           /\ u[0] = h /\ u[N] = r /\ V \subseteq 0..(N - 1)
           /\ \A n \in 0..(N - 1) :
                u[n + 1] = IF n \in V THEN FreezeMove(u[n], v, n) ELSE u[n]
  BY <1>0
<1> DEFINE T == {n \in Nat : n =< N => Freezing(h, u[n], v, n)}
<1>2. 0 \in T BY <1>1
<1>9. \A m \in NodeMoves(h, v) : m \in Moves(code) BY ShapeFacts DEF NodeMoves
<1>10. PICK B \in Nat : \A p \in Moves(code) : p.uid \in 0..B BY UidBound
<1>3. ASSUME NEW n \in Nat, n \in T PROVE n + 1 \in T
  <2> SUFFICES ASSUME n + 1 =< N PROVE Freezing(h, u[n + 1], v, n + 1) OBVIOUS
  <2> PICK f : f = u[n] OBVIOUS
  <2> PICK e : e = u[n + 1] OBVIOUS
  <2>1. Freezing(h, f, v, n) /\ n \in 0..(N - 1) BY <1>3
  <2>2. e = IF n \in V THEN FreezeMove(f, v, n) ELSE f BY <1>1, <2>1
  <2> SUFFICES Freezing(h, e, v, n + 1) OBVIOUS
  <2> HIDE DEF T
  <2>3. CASE n \in V
    <3>1. PICK m \in NodeMoves(h, v) : m.uid = n BY <2>3 DEF Uids
    <3> QED BY <2>1, <2>2, <2>3, <3>1, FreezeOne
  <2>4. CASE n \notin V
    <3>1. e = f BY <2>2, <2>4
    <3>2. \A m \in NodeMoves(h, v) : m.uid # n /\ m.uid \in Nat BY <2>4, <1>9, <1>10 DEF Uids
    <3>3. NodeMoves(f, v) \subseteq NodeMoves(h, v)
      BY <2>1 DEF Freezing, Rests, NodeMoves
    <3>4. \A m \in NodeMoves(f, v) : m.uid >= n + 1
      <4> TAKE m \in NodeMoves(f, v)
      <4>1. m.uid >= n /\ m.uid # n /\ m.uid \in Nat BY <2>1, <3>2, <3>3 DEF Freezing
      <4> QED BY <4>1
    <3>5. \A m \in NodeMoves(h, v) : m.uid >= n + 1 => m \in f.active
      <4> TAKE m \in NodeMoves(h, v)
      <4> SUFFICES ASSUME m.uid >= n + 1 PROVE m \in f.active OBVIOUS
      <4>1. m.uid >= n BY <3>2
      <4> QED BY <4>1, <2>1 DEF Freezing
    <3> QED BY <2>1, <3>1, <3>4, <3>5 DEF Freezing
  <2> QED BY <2>3, <2>4
<1>4. N \in T
  <2> HIDE DEF T
  <2> QED BY <1>2, <1>3, Induction
<1>5. Freezing(h, r, v, N) BY <1>1, <1>4
<1> HIDE DEF T
<1>6. NodeMoves(r, v) \subseteq NodeMoves(h, v)
  BY <1>5 DEF Freezing, Rests, NodeMoves
<1>7. NodeMoves(r, v) = {}
  <2> SUFFICES ASSUME NEW m \in NodeMoves(r, v) PROVE FALSE OBVIOUS
  <2>1. m.uid \in 0..(N - 1) BY <1>1, <1>6 DEF Uids
  <2>2. m.uid >= N BY <1>5 DEF Freezing
  <2> QED BY <2>1, <2>2
<1> QED BY <1>5, <1>7 DEF MoveRelated

-----------------------------------------------------------------------------
\* freeze and select_spill.

\* v is to be simplified although moves need it or its degree is high.
LEMMA PickedGraph ==
  ASSUME NEW h, NEW f, NEW v \in h.freeze \cup h.spill, NEW r, Numbered(class), Program(code, class),
         Graph(class, code, h, {}), h.worklist = {}, Shape(class, code, f), Untouched(h, f),
         f.simplify = h.simplify \cup {v}, f.freeze = h.freeze \ {v}, f.spill = h.spill \ {v},
         r = FreezeMoves(f, v)
  PROVE  Graph(class, code, r, {})
<1> USE DEF Reg
<1>0. /\ Shape(class, code, h) /\ Symmetric(class, h) /\ Stacked(h) /\ Ranked(class, h)
      /\ h.active \cap h.worklist = {} /\ h.spilled = {} /\ Uncoloured(class, h)
      /\ Apart(class, h) /\ Levels(class, h, {}) /\ Related(h, {}) /\ Owing(class, h, {}, 0)
      /\ Owned(class, h) /\ SameClass(class, h) /\ Covers(class, code, h) /\ Kept(class, h)
  BY DEF Graph
<1>1. v \in Reg /\ v \notin Gone(h) BY <1>0, ShapeFacts DEF Apart
<1>2. Rests(h, f) /\ f.active = h.active /\ f.worklist = h.worklist BY UntouchedRests
<1>3. Gone(f) = Gone(h) /\ \A x : MoveRelated(f, x) = MoveRelated(h, x) BY UntouchedKeeps
<1>4. f.degree = h.degree /\ f.select = h.select /\ f.coalesced = h.coalesced /\ f.adj = h.adj
  BY DEF Untouched, SameArcs, Fixed
<1>5. Apart(class, f) BY <1>0, <1>1, <1>3, <1>4 DEF Apart
<1>6. Levels(class, f, {}) BY <1>0, <1>4 DEF Levels
<1>7. Ranked(class, f) /\ Owned(class, f) BY <1>0, <1>2, RestsKeep
<1>8. Freezing(f, f, v, 0)
  <2>1. Rests(f, f) BY DEF Rests
  <2>2. \A x \in (f.simplify \cup f.select) \ {v} : ~ MoveRelated(f, x) BY <1>0, <1>3, <1>4 DEF Related
  <2>3. \A x \in f.freeze \ Hard : MoveRelated(f, x) BY <1>0, <1>3 DEF Related
  <2>4. \A m \in NodeMoves(f, v) : m.uid >= 0
    <3>1. PICK B \in Nat : \A p \in Moves(code) : p.uid \in 0..B BY UidBound
    <3>2. \A m \in NodeMoves(f, v) : m \in Moves(code) BY ShapeFacts DEF NodeMoves
    <3> QED BY <3>1, <3>2
  <2>5. \A m \in NodeMoves(f, v) : m \in f.active BY <1>2 DEF NodeMoves
  <2>6. f.worklist = {} BY <1>2
  <2> QED BY <1>5, <1>6, <2>1, <2>2, <2>3, <2>4, <2>5, <2>6 DEF Freezing
<1>9. (\E n \in Nat : Freezing(f, r, v, n)) /\ ~ MoveRelated(r, v)
  <2>1. f.worklist = {} BY <1>2
  <2> QED BY ONLY Numbered(class), Program(code, class), Shape(class, code, f), r = FreezeMoves(f, v),
                  <1>1, <1>7, <1>8, <2>1, FreezeAll DEF Reg
<1>10. PICK n \in Nat : Freezing(f, r, v, n) BY <1>9
<1>11. /\ Shape(class, code, r) /\ Rests(f, r) /\ r.degree = f.degree /\ r.worklist = {}
       /\ r.active \subseteq f.active /\ v \in r.simplify
       /\ Apart(class, r) /\ Levels(class, r, {})
       /\ \A x \in (r.simplify \cup r.select) \ {v} : ~ MoveRelated(r, x)
       /\ \A x \in r.freeze \ Hard : MoveRelated(r, x)
  BY <1>10 DEF Freezing
<1>12. Related(r, {}) BY <1>9, <1>11 DEF Related
<1>13. Rests(h, r) BY <1>2, <1>11 DEF Rests
<1>14. r.active \cup r.worklist \subseteq h.active \cup h.worklist BY <1>2, <1>11
<1>15. /\ Symmetric(class, r) /\ Stacked(r) /\ Ranked(class, r) /\ SameClass(class, r)
       /\ Covers(class, code, r) /\ Kept(class, r) /\ Uncoloured(class, r) /\ Owned(class, r)
  BY ONLY <1>0, <1>13, <1>14, RestsKeep
<1>16. Owing(class, r, {}, 0)
  <2>1. r.adj = h.adj /\ r.select = h.select /\ r.coalesced = h.coalesced /\ r.degree = h.degree
    BY <1>4, <1>11, <1>13 DEF Rests
  <2>2. \A x : Adjacent(r, x) = Adjacent(h, x) BY <2>1 DEF Adjacent
  <2>3. Gone(r) = Gone(h) BY <2>1 DEF Gone
  <2> QED BY <2>1, <2>2, <2>3, <1>0 DEF Owing
<1>17. r.active \cap r.worklist = {} /\ r.spilled = {} BY <1>0, <1>11, <1>13 DEF Rests
<1> QED BY <1>11, <1>12, <1>15, <1>16, <1>17 DEF Graph

FromFreeze(h, v) == [h EXCEPT !.freeze = @ \ {v}, !.simplify = @ \cup {v}]
FromSpill(h, v) == [h EXCEPT !.spill = @ \ {v}, !.simplify = @ \cup {v}]

\* freeze keeps the graph in order.
LEMMA FreezeGraph ==
  ASSUME NEW h, NEW v \in h.freeze, NEW r, Numbered(class), Program(code, class),
         Graph(class, code, h, {}), h.worklist = {}, r = FreezeMoves(FromFreeze(h, v), v)
  PROVE  Graph(class, code, r, {})
<1> PICK f : f = FromFreeze(h, v) OBVIOUS
<1> PICK F : F = h.freeze \ {v} OBVIOUS
<1> PICK S : S = h.simplify \cup {v} OBVIOUS
<1>1. Shape(class, code, h) /\ Apart(class, h) BY DEF Graph
<1>2. F \subseteq DOMAIN class /\ S \subseteq DOMAIN class BY <1>1, ShapeFacts
<1>3. f = [h EXCEPT !.freeze = F, !.simplify = S] BY DEF FromFreeze
<1>4. Shape(class, code, f) /\ Untouched(h, f) /\ f.freeze = F /\ f.simplify = S /\ f.spill = h.spill
  BY ONLY <1>1, <1>2, <1>3 DEF Shape, Records, Untouched, Fixed, SameArcs
<1>5. h.spill = h.spill \ {v} BY <1>1 DEF Apart
<1> QED BY <1>4, <1>5, PickedGraph

\* select_spill keeps the graph in order, whichever node it picks.
LEMMA SpillGraph ==
  ASSUME NEW h, NEW v \in h.spill, NEW r, Numbered(class), Program(code, class),
         Graph(class, code, h, {}), h.worklist = {}, r = FreezeMoves(FromSpill(h, v), v)
  PROVE  Graph(class, code, r, {})
<1> PICK f : f = FromSpill(h, v) OBVIOUS
<1> PICK F : F = h.spill \ {v} OBVIOUS
<1> PICK S : S = h.simplify \cup {v} OBVIOUS
<1>1. Shape(class, code, h) /\ Apart(class, h) BY DEF Graph
<1>2. F \subseteq DOMAIN class /\ S \subseteq DOMAIN class BY <1>1, ShapeFacts
<1>3. f = [h EXCEPT !.spill = F, !.simplify = S] BY DEF FromSpill
<1>4. Shape(class, code, f) /\ Untouched(h, f) /\ f.spill = F /\ f.simplify = S /\ f.freeze = h.freeze
  BY ONLY <1>1, <1>2, <1>3 DEF Shape, Records, Untouched, Fixed, SameArcs
<1>5. h.freeze = h.freeze \ {v} BY <1>1 DEF Apart
<1> QED BY <1>4, <1>5, PickedGraph

-----------------------------------------------------------------------------
\* Live sets and arcs.

\* The smallest member of a set of numbers is one of its members.
LEMMA MinIn ==
  ASSUME NEW S, S \subseteq Nat, S # {}
  PROVE  Min(S) \in S /\ \A x \in S : Min(S) =< x
<1>1. \E n \in S : n \in Nat /\ \A m \in S : n =< m BY Smallest
<1> QED BY <1>1 DEF Min

\* The largest member of a bounded set of numbers is one of its members.
LEMMA MaxIn ==
  ASSUME NEW B \in Nat, NEW S, S \subseteq 0..B, S # {}
  PROVE  Max(S) \in S
<1> DEFINE T == {j \in Nat : j =< B /\ B - j \in S}
<1>1. PICK x \in S : x \in 0..B OBVIOUS
<1>2. PICK j \in T : j \in Nat /\ \A i \in T : j =< i
  <2>1. B - x \in T BY <1>1
  <2>2. T \subseteq Nat OBVIOUS
  <2> HIDE DEF T
  <2> QED BY <2>1, <2>2, Smallest
<1>3. PICK m \in S : m = B - j BY <1>2
<1>4. \A y \in S : m >= y
  <2> TAKE y \in S
  <2>1. y \in 0..B /\ B - y \in T OBVIOUS
  <2>2. j =< B - y /\ j \in Nat BY <2>1, <1>2
  <2> HIDE DEF T
  <2> QED BY <2>1, <2>2, <1>3
<1> QED BY <1>3, <1>4 DEF Max

\* Values computed one after the other stay in D.
LEMMA Stays ==
  ASSUME NEW z, NEW N \in Nat, NEW D, z[0] \in D, \A n \in 1..N : z[n - 1] \in D => z[n] \in D
  PROVE  \A n \in 0..N : z[n] \in D
<1> DEFINE T == {n \in Nat : n =< N => z[n] \in D}
<1>1. 0 \in T OBVIOUS
<1>2. ASSUME NEW n \in Nat, n \in T PROVE n + 1 \in T
  <2> SUFFICES ASSUME n + 1 =< N PROVE z[n + 1] \in D OBVIOUS
  <2>1. n + 1 \in 1..N /\ n + 1 - 1 = n /\ n =< N OBVIOUS
  <2>2. z[n] \in D BY <1>2, <2>1
  <2> QED BY <2>1, <2>2
<1>3. \A n \in Nat : n \in T
  <2> HIDE DEF T
  <2> QED BY <1>1, <1>2, Induction
<1> QED BY <1>3

\* The registers of the instructions are among K.
Within(insns, K) ==
  /\ Len(insns) \in Nat /\ DOMAIN insns = 1..Len(insns)
  /\ \A i \in DOMAIN insns : Defs(insns[i]) \subseteq K /\ Uses(insns[i]) \subseteq K

\* What is live before some instructions is live behind them or named by them.
LEMMA ThroughType ==
  ASSUME NEW insns, NEW K, NEW live \in SUBSET K, Within(insns, K)
  PROVE  Through(insns, live) \subseteq K
<1> PICK N \in Nat : N = Len(insns) BY DEF Within
<1> DEFINE D == SUBSET K
           F == [p \in (1..N) \X D |->
                  (p[2] \ Defs(insns[N - p[1] + 1])) \cup Uses(insns[N - p[1] + 1])]
<1>1. \A n \in 1..N : N - n + 1 \in DOMAIN insns BY DEF Within
<1>2. \A n \in 1..N : Defs(insns[N - n + 1]) \subseteq K /\ Uses(insns[N - n + 1]) \subseteq K
  BY <1>1 DEF Within
<1>3. F \in [(1..N) \X D -> D] BY <1>2
<1>4. PICK q : Computes(q, N, D, live, F)
  <2>1. live \in D OBVIOUS
  <2> HIDE DEF F, D
  <2> QED BY <1>3, <2>1, Recursion
<1>5. q \in [0..N -> D] /\ q[0] = live /\ \A n \in 1..N : q[n] = F[<<n, q[n - 1]>>]
  <2> HIDE DEF F, D
  <2> QED BY <1>4 DEF Computes
<1>6. \A n \in 1..N : q[n] = (q[n - 1] \ Defs(insns[N - n + 1])) \cup Uses(insns[N - n + 1])
  <2> TAKE n \in 1..N
  <2>1. <<n, q[n - 1]>> \in (1..N) \X D BY <1>5
  <2> QED BY <1>5, <2>1
<1>7. q = [n \in 0..N |-> IF n = 0 THEN live
             ELSE (q[n - 1] \ Defs(insns[N - n + 1])) \cup Uses(insns[N - n + 1])]
  <2>1. \A n \in 0..N : q[n] = IF n = 0 THEN live
             ELSE (q[n - 1] \ Defs(insns[N - n + 1])) \cup Uses(insns[N - n + 1])
    <3> TAKE n \in 0..N
    <3>1. n = 0 \/ n \in 1..N OBVIOUS
    <3> QED BY <3>1, <1>5, <1>6
  <2>2. q = [n \in 0..N |-> q[n]] BY <1>5
  <2> QED BY <2>1, <2>2
<1> DEFINE z == CHOOSE z : z = [n \in 0..N |-> IF n = 0 THEN live
             ELSE (z[n - 1] \ Defs(insns[N - n + 1])) \cup Uses(insns[N - n + 1])]
<1>8. z = [n \in 0..N |-> IF n = 0 THEN live
             ELSE (z[n - 1] \ Defs(insns[N - n + 1])) \cup Uses(insns[N - n + 1])]
  BY <1>7
<1>9. Through(insns, live) = z[N] BY DEF Through
<1> HIDE DEF z
<1>10. z[0] \in D
  <2>1. 0 \in 0..N OBVIOUS
  <2> QED BY <1>8, <2>1
<1>11. \A n \in 1..N : z[n - 1] \in D => z[n] \in D
  <2> TAKE n \in 1..N
  <2>1. n \in 0..N /\ n # 0 OBVIOUS
  <2>2. z[n] = (z[n - 1] \ Defs(insns[N - n + 1])) \cup Uses(insns[N - n + 1]) BY <1>8, <2>1
  <2> QED BY <2>2, <1>2
<1>12. z[N] \in D
  <2>1. N \in 0..N OBVIOUS
  <2> HIDE DEF D, F
  <2> QED BY <1>10, <1>11, <2>1, Stays
<1> QED BY <1>9, <1>12

\* An instruction names registers there are.
LEMMA InsnType ==
  ASSUME NEW insn, NEW k, insn \in Insn, WellFormed(insn, k)
  PROVE  Defs(insn) \subseteq DOMAIN k /\ Uses(insn) \subseteq DOMAIN k
         /\ {o.reg : o \in ToSet(insn.ops)} \subseteq DOMAIN k
BY DEF Defs, Uses, ToSet, WellFormed

\* So do the instructions of a block.
LEMMA CodeWithin ==
  ASSUME NEW c, NEW k, Program(c, k), NEW b \in Block
  PROVE  Within(c[b], DOMAIN k)
<1>1. \A i \in DOMAIN c[b] : c[b][i] \in Insn /\ WellFormed(c[b][i], k) BY DEF Program
<1>2. Len(c[b]) \in Nat /\ DOMAIN c[b] = 1..Len(c[b]) BY DEF Program
<1> QED BY <1>1, <1>2, InsnType DEF Within

\* What is live behind a block is live before one that follows it.
LEMMA OutType ==
  ASSUME NEW K, NEW l \in [Block -> SUBSET K], NEW b \in Block
  PROVE  Out(l, b) \subseteq K
BY BlocksAssumption DEF Out

\* The number of rounds that liveness takes is finite.
LEMMA RoundsType ==
  ASSUME NEW c, NEW k, Numbered(k), Program(c, k)
  PROVE  Rounds(c) \in Nat
<1>1. IsFiniteSet(Block)
  <2>1. IsFiniteSet(DOMAIN Blocks) 
    <3>1. DOMAIN Blocks = 1..Len(Blocks) /\ Len(Blocks) \in Nat BY BlocksAssumption
    <3> QED BY <3>1, FS_Interval
  <2>2. Blocks \in [DOMAIN Blocks -> Block] /\ \A b \in Block : \E i \in DOMAIN Blocks : Blocks[i] = b
    BY BlocksAssumption DEF ToSet
  <2>3. Blocks \in Surjection(DOMAIN Blocks, Block) BY <2>2 DEF Surjection
  <2> QED BY <2>1, <2>3, FS_Surjection
<1>2. IsFiniteSet(Used(c))
  <2>1. \A b \in Block : \A insn \in ToSet(c[b]) : insn \in Insn /\ WellFormed(insn, k)
    BY DEF Program, ToSet
  <2>2. Used(c) \subseteq DOMAIN k
    <3> SUFFICES ASSUME NEW x \in Used(c) PROVE x \in DOMAIN k OBVIOUS
    <3>1. PICK b \in Block : x \in UNION {{o.reg : o \in ToSet(insn.ops)} : insn \in ToSet(c[b])}
      BY DEF Used
    <3>2. PICK insn \in ToSet(c[b]) : x \in {o.reg : o \in ToSet(insn.ops)} BY <3>1
    <3> QED BY <2>1, <3>2, InsnType
  <2> QED BY <2>2, NodesFinite, FS_Subset
<1>3. \A x, y \in Nat : x * y \in Nat OBVIOUS
<1>4. Cardinality(Block) \in Nat /\ Cardinality(Used(c)) \in Nat BY <1>1, <1>2, FS_CardinalityType
<1> QED BY <1>3, <1>4 DEF Rounds

\* Live sets are sets of registers.
LEMMA LiveInType ==
  ASSUME NEW c, NEW k, Numbered(k), Program(c, k)
  PROVE  LiveIn(c) \in [Block -> SUBSET DOMAIN k]
<1> PICK N \in Nat : N = Rounds(c) BY RoundsType
<1> PICK K : K = DOMAIN k OBVIOUS
<1> DEFINE D == [Block -> SUBSET K]
           Round(l) == [b \in Block |-> Through(c[b], Out(l, b))]
           F == [p \in (1..N) \X D |-> Round(p[2])]
           none == [b \in Block |-> {}]
<1>1. none \in D OBVIOUS
<1>2. ASSUME NEW l \in D PROVE Round(l) \in D
  <2> SUFFICES ASSUME NEW b \in Block PROVE Through(c[b], Out(l, b)) \subseteq K OBVIOUS
  <2>1. Out(l, b) \subseteq K BY OutType
  <2>2. Within(c[b], K) BY CodeWithin
  <2> QED BY <2>1, <2>2, ThroughType
<1>3. F \in [(1..N) \X D -> D]
  <2>1. \A p \in (1..N) \X D : p[2] \in D OBVIOUS
  <2> HIDE DEF D, Round
  <2> QED BY <1>2, <2>1
<1>4. PICK q : Computes(q, N, D, none, F)
  <2> HIDE DEF F, D, none
  <2> QED BY <1>1, <1>3, Recursion
<1>5. q \in [0..N -> D] /\ q[0] = none /\ \A n \in 1..N : q[n] = F[<<n, q[n - 1]>>]
  <2> HIDE DEF F, D, none
  <2> QED BY <1>4 DEF Computes
<1>6. \A n \in 1..N : q[n] = Round(q[n - 1])
  <2> TAKE n \in 1..N
  <2>1. q[n - 1] \in D
    <3> HIDE DEF F, D, none
    <3> QED BY <1>5
  <2>2. <<n, q[n - 1]>> \in (1..N) \X D
    <3> HIDE DEF F, D, none
    <3> QED BY <2>1
  <2>3. F[<<n, q[n - 1]>>] = Round(q[n - 1])
    <3> HIDE DEF D, none, Round
    <3> QED BY <2>2
  <2> HIDE DEF F, D, none, Round
  <2> QED BY <1>5, <2>3
<1>7. \A l : (CHOOSE r \in {[b \in Block |-> Through(c[b], Out(x, b))] : x \in {l}} : TRUE) = Round(l)
  OBVIOUS
<1>8. q = [n \in 0..N |-> IF n = 0 THEN [b \in Block |-> {}]
        ELSE CHOOSE r \in {[b \in Block |-> Through(c[b], Out(l, b))] : l \in {q[n - 1]}} : TRUE]
  <2>1. \A n \in 0..N : q[n] = IF n = 0 THEN [b \in Block |-> {}]
        ELSE CHOOSE r \in {[b \in Block |-> Through(c[b], Out(l, b))] : l \in {q[n - 1]}} : TRUE
    <3> TAKE n \in 0..N
    <3>1. n = 0 \/ n \in 1..N OBVIOUS
    <3>2. CASE n = 0 BY <3>2, <1>5
    <3>3. CASE n # 0 /\ n \in 1..N
      <4>1. q[n] = Round(q[n - 1]) BY <1>6, <3>3
      <4> QED BY ONLY <4>1, <3>3, <1>7
    <3> QED BY <3>1, <3>2, <3>3
  <2>2. q = [n \in 0..N |-> q[n]] BY <1>5
  <2> HIDE DEF F, D, none, Round
  <2> QED BY <2>1, <2>2
<1> DEFINE after == CHOOSE z : z = [n \in 0..N |-> IF n = 0 THEN [b \in Block |-> {}]
        ELSE CHOOSE r \in {[b \in Block |-> Through(c[b], Out(l, b))] : l \in {z[n - 1]}} : TRUE]
<1>9. after = [n \in 0..N |-> IF n = 0 THEN [b \in Block |-> {}]
        ELSE CHOOSE r \in {[b \in Block |-> Through(c[b], Out(l, b))] : l \in {after[n - 1]}} : TRUE]
  BY <1>8
<1>10. LiveIn(c) = after[N] BY DEF LiveIn
<1> HIDE DEF after
<1>11. after[0] \in D
  <2>1. 0 \in 0..N OBVIOUS
  <2>2. after[0] = none BY <1>9, <2>1
  <2> QED BY <1>1, <2>2
<1>12. \A n \in 1..N : after[n - 1] \in D => after[n] \in D
  <2> TAKE n \in 1..N
  <2>1. n \in 0..N /\ n # 0 OBVIOUS
  <2>2. after[n] = CHOOSE r \in {[b \in Block |-> Through(c[b], Out(l, b))] : l \in {after[n - 1]}} : TRUE
    BY <1>9, <2>1
  <2>3. after[n] = Round(after[n - 1]) BY ONLY <2>2, <1>7
  <2> HIDE DEF D, Round
  <2> QED BY <2>3, <1>2
<1>13. after[N] \in D
  <2>1. N \in 0..N OBVIOUS
  <2> HIDE DEF D, F
  <2> QED BY <1>11, <1>12, <2>1, Stays
<1> QED BY <1>10, <1>13

\* So is what is live behind an instruction.
LEMMA AfterType ==
  ASSUME NEW c, NEW k, Numbered(k), Program(c, k), NEW b \in Block, NEW i \in DOMAIN c[b]
  PROVE  After(c, LiveIn(c), b, i) \subseteq DOMAIN k
<1> PICK s : s = c[b] OBVIOUS
<1>1. s \in Seq(Insn) BY DEF Program
<1>2. Within(s, DOMAIN k) /\ i \in 1..Len(s) /\ Len(s) \in Nat BY CodeWithin, <1>1
<1> PICK t : t = SubSeq(s, i + 1, Len(s)) OBVIOUS
<1>3. Len(t) = Len(s) - i /\ DOMAIN t = 1..Len(t) /\ \A j \in 1..(Len(s) - i) : t[j] = s[i + j]
  BY ONLY <1>1, <1>2, t = SubSeq(s, i + 1, Len(s))
<1>4. Within(t, DOMAIN k)
  <2>1. \A j \in 1..(Len(s) - i) : i + j \in 1..Len(s) BY <1>2
  <2>2. Len(t) \in Nat BY <1>2, <1>3
  <2> QED BY <1>2, <1>3, <2>1, <2>2 DEF Within
<1>5. Out(LiveIn(c), b) \subseteq DOMAIN k BY LiveInType, OutType
<1> QED BY <1>4, <1>5, ThroughType DEF After

\* The members of a product are pairs.
LEMMA Pairs ==
  ASSUME NEW P, NEW Q, NEW x \in P \X Q
  PROVE  x = <<x[1], x[2]>> /\ x[1] \in P /\ x[2] \in Q
OBVIOUS

\* build_i_graph asks for arcs between two different registers, in both directions.
LEMMA ArcsFacts ==
  ASSUME NEW c, NEW k, Numbered(k), Program(c, k), NEW a \in Arcs(c)
  PROVE  /\ a[1] \in DOMAIN k /\ a[2] \in DOMAIN k /\ a[1] # a[2]
         /\ a = <<a[1], a[2]>> /\ <<a[2], a[1]>> \in Arcs(c)
<1> DEFINE at(b, i) == LET live == After(c, LiveIn(c), b, i) IN
                  Clashes(c[b][i], live) \cup CallClashes(c[b], i, live)
           arcs == UNION {UNION {at(b, i) : i \in DOMAIN c[b]} : b \in Block}
<1>1. Arcs(c) = {x \in arcs \cup {<<y[2], y[1]>> : y \in arcs} : x[1] # x[2]} BY DEF Arcs
<1>2. ASSUME NEW x \in arcs PROVE x = <<x[1], x[2]>> /\ x[1] \in DOMAIN k /\ x[2] \in DOMAIN k
  <2>1. PICK b \in Block : x \in UNION {at(b, i) : i \in DOMAIN c[b]} OBVIOUS
  <2>2. PICK i \in DOMAIN c[b] : x \in at(b, i) BY <2>1
  <2> PICK live : live = After(c, LiveIn(c), b, i) OBVIOUS
  <2>3. live \subseteq DOMAIN k BY AfterType
  <2>4. Within(c[b], DOMAIN k) BY CodeWithin
  <2>5. x \in Clashes(c[b][i], live) \/ x \in CallClashes(c[b], i, live) BY <2>2
  <2>0. Defs(c[b][i]) \subseteq DOMAIN k BY <2>4 DEF Within
  <2>6. CASE x \in Clashes(c[b][i], live)
    <3> PICK P : P = Defs(c[b][i]) OBVIOUS
    <3> PICK Q : Q = (live \cup P) \ (IF c[b][i].kind = "move" THEN Uses(c[b][i]) ELSE {}) OBVIOUS
    <3>1. x \in P \X Q BY <2>6 DEF Clashes
    <3>2. P \subseteq DOMAIN k /\ Q \subseteq DOMAIN k BY <2>0, <2>3
    <3> QED BY ONLY <3>1, <3>2, Pairs
  <2>7. CASE x \in CallClashes(c[b], i, live)
    <3>1. PICK j \in Marker(c[b], i)..(i - 1) : x \in CallerSave \X (live \cup Defs(c[b][j]))
      BY <2>7 DEF CallClashes
    <3>2. i \in Nat /\ i \in 1..Len(c[b]) /\ Len(c[b]) \in Nat BY <2>4 DEF Within
    <3>3. Marker(c[b], i) \in 1..i
      <4> PICK M : M = {n \in 1..i : c[b][n].kind = "marker"} OBVIOUS
      <4>1. M \subseteq 0..i BY <3>2
      <4>2. M # {} => Max(M) \in M BY <3>2, <4>1, MaxIn
      <4> QED BY <3>2, <4>2 DEF Marker
    <3>4. j \in DOMAIN c[b] BY <2>4, <3>2, <3>3 DEF Within
    <3>5. CallerSave \subseteq DOMAIN k BY RegistersAssumption, NodesFinite
    <3> PICK Q : Q = live \cup Defs(c[b][j]) OBVIOUS
    <3>6. Q \subseteq DOMAIN k BY <2>3, <2>4, <3>4 DEF Within
    <3>7. x \in CallerSave \X Q BY <3>1
    <3> QED BY ONLY <3>5, <3>6, <3>7, Pairs
  <2> QED BY <2>5, <2>6, <2>7
<1> HIDE DEF arcs
<1>3. PICK A : A = arcs OBVIOUS
<1>4. Arcs(c) = {x \in A \cup {<<y[2], y[1]>> : y \in A} : x[1] # x[2]} BY <1>1, <1>3
<1>5. \A x \in A : x = <<x[1], x[2]>> /\ x[1] \in DOMAIN k /\ x[2] \in DOMAIN k BY <1>2, <1>3
<1>6. a[1] # a[2] BY <1>4
<1>7. CASE a \in A
  <2>1. a = <<a[1], a[2]>> /\ a[1] \in DOMAIN k /\ a[2] \in DOMAIN k BY <1>5, <1>7
  <2> PICK v : v = a[1] OBVIOUS
  <2> PICK w : w = a[2] OBVIOUS
  <2>2. <<w, v>> \in A \cup {<<y[2], y[1]>> : y \in A} BY <1>7
  <2>3. <<w, v>>[1] # <<w, v>>[2] BY <1>6
  <2> QED BY <1>4, <1>6, <2>1, <2>2, <2>3
<1>8. CASE a \notin A
  <2>1. PICK y \in A : a = <<y[2], y[1]>> BY <1>4, <1>8
  <2>2. y = <<y[1], y[2]>> /\ y[1] \in DOMAIN k /\ y[2] \in DOMAIN k BY <1>5
  <2>3. a[1] = y[2] /\ a[2] = y[1] BY <2>1
  <2>4. y[1] # y[2] BY <1>6, <2>3
  <2>5. y \in Arcs(c) BY <1>4, <2>4
  <2> QED BY <1>6, <2>1, <2>2, <2>3, <2>5
<1> QED BY <1>7, <1>8

-----------------------------------------------------------------------------
\* The graph as it is built.

\* The graph before it is built.
Fresh(k, h) ==
  /\ h.simplify = {} /\ h.freeze = {} /\ h.spill = {} /\ h.select = {} /\ h.coalesced = {}
  /\ h.worklist = {} /\ h.active = {} /\ h.spilled = {} /\ h.stack = <<>> /\ Uncoloured(k, h)

\* The neighbours that a set of arcs gives v.
Ends(arcs, v) == {a[2] : a \in {x \in arcs : x[1] = v}}

\* The degree a node is given is the number of its neighbours.
LEMMA EndsCount ==
  ASSUME NEW c, NEW k, Numbered(k), Program(c, k), NEW v \in DOMAIN k
  PROVE  /\ Ends(Arcs(c), v) \subseteq DOMAIN k
         /\ Cardinality({x \in Arcs(c) : x[1] = v}) = Cardinality(Ends(Arcs(c), v))
         /\ Cardinality(Ends(Arcs(c), v)) \in Nat
<1> PICK A : A = Arcs(c) OBVIOUS
<1> DEFINE S == {x \in A : x[1] = v}
           T == {a[2] : a \in S}
           f == [x \in S |-> x[2]]
<1>1. \A a \in A : a[1] \in DOMAIN k /\ a[2] \in DOMAIN k /\ a = <<a[1], a[2]>> BY ArcsFacts
<1>2. T \subseteq DOMAIN k BY <1>1
<1>3. IsFiniteSet(T) BY <1>2, NodesFinite, FS_Subset
<1>4. f \in [S -> T] OBVIOUS
<1>5. \A x, y \in S : f[x] = f[y] => x = y
  <2> TAKE x \in S, y \in S
  <2>1. x = <<v, x[2]>> /\ y = <<v, y[2]>> BY <1>1
  <2> QED BY <2>1
<1>6. \A t \in T : \E x \in S : f[x] = t OBVIOUS
<1>7. f \in Injection(S, T)
  <2> HIDE DEF S, T, f
  <2> QED BY <1>4, <1>5 DEF Injection, IsInjective
<1>8. f \in Surjection(S, T)
  <2> HIDE DEF S, T, f
  <2> QED BY <1>4, <1>6 DEF Surjection
<1>9. Cardinality(S) = Cardinality(T)
  <2> HIDE DEF S, T, f
  <2> QED BY <1>3, <1>7, <1>8, FS_Injection
<1>10. Cardinality(T) \in Nat BY <1>3, FS_CardinalityType
<1> QED BY <1>2, <1>9, <1>10 DEF Ends

\* What the graph is built of.
Built(h, r, arcs) ==
  /\ r.adj = [v \in Reg |-> Ends(arcs, v)]
  /\ r.degree = [v \in Reg |-> Cardinality({x \in arcs : x[1] = v})]
  /\ r.moves = [v \in Reg |-> {m \in Moves(code) : v \in {m.src, m.dst}}]
  /\ r.worklist = Moves(code)
  /\ r.spill = {v \in Reg \ Hard : Cardinality(Ends(arcs, v)) >= Room(class, v)}
  /\ r.freeze = {v \in Reg \ (Hard \cup r.spill) : MoveRelated(r, v)}
  /\ r.simplify = Reg \ (Hard \cup r.spill \cup r.freeze)
  /\ r.select = h.select /\ r.coalesced = h.coalesced /\ r.active = h.active
  /\ r.spilled = h.spilled /\ r.stack = h.stack /\ r.hardNum = h.hardNum /\ r.alias = h.alias

\* The graph that Build makes is typed, and made of what Built says.
LEMMA BuildType ==
  ASSUME Numbered(class), Program(code, class), Shape(class, code, g), Build
  PROVE  Shape(class, code, g') /\ Built(g, g', Arcs(code))
<1> PICK arcs : arcs = Arcs(code) OBVIOUS
<1> DEFINE Q == [v \in Reg |-> {a[2] : a \in {x \in arcs : x[1] = v}}]
           D == [v \in Reg |-> Cardinality({x \in arcs : x[1] = v})]
           M == [v \in Reg |-> {m \in Moves(code) : v \in {m.src, m.dst}}]
           h == [g EXCEPT !.adj = Q, !.degree = D, !.moves = M, !.worklist = Moves(code)]
           S == {v \in Reg \ Hard : Cardinality(h.adj[v]) >= Avail(v)}
           T == {v \in Reg \ (Hard \cup S) : MoveRelated(h, v)}
           K == Reg \ (Hard \cup S \cup T)
<1>1. g' = [h EXCEPT !.spill = S, !.freeze = T, !.simplify = K] BY DEF Build
<1>2. \A v \in Reg : /\ Ends(arcs, v) \subseteq Reg
                     /\ Cardinality({x \in arcs : x[1] = v}) \in Nat
  BY EndsCount DEF Reg
<1>3. Q = [v \in Reg |-> Ends(arcs, v)] BY DEF Ends
<1>4. Q \in [Reg -> SUBSET Reg] /\ D \in [Reg -> Int] /\ M \in [Reg -> SUBSET Moves(code)]
  <2>1. Q \in [Reg -> SUBSET Reg] BY <1>2, <1>3
  <2>2. D \in [Reg -> Int] BY <1>2
  <2>3. M \in [Reg -> SUBSET Moves(code)] OBVIOUS
  <2> QED BY <2>1, <2>2, <2>3
<1>5. h.adj = Q /\ h.moves = M /\ h.worklist = Moves(code) /\ h.active = g.active
  <2> HIDE DEF Q, D, M
  <2> QED BY DEF Shape, Records
<1>6. S = {v \in Reg \ Hard : Cardinality(Ends(arcs, v)) >= Room(class, v)}
  <2>1. \A v \in Reg : h.adj[v] = Ends(arcs, v) BY <1>3, <1>5
  <2> HIDE DEF h, Q, D, M
  <2> QED BY <2>1 DEF Avail, Room
<1>7. S \subseteq Reg /\ T \subseteq Reg /\ K \subseteq Reg OBVIOUS
<1>8. /\ Shape(class, code, g')
      /\ g'.adj = Q /\ g'.degree = D /\ g'.moves = M /\ g'.worklist = Moves(code)
      /\ g'.spill = S /\ g'.freeze = T /\ g'.simplify = K
      /\ g'.select = g.select /\ g'.coalesced = g.coalesced /\ g'.active = g.active
      /\ g'.spilled = g.spilled /\ g'.stack = g.stack /\ g'.hardNum = g.hardNum /\ g'.alias = g.alias
  <2> PICK r : r = g' OBVIOUS
  <2> PICK W : W = Moves(code) OBVIOUS
  <2>1. r = [[g EXCEPT !.adj = Q, !.degree = D, !.moves = M, !.worklist = W]
                EXCEPT !.spill = S, !.freeze = T, !.simplify = K]
    BY <1>1
  <2> HIDE DEF Q, D, M, S, T, K, h
  <2>2. M \in [Reg -> SUBSET W] /\ W = Moves(code) BY <1>4
  <2>3. Shape(class, code, g) OBVIOUS
  <2>4. /\ Shape(class, code, r)
        /\ r.adj = Q /\ r.degree = D /\ r.moves = M /\ r.worklist = W
        /\ r.spill = S /\ r.freeze = T /\ r.simplify = K
        /\ r.select = g.select /\ r.coalesced = g.coalesced /\ r.active = g.active
        /\ r.spilled = g.spilled /\ r.stack = g.stack /\ r.hardNum = g.hardNum /\ r.alias = g.alias
    BY ONLY <2>1, <2>2, <2>3, <1>4, <1>7 DEF Shape, Records, Reg
  <2> QED BY <2>4
<1>9. \A v : MoveRelated(g', v) = MoveRelated(h, v) BY <1>5, <1>8 DEF MoveRelated, NodeMoves
<1>10. T = {v \in Reg \ (Hard \cup S) : MoveRelated(g', v)} BY <1>9
<1> HIDE DEF S, T, K, Q, D, M, h
<1>11. g'.freeze = {v \in Reg \ (Hard \cup S) : MoveRelated(g', v)} BY <1>8, <1>10
<1>12. g'.simplify = Reg \ (Hard \cup S \cup T) BY <1>8 DEF K
<1>13. g'.degree = [v \in Reg |-> Cardinality({x \in arcs : x[1] = v})] BY <1>8 DEF D
<1>14. g'.moves = [v \in Reg |-> {m \in Moves(code) : v \in {m.src, m.dst}}] BY <1>8 DEF M
<1> QED BY <1>3, <1>6, <1>8, <1>11, <1>12, <1>13, <1>14 DEF Built

\* build_i_graph and build_worklists leave the graph in order, no hard register listed.
LEMMA BuildGraph ==
  ASSUME NEW h, NEW r, Numbered(class), Program(code, class), Fresh(class, h),
         Shape(class, code, r), Built(h, r, Arcs(code))
  PROVE  Graph(class, code, r, {}) /\ Hard \cap InLists(r) = {}
<1> PICK arcs : arcs = Arcs(code) OBVIOUS
<1>1. /\ r.select = {} /\ r.coalesced = {} /\ r.active = {} /\ r.spilled = {} /\ r.stack = <<>>
      /\ r.hardNum = h.hardNum
  BY DEF Fresh, Built
<1>2. \A a \in arcs : /\ a[1] \in Reg /\ a[2] \in Reg /\ a[1] # a[2]
                      /\ a = <<a[1], a[2]>> /\ <<a[2], a[1]>> \in arcs
  BY ArcsFacts DEF Reg
<1>3. \A v \in Reg : \A w : w \in r.adj[v] <=> <<v, w>> \in arcs
  <2> TAKE v \in Reg
  <2> TAKE w
  <2>1. r.adj[v] = Ends(arcs, v) BY DEF Built
  <2>2. ASSUME w \in Ends(arcs, v) PROVE <<v, w>> \in arcs
    <3>1. PICK a \in arcs : a[1] = v /\ w = a[2] BY <2>2 DEF Ends
    <3> QED BY <3>1, <1>2
  <2>3. ASSUME <<v, w>> \in arcs PROVE w \in Ends(arcs, v)
    <3>1. <<v, w>>[1] = v /\ <<v, w>>[2] = w OBVIOUS
    <3> QED BY <2>3, <3>1 DEF Ends
  <2> QED BY <2>1, <2>2, <2>3
<1>4. \A v \in Reg : \A w : w \in r.adj[v] => w \in Reg /\ v # w /\ v \in r.adj[w]
  <2> SUFFICES ASSUME NEW v \in Reg, NEW w, w \in r.adj[v] PROVE w \in Reg /\ v # w /\ v \in r.adj[w]
    OBVIOUS
  <2> PICK a : a = <<v, w>> OBVIOUS
  <2>1. a \in arcs /\ a[1] = v /\ a[2] = w BY <1>3
  <2>2. <<w, v>> \in arcs /\ w \in Reg /\ v # w BY <1>2, <2>1
  <2> QED BY <1>3, <2>2
<1>5. \A v \in Reg : /\ r.degree[v] = Cardinality(Ends(arcs, v)) /\ r.adj[v] = Ends(arcs, v)
                     /\ Cardinality(Ends(arcs, v)) \in Nat /\ Room(class, v) \in Nat
  <2>1. \A v \in DOMAIN class : Cardinality({x \in arcs : x[1] = v}) = Cardinality(Ends(arcs, v))
                                 /\ Cardinality(Ends(arcs, v)) \in Nat
    BY EndsCount
  <2>2. \A v \in DOMAIN class : Room(class, v) \in Nat BY RoomType
  <2>3. r.degree = [v \in Reg |-> Cardinality({x \in arcs : x[1] = v})] BY DEF Built
  <2>4. r.adj = [v \in Reg |-> Ends(arcs, v)] BY DEF Built
  <2> TAKE v \in Reg
  <2>5. r.degree[v] = Cardinality({x \in arcs : x[1] = v}) BY <2>3
  <2>6. r.adj[v] = Ends(arcs, v) BY <2>4
  <2> QED BY <2>1, <2>2, <2>5, <2>6 DEF Reg
<1>6. Symmetric(class, r) BY <1>4 DEF Symmetric, Reg
<1>7. Stacked(r) BY <1>1 DEF Stacked, ToSet
<1>8. Ranked(class, r)
  <2>1. [v \in DOMAIN class |-> 0] \in [DOMAIN class -> 0..0] OBVIOUS
  <2> QED BY <2>1, <1>1 DEF Ranked
<1>9. Uncoloured(class, r) BY <1>1 DEF Fresh, Uncoloured
<1>10. Gone(r) = {} BY <1>1 DEF Gone
<1>11. /\ r.spill = {v \in Reg \ Hard : Cardinality(Ends(arcs, v)) >= Room(class, v)}
       /\ r.freeze = {v \in Reg \ (Hard \cup r.spill) : MoveRelated(r, v)}
       /\ r.simplify = Reg \ (Hard \cup r.spill \cup r.freeze)
  BY DEF Built
<1>12. Apart(class, r) BY <1>1, <1>10, <1>11 DEF Apart, Reg
<1>13. Levels(class, r, {})
  <2>1. \A v \in r.freeze : v \in Reg /\ v \notin Hard /\ v \notin r.spill BY <1>11
  <2>2. \A v \in Reg \ Hard : v \notin r.spill => r.degree[v] < Room(class, v) BY <1>5, <1>11
  <2>3. \A v \in r.spill : r.degree[v] >= Room(class, v) BY <1>5, <1>11
  <2> QED BY <2>1, <2>2, <2>3 DEF Levels
<1>14. Related(r, {}) BY <1>1, <1>11 DEF Related
<1>15. Owing(class, r, {}, 0)
  <2>1. \A v \in Reg : Adjacent(r, v) = Ends(arcs, v) BY <1>1, <1>5 DEF Adjacent
  <2>2. \A v \in Reg : r.degree[v] = Cardinality(Adjacent(r, v)) + 0 BY <1>5, <2>1
  <2> QED BY <2>2 DEF Owing, Reg
<1>16. \A v \in DOMAIN class : Alias(r, v) = v BY <1>1, <1>8, AliasFacts
<1>17. Owned(class, r)
  <2>1. \A m \in Moves(code) : m.src \in Reg /\ m.dst \in Reg BY MovesFacts DEF Reg
  <2>2. \A v \in Reg : r.moves[v] = {m \in Moves(code) : v \in {m.src, m.dst}} BY DEF Built
  <2>3. r.active \cup r.worklist = Moves(code) BY <1>1 DEF Built
  <2>4. \A v \in Reg : Alias(r, v) = v BY <1>16 DEF Reg
  <2> SUFFICES ASSUME NEW m \in Moves(code)
               PROVE  /\ m \in r.moves[Alias(r, m.src)] /\ m \in r.moves[Alias(r, m.dst)]
                      /\ \A v \in Reg : m \in r.moves[v] => v \in {Alias(r, m.src), Alias(r, m.dst)}
    BY <2>3 DEF Owned, Reg
  <2>5. Alias(r, m.src) = m.src /\ Alias(r, m.dst) = m.dst BY <2>1, <2>4
  <2> QED BY <2>1, <2>2, <2>5
<1>18. SameClass(class, r) BY <1>16 DEF SameClass
<1>19. Covers(class, code, r)
  <2> SUFFICES ASSUME NEW a \in arcs PROVE a[1] \in Reg /\ a[2] \in r.adj[a[1]] BY DEF Covers, Reg
  <2>1. a[1] \in Reg /\ a = <<a[1], a[2]>> BY <1>2
  <2> QED BY <1>3, <2>1
<1>20. Kept(class, r)
  <2> SUFFICES ASSUME NEW v \in Reg, NEW w \in r.adj[v]
               PROVE  Left(r, Alias(r, v), Alias(r, w))
    BY DEF Kept, Reg
  <2>1. w \in Reg /\ v # w BY <1>4
  <2>2. Alias(r, v) = v /\ Alias(r, w) = w BY <1>16, <2>1 DEF Reg
  <2>3. DOMAIN r.stack = {} BY <1>1
  <2> QED BY <1>1, <2>1, <2>2, <2>3 DEF Left
<1>21. Hard \cap InLists(r) = {} BY <1>1, <1>11 DEF InLists
<1>22. r.active \cap r.worklist = {} BY <1>1
<1> QED BY <1>1, <1>6, <1>7, <1>8, <1>9, <1>12, <1>13, <1>14, <1>15, <1>17, <1>18, <1>19, <1>20,
           <1>21, <1>22 DEF Graph

-----------------------------------------------------------------------------
\* Colours.

\* The lists while colours are given.
Assigning(h) ==
  /\ h.worklist = {} /\ h.select \cap h.coalesced = {} /\ h.coalesced \cap Hard = {}
  /\ h.spilled \cap (Hard \cup Gone(h)) = {}
\* Two nodes that interfere have different colours, or will get them.
Distinct(h, p, q) ==
  /\ p # q
  /\ p \notin h.select /\ q \notin h.select => h.hardNum[p] # h.hardNum[q] \/ h.hardNum[p] = -1
  /\ p \in h.select /\ q \notin h.select => Sees(h, p, q)
  /\ \A i, j \in DOMAIN h.stack : i < j /\ h.stack[j] = p /\ h.stack[i] = q => Sees(h, p, q)
\* While colours are given: what has none is on the stack, and what interferes differs.
Colouring(k, c, h) ==
  /\ SameClass(k, h) /\ Covers(k, c, h) /\ h.select \cap Hard = {}
  /\ \A v \in DOMAIN k : \A w \in h.adj[v] : Distinct(h, Alias(h, v), Alias(h, w))
  /\ \A v \in h.select : h.hardNum[v] = -1
  /\ \A v \in DOMAIN k \ (Hard \cup Gone(h) \cup h.spilled) : h.hardNum[v] \in Available[k[v]]

\* The registers a class can give are hard ones, and those are nodes.
LEMMA HardTypes ==
  ASSUME NEW k, Numbered(k)
  PROVE  /\ \A v \in DOMAIN k : Available[k[v]] \subseteq Hard
         /\ \A v \in Hard : v \in Nat /\ v # -1 /\ v \in DOMAIN k
<1>1. \A v \in DOMAIN k : k[v] \in DOMAIN Available BY DEF Numbered
<1>2. Hard \subseteq Nat BY RegistersAssumption DEF Hard
<1> QED BY <1>1, <1>2, NodesFinite, RegistersAssumption

\* When every list is empty the stack can be coloured: all that is left uncoloured is
\* on it, and what interferes is seen by the one that is coloured later.
LEMMA TakenApartColouring ==
  ASSUME NEW k, NEW c, NEW h, Numbered(k), Graph(k, c, h, {}), h.worklist = {},
         h.simplify \cup h.freeze \cup h.spill = {}
  PROVE  Assigning(h) /\ (Hard \cap InLists(h) = {} => Colouring(k, c, h))
<1>0. /\ Shape(k, c, h) /\ Ranked(k, h) /\ h.spilled = {} /\ Uncoloured(k, h) /\ Apart(k, h)
      /\ SameClass(k, h) /\ Covers(k, c, h) /\ Kept(k, h)
  BY DEF Graph
<1>1. Assigning(h) BY <1>0 DEF Assigning, Apart
<1>2. DOMAIN k \subseteq Hard \cup Gone(h) BY <1>0 DEF Apart
<1>3. ASSUME Hard \cap InLists(h) = {} PROVE Colouring(k, c, h)
  <2>1. h.select \cap Hard = {} BY <1>3 DEF InLists
  <2>2. \A v \in DOMAIN k : h.hardNum[v] = IF v \in Hard THEN v ELSE -1 BY <1>0 DEF Uncoloured
  <2>3. \A v \in h.select : h.hardNum[v] = -1 BY <2>1, <2>2, <1>0, ShapeFacts
  <2>4. ASSUME NEW v \in DOMAIN k, NEW w \in h.adj[v] PROVE Distinct(h, Alias(h, v), Alias(h, w))
    <3> PICK p : p = Alias(h, v) OBVIOUS
    <3> PICK q : q = Alias(h, w) OBVIOUS
    <3>1. w \in DOMAIN k BY <1>0, ShapeFacts
    <3>2. p \in DOMAIN k /\ p \notin h.coalesced /\ q \in DOMAIN k /\ q \notin h.coalesced
      BY <1>0, <3>1, AliasFacts
    <3>3. Left(h, p, q) BY <1>0 DEF Kept
    <3>4. p \notin h.select /\ q \notin h.select => h.hardNum[p] # h.hardNum[q]
      <4> SUFFICES ASSUME p \notin h.select, q \notin h.select PROVE h.hardNum[p] # h.hardNum[q]
        OBVIOUS
      <4>1. p \in Hard /\ q \in Hard BY <1>2, <3>2 DEF Gone
      <4>2. p # q BY <3>3 DEF Left
      <4> QED BY <2>2, <3>2, <4>1, <4>2
    <3> QED BY <3>3, <3>4 DEF Left, Distinct
  <2>5. DOMAIN k \ (Hard \cup Gone(h) \cup h.spilled) = {} BY <1>2
  <2> QED BY <1>0, <2>1, <2>3, <2>4, <2>5 DEF Colouring
<1> QED BY <1>1, <1>3

\* v, the top of the stack, gets the colour n, or none.
Popped(h, r, v, n) ==
  /\ r.adj = h.adj /\ r.alias = h.alias /\ r.coalesced = h.coalesced
  /\ r.stack = Tail(h.stack) /\ r.select = h.select \ {v}
  /\ r.hardNum = [h.hardNum EXCEPT ![v] = n]
  /\ h.spilled \subseteq r.spilled

\* The top of the stack and the rest of it.
LEMMA TopFacts ==
  ASSUME NEW k, NEW c, NEW h, Shape(k, c, h), Stacked(h), h.stack # <<>>
  PROVE  /\ Head(h.stack) \in h.select /\ Head(h.stack) \in DOMAIN k
         /\ Tail(h.stack) \in Seq(DOMAIN k) /\ ToSet(Tail(h.stack)) = h.select \ {Head(h.stack)}
         /\ \A i \in DOMAIN Tail(h.stack) : i \in Nat /\ i + 1 \in DOMAIN h.stack
                                            /\ Tail(h.stack)[i] = h.stack[i + 1]
         /\ 1 \in DOMAIN h.stack /\ h.stack[1] = Head(h.stack)
         /\ \A i, j \in DOMAIN Tail(h.stack) : Tail(h.stack)[i] = Tail(h.stack)[j] => i = j
<1> PICK s : s = h.stack OBVIOUS
<1> PICK t : t = Tail(s) OBVIOUS
<1>1. s \in Seq(DOMAIN k) /\ s # <<>> BY DEF Shape, Records
<1>2. /\ Len(s) \in Nat /\ Len(s) >= 1 /\ DOMAIN s = 1..Len(s) /\ Head(s) = s[1]
      /\ t \in Seq(DOMAIN k) /\ Len(t) = Len(s) - 1 /\ DOMAIN t = 1..(Len(s) - 1)
      /\ \A i \in 1..(Len(s) - 1) : t[i] = s[i + 1]
  <2> PICK D : D = DOMAIN k OBVIOUS
  <2>1. s \in Seq(D) /\ s # <<>> BY <1>1
  <2>2. Len(s) \in Nat /\ Len(s) >= 1 /\ DOMAIN s = 1..Len(s) /\ Head(s) = s[1] BY ONLY <2>1
  <2>3. t \in Seq(D) /\ Len(t) = Len(s) - 1 /\ \A i \in 1..(Len(s) - 1) : t[i] = s[i + 1]
    BY ONLY <2>1, t = Tail(s)
  <2>4. DOMAIN t = 1..(Len(s) - 1) BY ONLY <2>3
  <2> QED BY <2>2, <2>3, <2>4
<1>3. ToSet(s) = h.select /\ \A i, j \in DOMAIN s : s[i] = s[j] => i = j BY DEF Stacked
<1>4. 1 \in DOMAIN s /\ s[1] \in h.select /\ s[1] \in DOMAIN k BY <1>1, <1>2, <1>3 DEF ToSet
<1>5. \A i \in DOMAIN t : i \in Nat /\ i + 1 \in DOMAIN s /\ i + 1 # 1 /\ t[i] = s[i + 1] BY <1>2
<1>6. ToSet(t) = ToSet(s) \ {s[1]}
  <2>1. ASSUME NEW x \in ToSet(t) PROVE x \in ToSet(s) \ {s[1]}
    <3>1. PICK i \in DOMAIN t : x = t[i] BY <2>1 DEF ToSet
    <3>2. x = s[i + 1] /\ i + 1 \in DOMAIN s /\ i + 1 # 1 BY <1>5, <3>1
    <3>3. x # s[1] BY <1>3, <1>4, <3>2
    <3> QED BY <3>2, <3>3 DEF ToSet
  <2>2. ASSUME NEW x \in ToSet(s) \ {s[1]} PROVE x \in ToSet(t)
    <3>1. PICK i \in DOMAIN s : x = s[i] BY <2>2 DEF ToSet
    <3>2. i # 1 BY <3>1
    <3>3. i - 1 \in 1..(Len(s) - 1) /\ (i - 1) + 1 = i BY <1>2, <3>2
    <3>4. t[i - 1] = x BY <1>2, <3>1, <3>3
    <3> QED BY <1>2, <3>3, <3>4 DEF ToSet
  <2> QED BY <2>1, <2>2
<1>7. \A i, j \in DOMAIN t : t[i] = t[j] => i = j BY <1>3, <1>5
<1> QED BY <1>2, <1>3, <1>4, <1>5, <1>6, <1>7

\* assign_colors keeps the colouring right: a node that gets a colour none of its
\* neighbours' aliases has differs from all that interfere with it.
LEMMA PoppedKeeps ==
  ASSUME NEW k, NEW c, NEW h, NEW r, NEW n, Numbered(k), Shape(k, c, h), Shape(k, c, r), Stacked(h),
         Symmetric(k, h), Ranked(k, h), Colouring(k, c, h), h.stack # <<>>,
         Popped(h, r, Head(h.stack), n), n # -1 \/ Head(h.stack) \in r.spilled,
         n # -1 => /\ n \in Available[k[Head(h.stack)]]
                   /\ \A w \in h.adj[Head(h.stack)] : n # h.hardNum[Alias(h, w)]
  PROVE  Colouring(k, c, r)
<1> PICK v : v = Head(h.stack) OBVIOUS
<1>1. \A x : Alias(r, x) = Alias(h, x) BY SameAliases DEF Popped
<1>2. /\ r.adj = h.adj /\ r.coalesced = h.coalesced /\ r.stack = Tail(h.stack) /\ r.select = h.select \ {v}
      /\ h.spilled \subseteq r.spilled
  BY DEF Popped
<1>3. h.hardNum \in [DOMAIN k -> {-1} \cup Hard] BY DEF Shape, Records
<1>4. \A x \in DOMAIN k : r.hardNum[x] = IF x = v THEN n ELSE h.hardNum[x] BY <1>3 DEF Popped
<1>5. \A p, q : Sees(r, p, q) = Sees(h, p, q) BY <1>1, <1>2 DEF Sees
<1>6. v \in h.select /\ v \in DOMAIN k /\ h.stack[1] = v /\ 1 \in DOMAIN h.stack BY TopFacts
<1>7. /\ SameClass(k, h) /\ Covers(k, c, h) /\ h.select \cap Hard = {}
      /\ \A x \in DOMAIN k : \A y \in h.adj[x] : Distinct(h, Alias(h, x), Alias(h, y))
      /\ \A x \in h.select : h.hardNum[x] = -1
      /\ \A x \in DOMAIN k \ (Hard \cup Gone(h) \cup h.spilled) : h.hardNum[x] \in Available[k[x]]
  BY DEF Colouring
<1>8. SameClass(k, r) BY <1>1, <1>7 DEF SameClass
<1>9. Covers(k, c, r) BY <1>2, <1>7 DEF Covers
<1>10. r.select \cap Hard = {} BY <1>2, <1>7
<1>11. \A x \in r.select : r.hardNum[x] = -1
  <2>1. h.select \subseteq DOMAIN k BY ShapeFacts
  <2> QED BY <1>2, <1>4, <1>7, <2>1
<1>12. ASSUME NEW x \in DOMAIN k \ (Hard \cup Gone(r) \cup r.spilled)
       PROVE  r.hardNum[x] \in Available[k[x]]
  <2>1. CASE x = v BY <1>4, <1>12, <2>1
  <2>2. CASE x # v
    <3>1. x \notin Gone(h) /\ x \notin h.spilled BY <1>2, <1>12, <2>2 DEF Gone
    <3> QED BY <1>4, <1>7, <1>12, <2>2, <3>1
  <2> QED BY <2>1, <2>2
<1>13. ASSUME NEW x \in DOMAIN k, NEW y \in h.adj[x] PROVE Distinct(r, Alias(h, x), Alias(h, y))
  <2> PICK p : p = Alias(h, x) OBVIOUS
  <2> PICK q : q = Alias(h, y) OBVIOUS
  <2>1. y \in DOMAIN k /\ x \in h.adj[y] BY <1>13, ShapeFacts DEF Symmetric
  <2>2. p \in DOMAIN k /\ q \in DOMAIN k BY <2>1, AliasFacts
  <2>3. Distinct(h, p, q) /\ Distinct(h, q, p) BY <1>7, <1>13, <2>1
  <2>4. p # q BY <2>3 DEF Distinct
  <2>5. \A z : Sees(h, v, z) => (n # -1 => n # h.hardNum[z])
    <3> SUFFICES ASSUME NEW z, Sees(h, v, z), n # -1 PROVE n # h.hardNum[z] OBVIOUS
    <3>1. PICK w \in h.adj[v] : Alias(h, w) = z BY DEF Sees
    <3> QED BY <3>1
  <2>6. p \notin r.select /\ q \notin r.select => r.hardNum[p] # r.hardNum[q] \/ r.hardNum[p] = -1
    <3> SUFFICES ASSUME p \notin r.select, q \notin r.select
                 PROVE  r.hardNum[p] # r.hardNum[q] \/ r.hardNum[p] = -1
      OBVIOUS
    <3>1. CASE p = v
      <4>1. q \notin h.select BY <1>2, <2>4, <3>1
      <4>2. Sees(h, v, q) BY <1>6, <2>3, <3>1, <4>1 DEF Distinct
      <4> QED BY <1>4, <2>2, <2>4, <2>5, <3>1, <4>2
    <3>2. CASE q = v
      <4>1. p \notin h.select BY <1>2, <2>4, <3>2
      <4>2. Sees(h, v, p) BY <1>6, <2>3, <3>2, <4>1 DEF Distinct
      <4> QED BY <1>4, <2>2, <2>4, <2>5, <3>2, <4>2
    <3>3. CASE p # v /\ q # v
      <4>1. h.hardNum[p] # h.hardNum[q] \/ h.hardNum[p] = -1 BY <1>2, <2>3, <3>3 DEF Distinct
      <4> QED BY <1>4, <2>2, <3>3, <4>1
    <3> QED BY <3>1, <3>2, <3>3
  <2>7. p \in r.select /\ q \notin r.select => Sees(h, p, q)
    <3> SUFFICES ASSUME p \in r.select, q \notin r.select PROVE Sees(h, p, q) OBVIOUS
    <3>1. CASE q # v BY <1>2, <2>3, <3>1 DEF Distinct
    <3>2. CASE q = v
      <4>1. p \in ToSet(h.stack) BY <1>2 DEF Stacked
      <4>2. PICK j \in DOMAIN h.stack : h.stack[j] = p BY <4>1 DEF ToSet
      <4>3. j # 1 BY <1>6, <2>4, <3>2, <4>2
      <4>4. 1 < j
        <5>1. h.stack \in Seq(DOMAIN k) BY DEF Shape, Records
        <5> QED BY <4>3, <5>1
      <4> QED BY <1>6, <2>3, <3>2, <4>2, <4>4 DEF Distinct
    <3> QED BY <3>1, <3>2
  <2>8. ASSUME NEW i \in DOMAIN r.stack, NEW j \in DOMAIN r.stack,
               i < j, r.stack[j] = p, r.stack[i] = q
        PROVE  Sees(h, p, q)
    <3>1. i \in Nat /\ j \in Nat /\ i + 1 \in DOMAIN h.stack /\ j + 1 \in DOMAIN h.stack
          /\ h.stack[i + 1] = q /\ h.stack[j + 1] = p
      BY <1>2, <2>8, TopFacts
    <3>2. i + 1 < j + 1 BY <2>8, <3>1
    <3> QED BY <2>3, <3>1, <3>2 DEF Distinct
  <2> QED BY <1>5, <2>4, <2>6, <2>7, <2>8 DEF Distinct
<1> QED BY <1>1, <1>2, <1>8, <1>9, <1>10, <1>11, <1>12, <1>13 DEF Colouring

-----------------------------------------------------------------------------
\* The invariant, and the steps that keep it.

\* What holds at each stage of a round; seen: a hard register was in a list.
State(k, c, h, at, seen) ==
  /\ at \in {"build", "color", "assign", "rewrite", "done", "fatal"}
  /\ Numbered(k) /\ Program(c, k) /\ Shape(k, c, h)
  /\ Symmetric(k, h) /\ Stacked(h) /\ Ranked(k, h) /\ h.active \cap h.worklist = {}
  /\ \A v \in Hard : h.hardNum[v] = v
  /\ at = "build" => Fresh(k, h)
  /\ at = "color" => Graph(k, c, h, {}) /\ (seen \/ Hard \cap InLists(h) = {})
  /\ at \in {"assign", "fatal"} => Assigning(h)
  /\ at = "assign" => seen \/ Colouring(k, c, h)
  /\ at = "rewrite" => h.spilled \cap Hard = {}
\* A finished colouring.
Finished(k, c, h) ==
  /\ \A v \in DOMAIN k \ Hard : h.hardNum[v] \in Available[k[v]]
  /\ \A a \in Arcs(c) : h.hardNum[a[1]] # h.hardNum[a[2]]
RaInv == State(class, code, g, pc, listed)
         /\ (pc = "done" => listed \/ Finished(class, code, g))

\* number_instructions to build_worklists keep the invariant.
LEMMA BuildKeeps == ASSUME RaInv, Build PROVE RaInv'
<1> PICK r : r = g' OBVIOUS
<1>1. /\ Numbered(class) /\ Program(code, class) /\ Shape(class, code, g) /\ Fresh(class, g)
      /\ \A v \in Hard : g.hardNum[v] = v
      /\ class' = class /\ code' = code /\ pc' = "color"
  BY DEF RaInv, State, Build
<1>2. Shape(class, code, r) /\ Built(g, r, Arcs(code)) BY <1>1, BuildType
<1>3. Graph(class, code, r, {}) /\ Hard \cap InLists(r) = {} BY <1>1, <1>2, BuildGraph
<1>4. \A v \in Hard : r.hardNum[v] = v BY <1>1, <1>2 DEF Built
<1>5. Symmetric(class, r) /\ Stacked(r) /\ Ranked(class, r) /\ r.active \cap r.worklist = {} BY <1>3 DEF Graph
<1>6. State(class, code, r, "color", listed') BY <1>1, <1>2, <1>3, <1>4, <1>5 DEF State
<1> QED BY <1>1, <1>6 DEF RaInv

\* A step of the phase that takes the graph apart.
LEMMA StepKeeps ==
  ASSUME RaInv, pc = "color", Graph(class, code, g', {}), Note, UNCHANGED <<code, class, pc>>
  PROVE  RaInv'
<1> PICK r : r = g' OBVIOUS
<1>1. Numbered(class) /\ Program(code, class) BY DEF RaInv, State
<1>2. /\ Shape(class, code, r) /\ Symmetric(class, r) /\ Stacked(r) /\ Ranked(class, r)
      /\ Uncoloured(class, r) /\ Graph(class, code, r, {}) /\ r.active \cap r.worklist = {}
  BY DEF Graph
<1>3. \A v \in Hard : r.hardNum[v] = v BY <1>1, <1>2, NodesFinite DEF Uncoloured
<1>4. listed' \/ Hard \cap InLists(r) = {} BY DEF Note
<1>5. class' = class /\ code' = code /\ pc' = "color" OBVIOUS
<1>6. State(class, code, r, "color", listed') BY <1>1, <1>2, <1>3, <1>4 DEF State
<1> QED BY <1>5, <1>6 DEF RaInv

\* The end of the loop of ra_colorize_graph keeps it.
LEMMA TakenApartKeeps == ASSUME RaInv, TakenApart PROVE RaInv'
<1>1. /\ Numbered(class) /\ Program(code, class) /\ Shape(class, code, g)
      /\ Symmetric(class, g) /\ Stacked(g) /\ Ranked(class, g)
      /\ \A v \in Hard : g.hardNum[v] = v
      /\ Graph(class, code, g, {}) /\ (listed \/ Hard \cap InLists(g) = {})
      /\ g.worklist = {} /\ g.simplify \cup g.freeze \cup g.spill = {}
      /\ class' = class /\ code' = code /\ g' = g /\ pc' = "assign" /\ listed' = listed
  BY DEF RaInv, State, TakenApart
<1>2. Assigning(g) /\ (Hard \cap InLists(g) = {} => Colouring(class, code, g))
  BY <1>1, TakenApartColouring
<1>3. State(class, code, g, "assign", listed) BY <1>1, <1>2 DEF State
<1> QED BY <1>1, <1>3 DEF RaInv

\* simplify keeps it.
LEMMA SimplifyKeeps == ASSUME RaInv, Simplify PROVE RaInv'
<1>1. Numbered(class) /\ Program(code, class) /\ Graph(class, code, g, {}) /\ pc = "color"
  BY DEF RaInv, State, Simplify
<1> PICK v : v = Min(g.simplify) OBVIOUS
<1>2. v \in g.simplify
  <2>1. g.simplify \subseteq Nat BY <1>1, ShapeFacts, NodesFinite DEF Graph
  <2> QED BY <2>1, MinIn DEF Simplify
<1>3. g' = LowerNeighbours(Pushed(g, v), v) BY DEF Simplify, Pushed
<1>4. Graph(class, code, g', {}) BY <1>1, <1>2, <1>3, SimplifyGraph
<1> QED BY <1>1, <1>4, StepKeeps DEF Simplify

\* freeze keeps it.
LEMMA FreezeKeeps == ASSUME RaInv, Freeze PROVE RaInv'
<1>1. Numbered(class) /\ Program(code, class) /\ Graph(class, code, g, {}) /\ pc = "color"
      /\ g.worklist = {}
  BY DEF RaInv, State, Freeze
<1> PICK v : v = Min(g.freeze) OBVIOUS
<1>2. v \in g.freeze
  <2>1. g.freeze \subseteq Nat BY <1>1, ShapeFacts, NodesFinite DEF Graph
  <2> QED BY <2>1, MinIn DEF Freeze
<1>3. g' = FreezeMoves(FromFreeze(g, v), v) BY DEF Freeze, FromFreeze
<1>4. Graph(class, code, g', {}) BY <1>1, <1>2, <1>3, FreezeGraph
<1> QED BY <1>1, <1>4, StepKeeps DEF Freeze

\* select_spill keeps it.
LEMMA SelectSpillKeeps == ASSUME RaInv, SelectSpill PROVE RaInv'
<1>1. Numbered(class) /\ Program(code, class) /\ Graph(class, code, g, {}) /\ pc = "color"
      /\ g.worklist = {}
  BY DEF RaInv, State, SelectSpill
<1>2. PICK v \in Cheapest : g' = FreezeMoves([g EXCEPT !.spill = @ \ {v}, !.simplify = @ \cup {v}], v)
  BY DEF SelectSpill
<1>3. v \in g.spill
  <2>1. g.spill \subseteq Nat BY <1>1, ShapeFacts, NodesFinite DEF Graph
  <2>2. Min(g.spill) \in g.spill BY <2>1, MinIn DEF SelectSpill
  <2> QED BY <2>2 DEF Cheapest
<1>4. g' = FreezeMoves(FromSpill(g, v), v) BY <1>2 DEF FromSpill
<1>5. Graph(class, code, g', {}) BY <1>1, <1>3, <1>4, SpillGraph
<1> QED BY <1>1, <1>5, StepKeeps DEF SelectSpill

\* coalesce keeps it.
LEMMA CoalesceKeeps == ASSUME RaInv, Coalesce PROVE RaInv'
<1>1. Numbered(class) /\ Program(code, class) /\ Graph(class, code, g, {}) /\ pc = "color"
      /\ g.simplify = {}
  BY DEF RaInv, State, Coalesce
<1> PICK h : h = g OBVIOUS
<1>2. PICK m \in h.worklist :
     LET to == Alias(h, m.dst)
         from == Alias(h, m.src)
         dst == IF from \in Hard THEN from ELSE to
         src == IF from \in Hard THEN to ELSE from
         f == [h EXCEPT !.worklist = @ \ {m}]
     IN g' =
        IF src = dst THEN AddWorklist([f EXCEPT !.joined = @ \cup {m}], dst)
        ELSE IF src \in Hard \/ dst \in h.adj[src]
        THEN AddWorklist(AddWorklist([f EXCEPT !.constrained = @ \cup {m}], dst), src)
        ELSE IF IF dst \in Hard THEN Ok(f, src, dst) ELSE Conservative(f, src, dst)
        THEN AddWorklist(Combine([f EXCEPT !.joined = @ \cup {m}], dst, src), dst)
        ELSE [f EXCEPT !.active = @ \cup {m}]
  BY DEF Coalesce
<1> PICK a : a = Alias(h, m.src) OBVIOUS
<1> PICK b : b = Alias(h, m.dst) OBVIOUS
<1> PICK dst : dst = IF a \in Hard THEN a ELSE b OBVIOUS
<1> PICK src : src = IF a \in Hard THEN b ELSE a OBVIOUS
<1>3. g' = IF src = dst THEN AddWorklist(Joining(h, m), dst)
           ELSE IF src \in Hard \/ dst \in h.adj[src]
           THEN AddWorklist(AddWorklist(Constraining(h, m), dst), src)
           ELSE IF IF dst \in Hard THEN Ok([h EXCEPT !.worklist = @ \ {m}], src, dst)
                   ELSE Conservative([h EXCEPT !.worklist = @ \ {m}], src, dst)
           THEN AddWorklist(Combine(Joining(h, m), dst, src), dst)
           ELSE Waiting(h, m)
  BY <1>2 DEF Joining, Constraining, Waiting
<1> PICK r : r = g' OBVIOUS
<1>4. \/ src = dst /\ r = AddWorklist(Joining(h, m), dst)
      \/ r = AddWorklist(AddWorklist(Constraining(h, m), dst), src)
      \/ /\ src # dst /\ src \notin Hard /\ dst \notin h.adj[src]
         /\ r = AddWorklist(Combine(Joining(h, m), dst, src), dst)
      \/ r = Waiting(h, m)
  BY <1>3
<1>5. Graph(class, code, r, {}) BY <1>1, <1>4, CoalesceGraph
<1> QED BY <1>1, <1>5, StepKeeps DEF Coalesce

\* The node on top of the stack is taken down.
Down(h, v) == [h EXCEPT !.stack = Tail(@), !.select = @ \ {v}]

\* Taking a node down changes the stack and the list select, alike.
LEMMA DownEffect ==
  ASSUME NEW h, NEW v, NEW r, Shape(class, code, h), Stacked(h), h.stack # <<>>, v = Head(h.stack),
         r = Down(h, v)
  PROVE  /\ Shape(class, code, r) /\ Stacked(r)
         /\ r.adj = h.adj /\ r.alias = h.alias /\ r.coalesced = h.coalesced /\ r.hardNum = h.hardNum
         /\ r.stack = Tail(h.stack) /\ r.select = h.select \ {v} /\ r.spilled = h.spilled
         /\ r.worklist = h.worklist /\ r.temps = h.temps
<1> PICK s : s = Tail(h.stack) OBVIOUS
<1> PICK S : S = h.select \ {v} OBVIOUS
<1>1. r = [h EXCEPT !.stack = s, !.select = S] BY DEF Down
<1>2. s \in Seq(DOMAIN class) /\ ToSet(s) = S /\ \A i, j \in DOMAIN s : s[i] = s[j] => i = j
  BY TopFacts
<1>3. S \subseteq DOMAIN class BY ShapeFacts
<1>4. Shape(class, code, h) OBVIOUS
<1>5. /\ Shape(class, code, r)
      /\ r.adj = h.adj /\ r.alias = h.alias /\ r.coalesced = h.coalesced /\ r.hardNum = h.hardNum
      /\ r.stack = s /\ r.select = S /\ r.spilled = h.spilled
      /\ r.worklist = h.worklist /\ r.temps = h.temps
  <2>1. s \in Seq(DOMAIN class) BY <1>2
  <2>2. Shape(class, code, r) BY ONLY <1>1, <2>1, <1>3, <1>4 DEF Shape, Records
  <2>3. /\ r.adj = h.adj /\ r.alias = h.alias /\ r.coalesced = h.coalesced /\ r.hardNum = h.hardNum
        /\ r.stack = s /\ r.select = S /\ r.spilled = h.spilled
        /\ r.worklist = h.worklist /\ r.temps = h.temps
    BY ONLY <1>1, <1>4 DEF Shape, Records
  <2> QED BY <2>2, <2>3
<1>6. Stacked(r)
  <2>1. r.stack = s /\ r.select = S BY <1>5
  <2> QED BY ONLY <1>2, <2>1 DEF Stacked
<1> QED BY <1>5, <1>6

\* Everything but the colouring itself, while colours are assigned.
Under(k, c, h) ==
  /\ Numbered(k) /\ Program(c, k) /\ Shape(k, c, h)
  /\ Symmetric(k, h) /\ Stacked(h) /\ Ranked(k, h) /\ Assigning(h)
  /\ \A v \in Hard : h.hardNum[v] = v

\* The invariant while colours are assigned.
LEMMA UnderInv ==
  ASSUME NEW at \in {"assign", "fatal"}, Under(class, code, g'), class' = class, code' = code, pc' = at,
         at = "assign" => listed' \/ Colouring(class, code, g')
  PROVE  RaInv'
BY DEF Under, Assigning, RaInv, State

\* A node that is taken down, coloured or spilled, keeps all but the colouring.
LEMMA DownKeeps ==
  ASSUME NEW v, NEW r, NEW h, Under(class, code, h), h.stack # <<>>, v = Head(h.stack),
         Shape(class, code, r), Stacked(r),
         r.adj = h.adj, r.alias = h.alias, r.coalesced = h.coalesced, r.select = h.select \ {v},
         r.worklist = h.worklist,
         \/ r.spilled = h.spilled
         \/ r.spilled = h.spilled \cup {v} /\ v \notin Hard,
         \A x \in Hard : r.hardNum[x] = h.hardNum[x]
  PROVE  Under(class, code, r)
<1>1. v \in h.select BY TopFacts DEF Under
<1>2. Assigning(r) BY <1>1 DEF Under, Assigning, Gone
<1>3. Symmetric(class, r) BY DEF Under, Symmetric
<1>4. Ranked(class, r) BY DEF Under, Ranked
<1> QED BY <1>2, <1>3, <1>4 DEF Under

\* assign_colors keeps it, node by node.
LEMMA AssignColorKeeps == ASSUME RaInv, AssignColor PROVE RaInv'
<1> PICK v : v = Head(g.stack) OBVIOUS
<1> PICK h : h = Down(g, v) OBVIOUS
<1>1. Under(class, code, g) /\ g.stack # <<>> /\ (listed \/ Colouring(class, code, g))
      /\ class' = class /\ code' = code /\ listed' = listed /\ pc = "assign"
  BY DEF RaInv, State, AssignColor, Under
<1>2. \/ g.hardNum[v] # -1 /\ g' = h /\ pc' = "assign"
      \/ g.hardNum[v] = -1 /\ Free(v) # {} /\ g' = [h EXCEPT !.hardNum[v] = Min(Free(v))] /\ pc' = "assign"
      \/ g' = g /\ pc' = "fatal"
      \/ g.hardNum[v] = -1 /\ g' = [h EXCEPT !.spilled = @ \cup {v}] /\ pc' = "assign"
  BY <1>1 DEF AssignColor, Down
<1>3. /\ Shape(class, code, h) /\ Stacked(h)
      /\ h.adj = g.adj /\ h.alias = g.alias /\ h.coalesced = g.coalesced /\ h.hardNum = g.hardNum
      /\ h.stack = Tail(g.stack) /\ h.select = g.select \ {v} /\ h.spilled = g.spilled
      /\ h.worklist = g.worklist
  <2>1. Shape(class, code, g) /\ Stacked(g) /\ g.stack # <<>> BY <1>1 DEF Under
  <2> QED BY ONLY <2>1, v = Head(g.stack), h = Down(g, v), DownEffect
<1>4. v \in g.select /\ v \in DOMAIN class BY <1>1, TopFacts DEF Under
<1>5. g.hardNum \in [DOMAIN class -> {-1} \cup Hard] BY <1>1 DEF Under, Shape, Records
<1>6. g.hardNum[v] = -1 => v \notin Hard BY <1>1, HardTypes DEF Under
<1>7. CASE g.hardNum[v] # -1 /\ g' = h /\ pc' = "assign"
  <2>1. Under(class, code, h) BY <1>1, <1>3, DownKeeps
  <2>2. listed BY <1>1, <1>4, <1>7 DEF Colouring
  <2> QED BY <1>1, <1>7, <2>1, <2>2, UnderInv
<1>8. CASE g.hardNum[v] = -1 /\ Free(v) # {} /\ g' = [h EXCEPT !.hardNum[v] = Min(Free(v))] /\ pc' = "assign"
  <2> PICK n : n = Min(Free(v)) OBVIOUS
  <2> PICK r : r = g' OBVIOUS
  <2>1. Free(v) \subseteq Hard /\ Free(v) \subseteq Nat BY <1>1, <1>4, HardTypes DEF Free, Under
  <2>2. n \in Free(v) BY <1>8, <2>1, MinIn
  <2>3. n \in Available[class[v]] /\ n \in Hard /\ n # -1
        /\ \A w \in g.adj[v] : n # g.hardNum[Alias(g, w)]
    BY <1>1, <2>1, <2>2, HardTypes DEF Free, Under
  <2> PICK H : H = [h.hardNum EXCEPT ![v] = n] OBVIOUS
  <2>4. r = [h EXCEPT !.hardNum = H] BY <1>8
  <2>5. H \in [DOMAIN class -> {-1} \cup Hard] BY <1>3, <1>5, <2>3
  <2>6. /\ Shape(class, code, r) /\ r.adj = h.adj /\ r.alias = h.alias /\ r.coalesced = h.coalesced
        /\ r.stack = h.stack /\ r.select = h.select /\ r.spilled = h.spilled /\ r.worklist = h.worklist
        /\ r.hardNum = H
    <3>1. Shape(class, code, h) BY <1>3
    <3>2. Shape(class, code, r) BY ONLY <3>1, <2>4, <2>5 DEF Shape, Records
    <3>3. /\ r.adj = h.adj /\ r.alias = h.alias /\ r.coalesced = h.coalesced
          /\ r.stack = h.stack /\ r.select = h.select /\ r.worklist = h.worklist
      BY ONLY <3>1, <2>4 DEF Shape, Records
    <3>4. r.spilled = h.spilled /\ r.hardNum = H BY ONLY <3>1, <2>4 DEF Shape, Records
    <3> QED BY <3>2, <3>3, <3>4
  <2>7. Stacked(r)
    <3>1. Stacked(h) BY <1>3
    <3>2. r.stack = h.stack /\ r.select = h.select BY <2>6
    <3> QED BY ONLY <3>1, <3>2 DEF Stacked
  <2>8. \A x \in Hard : r.hardNum[x] = g.hardNum[x]
    <3>1. \A x \in DOMAIN class : x # v => H[x] = g.hardNum[x] BY <1>3, <1>5
    <3>2. v \notin Hard BY <1>6, <1>8
    <3> QED BY <1>1, <2>6, <3>1, <3>2, HardTypes DEF Under
  <2>9. Under(class, code, r)
    <3>1. /\ r.adj = g.adj /\ r.alias = g.alias /\ r.coalesced = g.coalesced
          /\ r.select = g.select \ {v} /\ r.worklist = g.worklist /\ r.spilled = g.spilled
      BY <1>3, <2>6
    <3>2. Shape(class, code, r) BY <2>6
    <3> QED BY ONLY <1>1, v = Head(g.stack), <2>7, <2>8, <3>1, <3>2, DownKeeps
  <2>10. Colouring(class, code, g) => Colouring(class, code, r)
    <3>1. Popped(g, r, Head(g.stack), n) BY <1>3, <2>6 DEF Popped
    <3> QED BY <1>1, <2>3, <2>6, <3>1, PoppedKeeps DEF Under
  <2> QED BY <1>1, <1>8, <2>9, <2>10, UnderInv
<1>9. CASE g' = g /\ pc' = "fatal"
  BY <1>1, <1>9, UnderInv
<1>10. CASE g.hardNum[v] = -1 /\ g' = [h EXCEPT !.spilled = @ \cup {v}] /\ pc' = "assign"
  <2> PICK r : r = g' OBVIOUS
  <2> PICK S : S = h.spilled \cup {v} OBVIOUS
  <2>1. r = [h EXCEPT !.spilled = S] BY <1>10
  <2>2. S \subseteq DOMAIN class BY <1>3, <1>4 DEF Shape, Records
  <2>3. /\ Shape(class, code, r) /\ r.adj = h.adj /\ r.alias = h.alias /\ r.coalesced = h.coalesced
        /\ r.stack = h.stack /\ r.select = h.select /\ r.spilled = S /\ r.worklist = h.worklist
        /\ r.hardNum = h.hardNum
    <3>1. Shape(class, code, h) BY <1>3
    <3>2. Shape(class, code, r) BY ONLY <3>1, <2>1, <2>2 DEF Shape, Records
    <3>3. /\ r.adj = h.adj /\ r.alias = h.alias /\ r.coalesced = h.coalesced
          /\ r.stack = h.stack /\ r.select = h.select /\ r.worklist = h.worklist
      BY ONLY <3>1, <2>1 DEF Shape, Records
    <3>4. r.spilled = S /\ r.hardNum = h.hardNum BY ONLY <3>1, <2>1 DEF Shape, Records
    <3> QED BY <3>2, <3>3, <3>4
  <2>4. Stacked(r)
    <3>1. Stacked(h) BY <1>3
    <3>2. r.stack = h.stack /\ r.select = h.select BY <2>3
    <3> QED BY ONLY <3>1, <3>2 DEF Stacked
  <2>5. Under(class, code, r)
    <3>1. /\ r.adj = g.adj /\ r.alias = g.alias /\ r.coalesced = g.coalesced
          /\ r.select = g.select \ {v} /\ r.worklist = g.worklist
          /\ r.spilled = g.spilled \cup {v} /\ v \notin Hard
      BY <1>3, <1>6, <1>10, <2>3
    <3>2. Shape(class, code, r) /\ \A x \in Hard : r.hardNum[x] = g.hardNum[x] BY <1>3, <2>3
    <3> QED BY ONLY <1>1, v = Head(g.stack), <2>4, <3>1, <3>2, DownKeeps
  <2>6. Colouring(class, code, g) => Colouring(class, code, r)
    <3>1. g.hardNum = [g.hardNum EXCEPT ![v] = -1] BY <1>4, <1>5, <1>10
    <3>2. Popped(g, r, Head(g.stack), -1) BY <1>3, <2>3, <3>1 DEF Popped
    <3>3. Head(g.stack) \in r.spilled BY <2>3
    <3> QED BY <1>1, <2>3, <3>2, <3>3, PoppedKeeps DEF Under
  <2> QED BY <1>1, <1>10, <2>5, <2>6, UnderInv
<1> QED BY <1>2, <1>7, <1>8, <1>9, <1>10

\* The last loop of assign_colors keeps it: a coalesced node gets its alias's colour.
LEMMA ColorCoalescedKeeps == ASSUME RaInv, ColorCoalesced PROVE RaInv'
<1>1. Under(class, code, g) /\ g.stack = <<>> /\ (listed \/ Colouring(class, code, g))
      /\ class' = class /\ code' = code /\ listed' = listed
      /\ pc' = (IF g.spilled = {} THEN "done" ELSE "rewrite")
  BY DEF RaInv, State, ColorCoalesced, Under
<1> PICK H : H = [v \in Reg |-> g.hardNum[Alias(g, v)]] OBVIOUS
<1> PICK r : r = g' OBVIOUS
<1>2. r = [g EXCEPT !.hardNum = H] BY DEF ColorCoalesced
<1>3. Numbered(class) /\ Program(code, class) /\ Shape(class, code, g) /\ Symmetric(class, g)
      /\ Stacked(g) /\ Ranked(class, g) /\ Assigning(g) /\ \A v \in Hard : g.hardNum[v] = v
  BY <1>1 DEF Under
<1>4. g.hardNum \in [DOMAIN class -> {-1} \cup Hard] BY <1>3 DEF Shape, Records
<1>5. \A v \in DOMAIN class : /\ Alias(g, v) \in DOMAIN class /\ Alias(g, v) \notin g.coalesced
                              /\ v \notin g.coalesced => Alias(g, v) = v
  BY <1>3, AliasFacts
<1>6. H \in [DOMAIN class -> {-1} \cup Hard] BY <1>4, <1>5 DEF Reg
<1>7. /\ Shape(class, code, r) /\ r.adj = g.adj /\ r.alias = g.alias /\ r.coalesced = g.coalesced
      /\ r.stack = g.stack /\ r.select = g.select /\ r.spilled = g.spilled /\ r.hardNum = H
      /\ r.worklist = g.worklist
  BY ONLY <1>2, <1>3, <1>6 DEF Shape, Records
<1>8. Symmetric(class, r) /\ Stacked(r) /\ Ranked(class, r)
  BY <1>3, <1>7 DEF Symmetric, Stacked, Ranked
<1>9. \A v \in DOMAIN class : H[v] = g.hardNum[Alias(g, v)] BY DEF Reg
<1>10. \A v \in Hard : r.hardNum[v] = v
  <2> TAKE v \in Hard
  <2>1. v \in DOMAIN class /\ v \notin g.coalesced BY <1>3, HardTypes DEF Assigning
  <2> QED BY <1>3, <1>5, <1>7, <1>9, <2>1
<1>11. r.spilled \cap Hard = {} /\ r.worklist = {} BY <1>3, <1>7 DEF Assigning
<1>12. State(class, code, r, pc', listed')
  BY <1>1, <1>3, <1>7, <1>8, <1>10, <1>11 DEF State
<1>13. ASSUME g.spilled = {}, Colouring(class, code, g) PROVE Finished(class, code, r)
  <2>1. g.select = {} BY <1>1, <1>3 DEF Stacked, ToSet
  <2>2. /\ SameClass(class, g) /\ Covers(class, code, g)
        /\ \A x \in DOMAIN class : \A y \in g.adj[x] : Distinct(g, Alias(g, x), Alias(g, y))
        /\ \A x \in DOMAIN class \ (Hard \cup Gone(g) \cup g.spilled) : g.hardNum[x] \in Available[class[x]]
    BY <1>13 DEF Colouring
  <2>3. \A x \in DOMAIN class : x \notin g.coalesced =>
          g.hardNum[x] \in Hard /\ g.hardNum[x] # -1 /\ (x \notin Hard => g.hardNum[x] \in Available[class[x]])
    <3> TAKE x \in DOMAIN class
    <3> HAVE x \notin g.coalesced
    <3>1. CASE x \in Hard BY <1>3, <3>1, HardTypes
    <3>2. CASE x \notin Hard
      <4>1. g.hardNum[x] \in Available[class[x]] BY <1>13, <2>1, <2>2, <3>2 DEF Gone
      <4> QED BY <1>3, <3>2, <4>1, HardTypes
    <3> QED BY <3>1, <3>2
  <2>4. ASSUME NEW v \in DOMAIN class \ Hard PROVE r.hardNum[v] \in Available[class[v]]
    <3> PICK p : p = Alias(g, v) OBVIOUS
    <3>1. class[p] = class[v] /\ (p \in Hard => p \in Available[class[v]]) BY <2>2, <2>4 DEF SameClass
    <3>2. p \in DOMAIN class /\ p \notin g.coalesced BY <1>5
    <3>3. r.hardNum[v] = g.hardNum[p] BY <1>7, <1>9
    <3> QED BY <1>3, <2>3, <3>1, <3>2, <3>3
  <2>5. ASSUME NEW a \in Arcs(code) PROVE r.hardNum[a[1]] # r.hardNum[a[2]]
    <3> PICK p : p = Alias(g, a[1]) OBVIOUS
    <3> PICK q : q = Alias(g, a[2]) OBVIOUS
    <3>1. a[1] \in DOMAIN class /\ a[2] \in g.adj[a[1]] /\ a[2] \in DOMAIN class
      BY <1>3, <2>2, ArcsFacts DEF Covers
    <3>2. Distinct(g, p, q) BY <2>2, <3>1
    <3>3. p \in DOMAIN class /\ p \notin g.coalesced BY <1>5, <3>1
    <3>4. g.hardNum[p] # g.hardNum[q] BY <2>1, <2>3, <3>2, <3>3 DEF Distinct
    <3>5. r.hardNum[a[1]] = g.hardNum[p] /\ r.hardNum[a[2]] = g.hardNum[q] BY <1>7, <1>9, <3>1
    <3> QED BY <3>4, <3>5
  <2> QED BY <2>4, <2>5 DEF Finished
<1>14. pc' = "done" => listed \/ Finished(class, code, r) BY <1>1, <1>13
<1> QED BY <1>1, <1>12, <1>14 DEF RaInv

-----------------------------------------------------------------------------
\* The operands that are spilled.

\* A function of a finite set has finitely many values.
LEMMA FiniteImage ==
  ASSUME NEW S, IsFiniteSet(S), NEW f, DOMAIN f = S
  PROVE  IsFiniteSet({f[x] : x \in S})
<1> DEFINE T == {f[x] : x \in S}
           e == [x \in S |-> f[x]]
<1>1. e \in [S -> T] /\ \A t \in T : \E x \in S : e[x] = t OBVIOUS
<1>2. e \in Surjection(S, T)
  <2> HIDE DEF e, T
  <2> QED BY <1>1 DEF Surjection
<1> HIDE DEF e
<1>3. IsFiniteSet(T) BY <1>2, FS_Surjection
<1> QED BY <1>3

\* A union of finitely many finite sets is finite.
LEMMA FiniteUnion ==
  ASSUME NEW S, IsFiniteSet(S), NEW f, DOMAIN f = S, \A x \in S : IsFiniteSet(f[x])
  PROVE  IsFiniteSet(UNION {f[x] : x \in S})
<1> DEFINE T == {f[x] : x \in S}
<1>1. IsFiniteSet(T) BY FiniteImage
<1>2. \A t \in T : IsFiniteSet(t) OBVIOUS
<1> HIDE DEF T
<1>3. IsFiniteSet(UNION T) BY <1>1, <1>2, FS_UNION
<1> QED BY <1>3 DEF T

\* There are finitely many blocks.
LEMMA BlockFinite == IsFiniteSet(Block)
<1>1. IsFiniteSet(DOMAIN Blocks) 
  <2>1. DOMAIN Blocks = 1..Len(Blocks) /\ Len(Blocks) \in Nat BY BlocksAssumption
  <2> QED BY <2>1, FS_Interval
<1>2. Blocks \in [DOMAIN Blocks -> Block] /\ \A b \in Block : \E i \in DOMAIN Blocks : Blocks[i] = b
  BY BlocksAssumption DEF ToSet
<1>3. Blocks \in Surjection(DOMAIN Blocks, Block) BY <1>2 DEF Surjection
<1> QED BY <1>1, <1>3, FS_Surjection

\* The operands insert_spill_code rewrites, finitely many.
LEMMA OperandFacts ==
  ASSUME Program(code, class)
  PROVE  /\ \A p \in Operands :
              /\ p = <<p[1], p[2], p[3]>> /\ p[1] \in Block /\ p[2] \in DOMAIN code[p[1]]
              /\ p[3] \in DOMAIN code[p[1]][p[2]].ops /\ p[2] \in Nat /\ p[3] \in Nat
              /\ code[p[1]][p[2]].ops[p[3]].reg \in g.spilled
              /\ code[p[1]][p[2]].ops[p[3]].reg \in Reg
         /\ IsFiniteSet(Operands)
<1>1. \A b \in Block : DOMAIN code[b] = 1..Len(code[b]) /\ Len(code[b]) \in Nat BY DEF Program
<1>2. \A b \in Block : \A k \in DOMAIN code[b] : code[b][k] \in Insn /\ WellFormed(code[b][k], class)
  BY DEF Program
<1>3. \A b \in Block : \A k \in DOMAIN code[b] :
        DOMAIN code[b][k].ops = 1..Len(code[b][k].ops) /\ Len(code[b][k].ops) \in Nat
  BY <1>2 DEF Insn
<1>4. ASSUME NEW p \in Operands
      PROVE  /\ p = <<p[1], p[2], p[3]>> /\ p[1] \in Block /\ p[2] \in DOMAIN code[p[1]]
             /\ p[3] \in DOMAIN code[p[1]][p[2]].ops /\ p[2] \in Nat /\ p[3] \in Nat
             /\ code[p[1]][p[2]].ops[p[3]].reg \in g.spilled
             /\ code[p[1]][p[2]].ops[p[3]].reg \in Reg
  <2>1. PICK b \in Block : p \in UNION {{<<b, k, i>> :
            i \in {j \in DOMAIN code[b][k].ops : code[b][k].ops[j].reg \in g.spilled}} :
            k \in DOMAIN code[b]}
    BY DEF Operands
  <2>2. PICK k \in DOMAIN code[b] : p \in {<<b, k, i>> :
            i \in {j \in DOMAIN code[b][k].ops : code[b][k].ops[j].reg \in g.spilled}}
    BY <2>1
  <2>3. PICK i \in DOMAIN code[b][k].ops : code[b][k].ops[i].reg \in g.spilled /\ p = <<b, k, i>>
    BY <2>2
  <2>4. p[1] = b /\ p[2] = k /\ p[3] = i BY <2>3
  <2>5. k \in Nat /\ i \in Nat BY <1>1, <1>3
  <2>6. code[b][k].ops[i].reg \in Reg BY <1>2 DEF WellFormed, Reg
  <2> QED BY <2>3, <2>4, <2>5, <2>6
<1>5. IsFiniteSet(Operands)
  <2> DEFINE J(b, k) == {j \in DOMAIN code[b][k].ops : code[b][k].ops[j].reg \in g.spilled}
             at(b, k) == {<<b, k, i>> : i \in J(b, k)}
             in(b) == UNION {at(b, k) : k \in DOMAIN code[b]}
  <2>1. ASSUME NEW b \in Block, NEW k \in DOMAIN code[b] PROVE IsFiniteSet(at(b, k))
    <3>1. IsFiniteSet(DOMAIN code[b][k].ops) BY <1>3, FS_Interval
    <3>2. IsFiniteSet(J(b, k)) BY <3>1, FS_Subset
    <3> PICK S : S = J(b, k) OBVIOUS
    <3> PICK f : f = [i \in S |-> <<b, k, i>>] OBVIOUS
    <3>3. IsFiniteSet({f[i] : i \in S}) BY <3>2, FiniteImage
    <3>4. {f[i] : i \in S} = {<<b, k, i>> : i \in S} OBVIOUS
    <3> QED BY <3>3, <3>4
  <2>2. ASSUME NEW b \in Block PROVE IsFiniteSet(in(b))
    <3>1. IsFiniteSet(DOMAIN code[b]) BY <1>1, FS_Interval
    <3> HIDE DEF at
    <3> PICK S : S = DOMAIN code[b] OBVIOUS
    <3> PICK f : f = [k \in S |-> at(b, k)] OBVIOUS
    <3>2. \A k \in S : IsFiniteSet(f[k]) BY <2>1
    <3>3. IsFiniteSet(UNION {f[k] : k \in S}) BY <3>1, <3>2, FiniteUnion
    <3>4. {f[k] : k \in S} = {at(b, k) : k \in S} OBVIOUS
    <3> QED BY <3>3, <3>4
  <2>3. Operands = UNION {in(b) : b \in Block} BY DEF Operands
  <2> HIDE DEF in
  <2> PICK f : f = [b \in Block |-> in(b)] OBVIOUS
  <2>4. \A b \in Block : IsFiniteSet(f[b]) BY <2>2
  <2>5. IsFiniteSet(UNION {f[b] : b \in Block}) BY <2>4, BlockFinite, FiniteUnion
  <2>6. {f[b] : b \in Block} = {in(b) : b \in Block} OBVIOUS
  <2> QED BY <2>3, <2>5, <2>6
<1> QED BY <1>4, <1>5

\* Two of them differ in block, instruction or place.
LEMMA PlaceOrder ==
  ASSUME Program(code, class)
  PROVE  \A p, q \in Operands :
           /\ Place(p[1]) \in Nat /\ (Place(p[1]) = Place(q[1]) => p[1] = q[1])
           /\ p # q => p[1] # q[1] \/ p[2] # q[2] \/ p[3] # q[3]
<1>1. \A b \in Block : Place(b) \in Nat /\ Blocks[Place(b)] = b
  <2>1. Len(Blocks) \in Nat BY BlocksAssumption
  <2> QED BY <2>1, PlaceFacts
<1>2. \A p \in Operands : p[1] \in Block /\ p = <<p[1], p[2], p[3]>> BY OperandFacts
<1> TAKE p \in Operands, q \in Operands
<1>3. Place(p[1]) = Place(q[1]) => p[1] = q[1] BY <1>1, <1>2
<1>4. p[1] = q[1] /\ p[2] = q[2] /\ p[3] = q[3] => p = q
  <2> SUFFICES ASSUME p[1] = q[1], p[2] = q[2], p[3] = q[3] PROVE p = q OBVIOUS
  <2> PICK a : a = p[1] OBVIOUS
  <2> PICK b : b = p[2] OBVIOUS
  <2> PICK c : c = p[3] OBVIOUS
  <2>1. p = <<a, b, c>> /\ q = <<a, b, c>> BY <1>2
  <2> QED BY <2>1
<1> QED BY <1>1, <1>2, <1>3, <1>4

\* The operands are in one order.
LEMMA SoonerOrder ==
  ASSUME Program(code, class)
  PROVE  /\ \A p \in Operands : ~ Sooner(p, p)
         /\ \A p, q \in Operands : p # q => Sooner(p, q) \/ Sooner(q, p)
         /\ \A p, q, t \in Operands : Sooner(p, q) /\ Sooner(q, t) => Sooner(p, t)
<1>1. \A p \in Operands : Place(p[1]) \in Nat /\ p[2] \in Nat /\ p[3] \in Nat
  BY OperandFacts, PlaceOrder
<1>2. \A p, q \in Operands : /\ Place(p[1]) = Place(q[1]) <=> p[1] = q[1]
                             /\ p # q => p[1] # q[1] \/ p[2] # q[2] \/ p[3] # q[3]
  BY PlaceOrder
<1>3. \A p \in Operands : ~ Sooner(p, p) BY <1>1 DEF Sooner
<1>4. \A p, q \in Operands : p # q => Sooner(p, q) \/ Sooner(q, p) BY <1>1, <1>2 DEF Sooner
<1>5. \A p, q, t \in Operands : Sooner(p, q) /\ Sooner(q, t) => Sooner(p, t) BY <1>1, <1>2 DEF Sooner
<1> QED BY <1>3, <1>4, <1>5

\* Every operand that is rewritten has a register of its own, one after the other.
LEMMA TempFacts ==
  ASSUME Numbered(class), Program(code, class)
  PROVE  /\ Cardinality(Reg) \in Nat /\ Cardinality(Operands) \in Nat
         /\ Reg = 0..(Cardinality(Reg) - 1) /\ NumHard =< Cardinality(Reg)
         /\ \A p \in Operands :
              Temp(p) \in Cardinality(Reg)..(Cardinality(Reg) + Cardinality(Operands) - 1)
         /\ \A p, q \in Operands : Temp(p) = Temp(q) => p = q
         /\ \A v \in Cardinality(Reg)..(Cardinality(Reg) + Cardinality(Operands) - 1) :
              \E p \in Operands : Temp(p) = v
<1> PICK R : R = Cardinality(Reg) OBVIOUS
<1> PICK O : O = Cardinality(Operands) OBVIOUS
<1>1. IsFiniteSet(Operands) BY OperandFacts
<1>2. O \in Nat BY <1>1, FS_CardinalityType
<1>3. R \in Nat /\ Reg = 0..(R - 1) /\ NumHard =< R
  <2> PICK n \in Nat : NumHard =< n /\ class \in [0..(n - 1) -> DOMAIN Available] BY DEF Numbered
  <2>1. Reg = 0..(n - 1) BY DEF Reg
  <2>2. Cardinality(0..(n - 1)) = n BY FS_Interval
  <2> QED BY <2>1, <2>2
<1> DEFINE S(p) == {q \in Operands : Sooner(q, p)}
<1>4. \A p : IsFiniteSet(S(p)) /\ Cardinality(S(p)) \in Nat BY <1>1, FS_Subset, FS_CardinalityType
<1>5. ASSUME NEW p \in Operands, NEW U, U \subseteq Operands, S(p) \subseteq U, p \in U
      PROVE  Cardinality(S(p)) + 1 =< Cardinality(U)
  <2>1. p \notin S(p) BY SoonerOrder
  <2>2. IsFiniteSet(U) BY <1>1, <1>5, FS_Subset
  <2>3. Cardinality(S(p) \cup {p}) = Cardinality(S(p)) + 1 BY <1>4, <2>1, FS_AddElement
  <2>4. S(p) \cup {p} \subseteq U BY <1>5
  <2>5. Cardinality(S(p) \cup {p}) =< Cardinality(U) BY <2>2, <2>4, FS_Subset
  <2> QED BY <2>3, <2>5
<1>6. \A p : Temp(p) = R + Cardinality(S(p)) BY DEF Temp
<1>7. \A p \in Operands : Temp(p) \in R..(R + O - 1)
  <2> TAKE p \in Operands
  <2>1. Cardinality(S(p)) + 1 =< O BY <1>5
  <2> PICK n : n = Cardinality(S(p)) OBVIOUS
  <2>2. n \in Nat /\ n + 1 =< O /\ Temp(p) = R + n BY <1>4, <1>6, <2>1
  <2> QED BY ONLY <1>2, <1>3, <2>2
<1>8. ASSUME NEW p \in Operands, NEW q \in Operands, Sooner(p, q) PROVE Temp(p) < Temp(q)
  <2>1. S(p) \subseteq S(q) /\ p \in S(q) BY <1>8, SoonerOrder
  <2>2. S(q) \subseteq Operands OBVIOUS
  <2>3. Cardinality(S(p)) + 1 =< Cardinality(S(q)) BY <1>5, <2>1, <2>2
  <2> PICK n : n = Cardinality(S(p)) OBVIOUS
  <2> PICK m : m = Cardinality(S(q)) OBVIOUS
  <2>4. n \in Nat /\ m \in Nat /\ n + 1 =< m /\ Temp(p) = R + n /\ Temp(q) = R + m
    BY <1>4, <1>6, <2>3
  <2> QED BY ONLY <1>3, <2>4
<1>9. \A p, q \in Operands : Temp(p) = Temp(q) => p = q
  <2> TAKE p \in Operands, q \in Operands
  <2>1. Temp(p) \in Int /\ Temp(q) \in Int BY <1>2, <1>3, <1>7
  <2> QED BY <1>8, <2>1, SoonerOrder
<1> DEFINE T == R..(R + O - 1)
           f == [p \in Operands |-> Temp(p)]
<1>10. f \in Injection(Operands, T)
  <2>1. f \in [Operands -> T] BY <1>7
  <2>2. \A p, q \in Operands : f[p] = f[q] => p = q BY <1>9
  <2> HIDE DEF f, T
  <2> QED BY <2>1, <2>2 DEF Injection, IsInjective
<1>11. IsFiniteSet(T) /\ Cardinality(T) = O
  <2> PICK B \in Int : B = R + O - 1 BY <1>2, <1>3
  <2>1. IsFiniteSet(R..B) /\ Cardinality(R..B) = IF R > B THEN 0 ELSE B - R + 1
    <3>1. R \in Int BY <1>3
    <3> QED BY ONLY <3>1, B \in Int, FS_Interval
  <2>2. (IF R > B THEN 0 ELSE B - R + 1) = O BY <1>2, <1>3
  <2> QED BY <2>1, <2>2
<1>12. f \in Surjection(Operands, T)
  <2> HIDE DEF f, T
  <2> QED BY <1>10, <1>11, FS_Injection
<1>13. \A v \in T : \E p \in Operands : f[p] = v
  <2> HIDE DEF f, T
  <2> QED BY <1>12 DEF Surjection
<1>14. \A v \in R..(R + O - 1) : \E p \in Operands : Temp(p) = v BY <1>13
<1> QED BY <1>2, <1>3, <1>7, <1>9, <1>14

-----------------------------------------------------------------------------
\* The registers and the code after spilling.

\* Sequences of instructions put end to end are a sequence of instructions.
LEMMA FlattenType ==
  ASSUME NEW S, NEW s \in Seq(Seq(S))
  PROVE  FlattenSeq(s) \in Seq(S)
<1>1. CASE Len(s) = 0
  <2>1. s = <<>> BY <1>1
  <2>2. <<>> \in Seq(S) OBVIOUS
  <2> QED BY <1>1, <2>1, <2>2 DEF FlattenSeq
<1>2. CASE Len(s) # 0
  <2> PICK N \in Nat : N = Len(s) - 1 BY <1>2
  <2> DEFINE D == Seq(S)
             F == [p \in (1..N) \X D |-> p[2] \o s[p[1] + 1]]
  <2>1. Len(s) = N + 1 /\ \A i \in 1..(N + 1) : s[i] \in D BY <1>2
  <2>2. \A a, b \in D : a \o b \in D OBVIOUS
  <2>3. F \in [(1..N) \X D -> D]
    <3>1. \A p \in (1..N) \X D : p[2] \in D /\ s[p[1] + 1] \in D
      <4> HIDE DEF D
      <4> QED BY <2>1
    <3> HIDE DEF D
    <3> QED BY <2>2, <3>1
  <2>4. PICK u : Computes(u, N, D, s[1], F)
    <3>1. s[1] \in D BY <2>1
    <3> HIDE DEF D, F
    <3> QED BY <2>3, <3>1, Recursion
  <2>5. u \in [0..N -> D] /\ u[0] = s[1] /\ \A n \in 1..N : u[n] = F[<<n, u[n - 1]>>]
    <3> HIDE DEF D, F
    <3> QED BY <2>4 DEF Computes
  <2>6. \A n \in 1..N : u[n] = u[n - 1] \o s[n + 1]
    <3> TAKE n \in 1..N
    <3>1. u[n - 1] \in D
      <4>1. n - 1 \in 0..N OBVIOUS
      <4> HIDE DEF D, F
      <4> QED BY <2>5, <4>1
    <3> HIDE DEF D
    <3>2. <<n, u[n - 1]>> \in (1..N) \X D BY <3>1
    <3> QED BY <2>5, <3>2
  <2> PICK f : f = [i \in 1..(N + 1) |-> u[i - 1]] OBVIOUS
  <2>7. f = [i \in 1..(N + 1) |-> IF i = 1 THEN s[i] ELSE f[i - 1] \o s[i]]
    <3>1. \A i \in 1..(N + 1) : f[i] = IF i = 1 THEN s[i] ELSE f[i - 1] \o s[i]
      <4> TAKE i \in 1..(N + 1)
      <4>1. CASE i = 1 BY <2>5, <4>1
      <4>2. CASE i # 1
        <5>1. i - 1 \in 1..N /\ i - 1 \in 1..(N + 1) /\ (i - 1) + 1 = i BY <4>2
        <5>2. f[i] = u[i - 1] /\ f[i - 1] = u[(i - 1) - 1] BY <5>1
        <5>3. u[i - 1] = u[(i - 1) - 1] \o s[i] BY <2>6, <5>1
        <5> QED BY <4>2, <5>2, <5>3
      <4> QED BY <4>1, <4>2
    <3>2. f = [i \in 1..(N + 1) |-> f[i]] OBVIOUS
    <3> HIDE DEF D, F
    <3> QED BY <3>1, <3>2
  <2> DEFINE z == CHOOSE z : z = [i \in 1..Len(s) |-> IF i = 1 THEN s[i] ELSE z[i - 1] \o s[i]]
  <2>8. z = [i \in 1..(N + 1) |-> IF i = 1 THEN s[i] ELSE z[i - 1] \o s[i]]
    <3>1. f = [i \in 1..Len(s) |-> IF i = 1 THEN s[i] ELSE f[i - 1] \o s[i]]
      BY ONLY <2>7, Len(s) = N + 1, <2>1
    <3> HIDE DEF D, F
    <3>3. \E y : y = [i \in 1..Len(s) |-> IF i = 1 THEN s[i] ELSE y[i - 1] \o s[i]] BY ONLY <3>1
    <3>2. z = [i \in 1..Len(s) |-> IF i = 1 THEN s[i] ELSE z[i - 1] \o s[i]] BY <3>3
    <3> HIDE DEF z
    <3> QED BY <2>1, <3>2
  <2>9. FlattenSeq(s) = z[N + 1] BY <1>2, <2>1 DEF FlattenSeq
  <2> HIDE DEF z
  <2> PICK y : y = [n \in 0..N |-> z[n + 1]] OBVIOUS
  <2>10. y[0] \in D
    <3>1. 1 \in 1..(N + 1) /\ 0 \in 0..N OBVIOUS
    <3>2. z[1] = s[1] BY <2>8, <3>1
    <3> QED BY <2>1, <3>1, <3>2
  <2>11. \A n \in 1..N : y[n - 1] \in D => y[n] \in D
    <3> TAKE n \in 1..N
    <3>1. n \in 0..N /\ n - 1 \in 0..N /\ n + 1 \in 1..(N + 1) /\ n + 1 # 1 /\ n + 1 - 1 = n
          /\ n - 1 + 1 = n
      OBVIOUS
    <3> PICK m : m = n + 1 OBVIOUS
    <3>5. m \in 1..(N + 1) /\ m # 1 /\ m - 1 = n BY <3>1
    <3>6. z[m] = z[m - 1] \o s[m]
      <4> HIDE DEF D, F
      <4> QED BY ONLY <2>8, <3>5
    <3>2. z[n + 1] = z[n] \o s[n + 1] BY <3>5, <3>6
    <3>3. y[n] = z[n + 1] /\ y[n - 1] = z[n] BY <3>1
    <3>4. s[n + 1] \in D BY <2>1, <3>1
    <3> HIDE DEF D
    <3> QED BY <2>2, <3>2, <3>3, <3>4
  <2>12. y[N] \in D
    <3>1. N \in 0..N OBVIOUS
    <3> HIDE DEF D, F
    <3> QED BY <2>10, <2>11, <3>1, Stays
  <2> QED BY <2>9, <2>12
<1> QED BY <1>1, <1>2

\* The registers after spill code was inserted, and what their classes are.
Extended(k) ==
  /\ DOMAIN k = 0..(Cardinality(Reg) + Cardinality(Operands) - 1)
  /\ \A v \in Reg : v \in DOMAIN k /\ k[v] = class[v]
  /\ \A p \in Operands : Temp(p) \in DOMAIN k /\ Temp(p) \notin Reg /\ Temp(p) \in Nat
                         /\ k[Temp(p)] = class[code[p[1]][p[2]].ops[p[3]].reg]

\* The registers made for spilled operands are the next numbers, each of the class of
\* the register it stands for.
LEMMA ClassType ==
  ASSUME Numbered(class), Program(code, class), NEW k,
         k = [v \in 0..(Cardinality(Reg) + Cardinality(Operands) - 1) |->
               IF v \in Reg THEN class[v]
               ELSE LET p == CHOOSE q \in Operands : Temp(q) = v
                    IN class[code[p[1]][p[2]].ops[p[3]].reg]]
  PROVE  Numbered(k) /\ Extended(k)
<1> PICK R : R = Cardinality(Reg) OBVIOUS
<1> PICK O : O = Cardinality(Operands) OBVIOUS
<1>0. R \in Nat /\ O \in Nat /\ Reg = 0..(R - 1) /\ NumHard =< R BY TempFacts
<1>1. /\ \A p \in Operands : Temp(p) \in R..(R + O - 1)
      /\ \A p, q \in Operands : Temp(p) = Temp(q) => p = q
      /\ \A v \in R..(R + O - 1) : \E p \in Operands : Temp(p) = v
  BY TempFacts
<1>2. \A v \in Reg : class[v] \in DOMAIN Available BY DEF Numbered, Reg
<1>3. \A p \in Operands : code[p[1]][p[2]].ops[p[3]].reg \in Reg BY OperandFacts
<1> DEFINE of(v) == CHOOSE q \in Operands : Temp(q) = v
           K(v) == class[code[of(v)[1]][of(v)[2]].ops[of(v)[3]].reg]
<1>4. k = [v \in 0..(R + O - 1) |-> IF v \in Reg THEN class[v] ELSE K(v)] OBVIOUS
<1>5. \A v \in R..(R + O - 1) : of(v) \in Operands /\ Temp(of(v)) = v BY <1>1
<1>6. \A p \in Operands : of(Temp(p)) = p
  <2> TAKE p \in Operands
  <2>1. of(Temp(p)) \in Operands /\ Temp(of(Temp(p))) = Temp(p) BY <1>1, <1>5
  <2> HIDE DEF of
  <2> QED BY <1>1, <2>1
<1>7. \A v \in R..(R + O - 1) : K(v) \in DOMAIN Available
  <2> HIDE DEF of
  <2> QED BY <1>2, <1>3, <1>5
<1>8. \A p \in Operands : K(Temp(p)) = class[code[p[1]][p[2]].ops[p[3]].reg]
  <2> HIDE DEF of
  <2> QED BY <1>6
<1> HIDE DEF K, of
<1>9. k \in [0..(R + O - 1) -> DOMAIN Available]
  <2>1. \A v \in 0..(R + O - 1) : v \in Reg \/ v \in R..(R + O - 1) BY ONLY <1>0
  <2> QED BY ONLY <1>2, <1>4, <1>7, <2>1
<1>10. Numbered(k)
  <2>1. R + O \in Nat /\ NumHard =< R + O
    <3>1. NumHard \in Nat BY RegistersAssumption
    <3> QED BY ONLY <1>0, <3>1, O \in Nat
  <2> PICK n \in Nat : n = R + O BY <2>1
  <2>3. n - 1 = R + O - 1 BY ONLY <1>0, n = R + O
  <2>2. NumHard =< n /\ k \in [0..(n - 1) -> DOMAIN Available] BY ONLY <1>9, <2>1, <2>3, n = R + O
  <2> QED BY <2>2 DEF Numbered
<1>11. \A v \in Reg : v \in DOMAIN k /\ k[v] = class[v]
  <2>1. \A v \in Reg : v \in 0..(R + O - 1) BY ONLY <1>0
  <2> QED BY ONLY <1>4, <2>1
<1>12. \A p \in Operands : Temp(p) \in DOMAIN k /\ Temp(p) \notin Reg /\ Temp(p) \in Nat
                         /\ k[Temp(p)] = class[code[p[1]][p[2]].ops[p[3]].reg]
  <2> TAKE p \in Operands
  <2> PICK t : t = Temp(p) OBVIOUS
  <2>1. t \in R..(R + O - 1) BY <1>1
  <2>2. t \in 0..(R + O - 1) /\ t \notin Reg /\ t \in Nat BY ONLY <1>0, <2>1
  <2> QED BY <1>4, <1>8, <2>2
<1> QED BY <1>4, <1>10, <1>11, <1>12 DEF Extended

\* The instructions there may be when k gives the classes.
Proper(k) == {insn \in Insn : WellFormed(insn, k)}

\* A load or a store of a register is an instruction that may be there.
LEMMA AccessGood ==
  ASSUME NEW k, NEW r \in DOMAIN k, r \in Nat
  PROVE  Load(r) \in Proper(k) /\ Store(r) \in Proper(k)
<1>1. ASSUME NEW o \in BOOLEAN, NEW insn, insn = [kind |-> "plain", ops |-> <<[reg |-> r, out |-> o]>>]
      PROVE  insn \in Proper(k)
  <2> PICK s : s = <<[reg |-> r, out |-> o]>> OBVIOUS
  <2>1. s \in Seq([reg : Nat, out : BOOLEAN]) /\ DOMAIN s = {1} /\ s[1].reg = r OBVIOUS
  <2>2. insn = [kind |-> "plain", ops |-> s] BY <1>1
  <2>3. insn \in Insn /\ insn.kind = "plain" /\ insn.ops = s BY ONLY <2>1, <2>2 DEF Insn
  <2>4. WellFormed(insn, k) BY <2>1, <2>3 DEF WellFormed
  <2> QED BY <2>3, <2>4 DEF Proper
<1> QED BY <1>1 DEF Load, Store

\* So is an instruction whose spilled operands are replaced.
LEMMA RewrittenGood ==
  ASSUME Numbered(class), Program(code, class), NEW k, Extended(k), NEW b \in Block,
         NEW n \in DOMAIN code[b], NEW r, NEW s,
         s = [i \in 1..Len(code[b][n].ops) |->
               IF <<b, n, i>> \in Operands
               THEN [reg |-> Temp(<<b, n, i>>), out |-> code[b][n].ops[i].out]
               ELSE code[b][n].ops[i]],
         r = [kind |-> code[b][n].kind, ops |-> s]
  PROVE  r \in Proper(k)
<1> PICK insn : insn = code[b][n] OBVIOUS
<1> PICK len : len = Len(insn.ops) OBVIOUS
<1>1. insn \in Insn /\ WellFormed(insn, class) BY DEF Program
<1>2. len \in Nat /\ DOMAIN insn.ops = 1..len /\ insn.ops \in [1..len -> [reg : Nat, out : BOOLEAN]]
      /\ insn.kind \in {"plain", "move", "call", "marker"}
  <2> PICK T : T = [reg : Nat, out : BOOLEAN] OBVIOUS
  <2> PICK s0 : s0 = insn.ops OBVIOUS
  <2>1. s0 \in Seq(T) /\ insn.kind \in {"plain", "move", "call", "marker"}
    BY ONLY <1>1, T = [reg : Nat, out : BOOLEAN], s0 = insn.ops DEF Insn
  <2>2. Len(s0) \in Nat /\ DOMAIN s0 = 1..Len(s0) /\ s0 \in [1..Len(s0) -> T] BY ONLY <2>1
  <2> QED BY <2>1, <2>2
<1>3. \A i \in 1..len : insn.ops[i].reg \in Reg BY <1>1, <1>2 DEF WellFormed, Reg
<1>4. ASSUME NEW i \in 1..len
      PROVE  /\ s[i] \in [reg : Nat, out : BOOLEAN] /\ s[i].reg \in DOMAIN k
             /\ k[s[i].reg] = class[insn.ops[i].reg]
             /\ s[i].reg \in Hard => s[i].reg = insn.ops[i].reg
  <2> PICK p : p = <<b, n, i>> OBVIOUS
  <2>1. p[1] = b /\ p[2] = n /\ p[3] = i BY ONLY p = <<b, n, i>>
  <2>2. s[i] = IF p \in Operands THEN [reg |-> Temp(p), out |-> insn.ops[i].out] ELSE insn.ops[i]
    OBVIOUS
  <2>3. insn.ops[i] \in [reg : Nat, out : BOOLEAN] BY <1>2
  <2>4. CASE p \in Operands
    <3> PICK t : t = Temp(p) OBVIOUS
    <3>1. t \in DOMAIN k /\ t \notin Reg /\ t \in Nat /\ k[t] = class[insn.ops[i].reg]
      BY <2>1, <2>4 DEF Extended
    <3>2. t \notin Hard BY <3>1, NodesFinite DEF Reg
    <3>3. s[i] = [reg |-> t, out |-> insn.ops[i].out] BY <2>2, <2>4
    <3> QED BY ONLY <2>3, <3>1, <3>2, <3>3
  <2>5. CASE p \notin Operands
    <3>1. s[i] = insn.ops[i] BY <2>2, <2>5
    <3>2. insn.ops[i].reg \in DOMAIN k /\ k[insn.ops[i].reg] = class[insn.ops[i].reg]
      BY <1>3 DEF Extended
    <3> QED BY ONLY <2>3, <3>1, <3>2
  <2> QED BY <2>4, <2>5
<1>5. s \in Seq([reg : Nat, out : BOOLEAN]) /\ DOMAIN s = 1..len /\ Len(s) = len
  <2>1. DOMAIN s = 1..len /\ s = [i \in 1..len |-> s[i]] OBVIOUS
  <2> PICK T : T = [reg : Nat, out : BOOLEAN] OBVIOUS
  <2>2. \A i \in 1..len : s[i] \in T BY <1>4
  <2>3. s \in [1..len -> T] BY ONLY <2>1, <2>2
  <2>4. len \in Nat BY <1>2
  <2>5. s \in Seq(T) /\ Len(s) = len BY ONLY <2>3, <2>4
  <2> QED BY <2>1, <2>5
<1>6. r.kind = insn.kind /\ r.ops = s OBVIOUS
<1>7. r \in Insn
  <2>1. r = [kind |-> insn.kind, ops |-> s] OBVIOUS
  <2> QED BY ONLY <1>2, <1>5, <2>1 DEF Insn
<1>8. WellFormed(r, k)
  <2>1. \A i \in DOMAIN r.ops : r.ops[i].reg \in DOMAIN k BY <1>4, <1>5, <1>6
  <2>2. ASSUME r.kind = "move"
        PROVE  /\ Len(r.ops) = 2 /\ k[r.ops[1].reg] = k[r.ops[2].reg]
               /\ \A i \in 1..2 : r.ops[i].reg \in Hard => r.ops[i].reg \in Available[k[r.ops[i].reg]]
    <3>1. /\ len = 2 /\ class[insn.ops[1].reg] = class[insn.ops[2].reg]
          /\ \A i \in 1..2 : insn.ops[i].reg \in Hard =>
               insn.ops[i].reg \in Available[class[insn.ops[i].reg]]
      BY <1>1, <1>6, <2>2 DEF WellFormed
    <3>2. 1 \in 1..len /\ 2 \in 1..len /\ \A i \in 1..2 : i \in 1..len
      <4>1. len = 2 BY <3>1
      <4> QED BY ONLY <4>1
    <3>3. k[s[1].reg] = class[insn.ops[1].reg] /\ k[s[2].reg] = class[insn.ops[2].reg] BY <1>4, <3>2
    <3>4. \A i \in 1..2 : s[i].reg \in Hard => s[i].reg \in Available[k[s[i].reg]]
      <4> TAKE i \in 1..2
      <4>1. k[s[i].reg] = class[insn.ops[i].reg] /\ (s[i].reg \in Hard => s[i].reg = insn.ops[i].reg)
        BY <1>4, <3>2
      <4> QED BY ONLY <3>1, <4>1
    <3> QED BY ONLY <1>5, <1>6, <3>1, <3>3, <3>4
  <2> QED BY <2>1, <2>2 DEF WellFormed
<1> QED BY <1>7, <1>8 DEF Proper

\* So are all that insert_spill_code puts for one instruction.
LEMMA SpillType ==
  ASSUME Numbered(class), Program(code, class), NEW k, Extended(k), NEW b \in Block,
         NEW n \in DOMAIN code[b]
  PROVE  SpillCode(b, n) \in Seq(Proper(k))
<1> PICK insn : insn = code[b][n] OBVIOUS
<1> PICK len : len = Len(insn.ops) OBVIOUS
<1> PICK G : G = Proper(k) OBVIOUS
<1>1. len \in Nat
  <2>1. insn \in Insn BY DEF Program
  <2> QED BY <2>1 DEF Insn
<1> DEFINE moved(i, out) == <<b, n, i>> \in Operands /\ insn.ops[i].out = out
           A == [i \in 1..len |-> IF moved(i, FALSE) THEN <<Load(Temp(<<b, n, i>>))>> ELSE <<>>]
           s == [i \in 1..len |->
                  IF <<b, n, i>> \in Operands THEN [reg |-> Temp(<<b, n, i>>), out |-> insn.ops[i].out]
                  ELSE insn.ops[i]]
           M == [kind |-> insn.kind, ops |-> s]
           Z == [i \in 1..len |->
                  IF moved(len - i + 1, TRUE) THEN <<Store(Temp(<<b, n, len - i + 1>>))>> ELSE <<>>]
<1>2. SpillCode(b, n) = FlattenSeq(A) \o <<M>> \o FlattenSeq(Z) BY DEF SpillCode
<1>3. \A i : <<b, n, i>> \in Operands => /\ Load(Temp(<<b, n, i>>)) \in G
                                         /\ Store(Temp(<<b, n, i>>)) \in G
  <2> SUFFICES ASSUME NEW p \in Operands PROVE Load(Temp(p)) \in G /\ Store(Temp(p)) \in G
    OBVIOUS
  <2>1. Temp(p) \in DOMAIN k /\ Temp(p) \in Nat BY DEF Extended
  <2> QED BY <2>1, AccessGood
<1>4. \A x \in G : <<x>> \in Seq(G) OBVIOUS
<1>5. <<>> \in Seq(G) OBVIOUS
<1>6. A \in Seq(Seq(G))
  <2>1. \A i \in 1..len : (IF moved(i, FALSE) THEN <<Load(Temp(<<b, n, i>>))>> ELSE <<>>) \in Seq(G)
    BY <1>3, <1>4, <1>5
  <2> HIDE DEF moved
  <2>2. A \in [1..len -> Seq(G)] BY ONLY <2>1
  <2> HIDE DEF A
  <2> QED BY ONLY <1>1, <2>2
<1>7. Z \in Seq(Seq(G))
  <2>1. \A i \in 1..len :
          (IF moved(len - i + 1, TRUE) THEN <<Store(Temp(<<b, n, len - i + 1>>))>> ELSE <<>>) \in Seq(G)
    <3> TAKE i \in 1..len
    <3> PICK j : j = len - i + 1 OBVIOUS
    <3>1. (IF moved(j, TRUE) THEN <<Store(Temp(<<b, n, j>>))>> ELSE <<>>) \in Seq(G)
      BY <1>3, <1>4, <1>5
    <3> QED BY <3>1
  <2> HIDE DEF moved
  <2>2. Z \in [1..len -> Seq(G)] BY ONLY <2>1
  <2> HIDE DEF Z
  <2> QED BY ONLY <1>1, <2>2
<1>8. M \in G BY RewrittenGood
<1> HIDE DEF A, M, Z
<1>9. FlattenSeq(A) \in Seq(G) /\ FlattenSeq(Z) \in Seq(G) BY <1>6, <1>7, FlattenType
<1>10. \A x, y, z \in Seq(G) : x \o y \o z \in Seq(G) OBVIOUS
<1>11. FlattenSeq(A) \o <<M>> \o FlattenSeq(Z) \in Seq(G) BY ONLY <1>4, <1>8, <1>9, <1>10
<1> QED BY <1>2, <1>11

\* insert_spill_code leaves a program.
LEMMA CodeType ==
  ASSUME Numbered(class), Program(code, class), NEW k, Extended(k), NEW c,
         c = [b \in Block |-> FlattenSeq([n \in DOMAIN code[b] |-> SpillCode(b, n)])]
  PROVE  Program(c, k)
<1>1. ASSUME NEW b \in Block PROVE c[b] \in Seq(Proper(k))
  <2>1. DOMAIN code[b] = 1..Len(code[b]) /\ Len(code[b]) \in Nat BY DEF Program
  <2> PICK len \in Nat : len = Len(code[b]) BY <2>1
  <2> PICK G : G = Proper(k) OBVIOUS
  <2>2. \A n \in 1..len : SpillCode(b, n) \in Seq(G) BY <2>1, SpillType
  <2> PICK s : s = [n \in 1..len |-> SpillCode(b, n)] OBVIOUS
  <2>3. s \in [1..len -> Seq(G)] BY ONLY <2>2, s = [n \in 1..len |-> SpillCode(b, n)]
  <2>4. s \in Seq(Seq(G)) BY ONLY <2>3, len \in Nat
  <2>5. FlattenSeq(s) \in Seq(G) BY <2>4, FlattenType
  <2>6. c[b] = FlattenSeq(s) BY <2>1
  <2> QED BY <2>5, <2>6
<1>2. ASSUME NEW b \in Block
      PROVE  c[b] \in Seq(Insn) /\ \A i \in DOMAIN c[b] : WellFormed(c[b][i], k)
  <2> PICK s : s = c[b] OBVIOUS
  <2>1. s \in Seq(Proper(k)) BY <1>1
  <2>2. \A i \in DOMAIN s : s[i] \in Proper(k) BY ONLY <2>1
  <2>3. \A i \in DOMAIN s : s[i] \in Insn /\ WellFormed(s[i], k) BY <2>2 DEF Proper
  <2>4. s \in Seq(Insn) BY ONLY <2>1, <2>3
  <2> QED BY <2>3, <2>4
<1>3. c \in [Block -> Seq(Insn)]
  <2>1. DOMAIN c = Block /\ c = [b \in Block |-> c[b]] OBVIOUS
  <2> QED BY ONLY <1>2, <2>1
<1> QED BY <1>2, <1>3 DEF Program

-----------------------------------------------------------------------------
\* The next round, and the theorems.

\* The graph of the next round.
Blank(k, t) ==
  [adj |-> [v \in DOMAIN k |-> {}], degree |-> [v \in DOMAIN k |-> 0],
   moves |-> [v \in DOMAIN k |-> {}], alias |-> [v \in DOMAIN k |-> v],
   hardNum |-> [v \in DOMAIN k |-> IF v \in Hard THEN v ELSE -1],
   simplify |-> {}, freeze |-> {}, spill |-> {}, select |-> {}, coalesced |-> {},
   worklist |-> {}, active |-> {}, constrained |-> {}, frozen |-> {}, joined |-> {},
   stack |-> <<>>, spilled |-> {}, temps |-> t]

\* The graph a round starts from.
LEMMA FreshGraph ==
  ASSUME NEW k, NEW c, NEW t, Numbered(k), t \in SUBSET DOMAIN k, NEW h,
         h = Blank(k, t)
  PROVE  /\ Shape(k, c, h) /\ Symmetric(k, h) /\ Stacked(h) /\ Ranked(k, h) /\ Fresh(k, h)
         /\ \A v \in Hard : h.hardNum[v] = v
<1> PICK D : D = DOMAIN k OBVIOUS
<1> PICK adj : adj = [v \in D |-> {}] OBVIOUS
<1> PICK degree : degree = [v \in D |-> 0] OBVIOUS
<1> PICK alias : alias = [v \in D |-> v] OBVIOUS
<1> PICK num : num = [v \in D |-> IF v \in Hard THEN v ELSE -1] OBVIOUS
<1>1. h = [adj |-> adj, degree |-> degree, moves |-> adj, alias |-> alias, hardNum |-> num,
           simplify |-> {}, freeze |-> {}, spill |-> {}, select |-> {}, coalesced |-> {},
           worklist |-> {}, active |-> {}, constrained |-> {}, frozen |-> {}, joined |-> {},
           stack |-> <<>>, spilled |-> {}, temps |-> t]
  BY DEF Blank
<1>2. /\ adj \in [D -> SUBSET D] /\ degree \in [D -> Int] /\ adj \in [D -> SUBSET Moves(c)]
      /\ alias \in [D -> D] /\ num \in [D -> {-1} \cup Hard]
  OBVIOUS
<1>3. t \in SUBSET D /\ <<>> \in Seq(D) OBVIOUS
<1>4. Shape(k, c, h) BY ONLY <1>1, <1>2, <1>3, D = DOMAIN k DEF Shape, Records
<1>5. h.adj = adj /\ h.hardNum = num /\ h.stack = <<>> /\ h.select = {} /\ h.coalesced = {}
      /\ h.simplify = {} /\ h.freeze = {} /\ h.spill = {} /\ h.worklist = {} /\ h.active = {}
      /\ h.spilled = {}
  BY ONLY <1>1
<1>6. Symmetric(k, h) BY <1>5 DEF Symmetric
<1>7. Stacked(h) BY <1>5 DEF Stacked, ToSet
<1>8. Ranked(k, h)
  <2>1. [v \in DOMAIN k |-> 0] \in [DOMAIN k -> 0..0] OBVIOUS
  <2> QED BY <2>1, <1>5 DEF Ranked
<1>9. Uncoloured(k, h) BY <1>5 DEF Uncoloured
<1>10. \A v \in Hard : h.hardNum[v] = v BY <1>5, NodesFinite
<1> QED BY <1>4, <1>5, <1>6, <1>7, <1>8, <1>9, <1>10 DEF Fresh

\* insert_spill_code keeps the invariant.
LEMMA InsertSpillCodeKeeps == ASSUME RaInv, InsertSpillCode PROVE RaInv'
<1> PICK k : k = class' OBVIOUS
<1> PICK c : c = code' OBVIOUS
<1> PICK r : r = g' OBVIOUS
<1>1. Numbered(class) /\ Program(code, class) /\ Shape(class, code, g) /\ pc' = "build"
  BY DEF RaInv, State, InsertSpillCode
<1>2. Numbered(k) /\ Extended(k)
  <2>1. k = [v \in 0..(Cardinality(Reg) + Cardinality(Operands) - 1) |->
               IF v \in Reg THEN class[v]
               ELSE LET p == CHOOSE q \in Operands : Temp(q) = v
                    IN class[code[p[1]][p[2]].ops[p[3]].reg]]
    BY DEF InsertSpillCode
  <2> QED BY ONLY <1>1, <2>1, ClassType
<1>3. Program(c, k)
  <2>1. c = [b \in Block |-> FlattenSeq([n \in DOMAIN code[b] |-> SpillCode(b, n)])]
    BY DEF InsertSpillCode
  <2> QED BY ONLY <1>1, <1>2, <2>1, CodeType
<1> PICK t : t = NeverSpilled(DOMAIN k \ Reg) OBVIOUS
<1>4. t \in SUBSET DOMAIN k
  <2>1. g.temps \subseteq Reg BY <1>1 DEF Shape, Records, Reg
  <2>2. Reg \subseteq DOMAIN k BY <1>2 DEF Extended
  <2> QED BY <2>1, <2>2 DEF NeverSpilled
<1>5. r = Blank(k, t)
  <2> PICK A : A = [v \in DOMAIN k |-> {}] OBVIOUS
  <2> PICK D : D = [v \in DOMAIN k |-> 0] OBVIOUS
  <2> PICK L : L = [v \in DOMAIN k |-> v] OBVIOUS
  <2> PICK H : H = [v \in DOMAIN k |-> IF v \in Hard THEN v ELSE -1] OBVIOUS
  <2>1. r = [NoGraph EXCEPT !.adj = A, !.degree = D, !.moves = A, !.alias = L, !.hardNum = H,
                            !.temps = t]
    BY DEF InsertSpillCode
  <2>2. r = [adj |-> A, degree |-> D, moves |-> A, alias |-> L, hardNum |-> H,
            simplify |-> {}, freeze |-> {}, spill |-> {}, select |-> {}, coalesced |-> {},
            worklist |-> {}, active |-> {}, constrained |-> {}, frozen |-> {}, joined |-> {},
            stack |-> <<>>, spilled |-> {}, temps |-> t]
    BY ONLY <2>1 DEF NoGraph
  <2> QED BY ONLY <2>2, A = [v \in DOMAIN k |-> {}], D = [v \in DOMAIN k |-> 0],
       L = [v \in DOMAIN k |-> v], H = [v \in DOMAIN k |-> IF v \in Hard THEN v ELSE -1] DEF Blank
<1>6. /\ Shape(k, c, r) /\ Symmetric(k, r) /\ Stacked(r) /\ Ranked(k, r) /\ Fresh(k, r)
      /\ \A v \in Hard : r.hardNum[v] = v
  BY ONLY <1>2, <1>4, <1>5, FreshGraph
<1>7. State(k, c, r, "build", listed') BY <1>2, <1>3, <1>6 DEF State, Fresh
<1> QED BY <1>1, <1>7 DEF RaInv

\* The allocator starts in it.
LEMMA InitHolds == Init => RaInv
<1> SUFFICES ASSUME Init PROVE RaInv OBVIOUS
<1>1. PICK p \in Programs : code = p.code /\ class = p.class BY DEF Init
<1>2. class \in [0..(NumRegs - 1) -> DOMAIN Available] /\ Program(code, class)
  BY <1>1, ProgramsAssumption
<1>3. Numbered(class) BY <1>2, RegistersAssumption DEF Numbered
<1>4. /\ Shape(class, code, g) /\ Symmetric(class, g) /\ Stacked(g) /\ Ranked(class, g)
      /\ Fresh(class, g) /\ \A v \in Hard : g.hardNum[v] = v
  <2> PICK t : t = {} OBVIOUS
  <2>1. g = Blank(class, t) BY DEF Init, NoGraph, Reg, Blank
  <2>2. t \in SUBSET DOMAIN class OBVIOUS
  <2> QED BY ONLY <1>3, <2>1, <2>2, FreshGraph
<1>5. pc = "build" BY DEF Init
<1> QED BY <1>2, <1>3, <1>4, <1>5 DEF RaInv, State, Fresh

\* Every step keeps it.
LEMMA NextKeeps == RaInv /\ [Next]_vars => RaInv'
<1> SUFFICES ASSUME RaInv, [Next]_vars PROVE RaInv' OBVIOUS
<1>1. CASE UNCHANGED vars BY <1>1 DEF vars, RaInv
<1>2. CASE Next
  BY <1>2, BuildKeeps, SimplifyKeeps, CoalesceKeeps, FreezeKeeps, SelectSpillKeeps, TakenApartKeeps,
     AssignColorKeeps, ColorCoalescedKeeps, InsertSpillCodeKeeps DEF Next
<1> QED BY <1>1, <1>2

\* The inductive invariant of the allocator, from which the theorems below follow.
THEOREM RaInvariant == Spec => []RaInv
<1> QED BY InitHolds, NextKeeps, PTL DEF Spec

\* Registers that interfere in the code as it is get different hard registers of their
\* class, in every round of every program in which no hard register was put in a list:
\* through coalescing, freezing, spilling and spill code (assign_colors behind combine).
THEOREM Valid == Spec => []ValidUnlessListed
<1>1. RaInv => ValidUnlessListed BY DEF RaInv, ValidUnlessListed, ValidColors, Finished, Reg
<1> QED BY <1>1, RaInvariant, PTL

\* The five lists.
LEMMA ListsRange ==
  /\ DOMAIN Lists = 1..5
  /\ Lists[1] = g.simplify /\ Lists[2] = g.freeze /\ Lists[3] = g.spill
  /\ Lists[4] = g.select /\ Lists[5] = g.coalesced
BY DEF Lists

\* Type correctness: the code and the lists name registers there are, InsertArc makes no
\* loop, the stack is the list select and no move waits in two lists.
THEOREM RaTyped == Spec => []RaTypeOK
<1>1. RaInv => RaTypeOK
  <2> SUFFICES ASSUME RaInv PROVE RaTypeOK OBVIOUS
  <2>1. /\ Numbered(class) /\ Program(code, class) /\ Shape(class, code, g) /\ Symmetric(class, g)
        /\ Stacked(g) /\ g.active \cap g.worklist = {}
    BY DEF RaInv, State
  <2>2. ASSUME NEW b \in Block, NEW n \in DOMAIN code[b]
        PROVE  code[b][n] \in Insn /\ \A o \in ToSet(code[b][n].ops) : o.reg \in Reg
    <3>1. code[b][n] \in Insn /\ WellFormed(code[b][n], class) BY <2>1 DEF Program
    <3> QED BY <3>1 DEF WellFormed, ToSet, Reg
  <2>3. \A v \in Reg : g.adj[v] \subseteq Reg \ {v} /\ g.hardNum[v] \in {-1} \cup Hard
    <3>1. \A v \in DOMAIN class : g.adj[v] \subseteq DOMAIN class /\ g.hardNum[v] \in {-1} \cup Hard
      BY <2>1 DEF Shape, Records
    <3>2. \A v \in DOMAIN class : v \notin g.adj[v] BY <2>1, <3>1 DEF Symmetric
    <3> QED BY <3>1, <3>2 DEF Reg
  <2>4. ToSet(g.stack) = g.select BY <2>1 DEF Stacked
  <2>5. \A l \in ToSet(Lists) : l \subseteq Reg
    <3>1. g.simplify \subseteq Reg /\ g.freeze \subseteq Reg /\ g.spill \subseteq Reg
          /\ g.select \subseteq Reg /\ g.coalesced \subseteq Reg
      BY <2>1, ShapeFacts DEF Reg
    <3> TAKE l \in ToSet(Lists)
    <3>2. PICK i \in 1..5 : l = Lists[i] BY ListsRange DEF ToSet
    <3> QED BY <3>1, <3>2, ListsRange
  <2> QED BY <2>1, <2>2, <2>3, <2>4, <2>5 DEF RaTypeOK
<1> QED BY <1>1, RaInvariant, PTL

\* While the graph is taken apart every register to colour is in exactly one list, and
\* the degree of each still to be decided counts its neighbours that are left: the
\* moves between lists in decrement_degree, combine and freeze_moves lose and double none.
THEOREM InOneList == Spec => []Worklists
<1>1. RaInv => Worklists
  <2> SUFFICES ASSUME RaInv, pc = "color"
               PROVE  /\ \A v \in Reg \ Hard : Cardinality({i \in DOMAIN Lists : v \in Lists[i]}) = 1
                      /\ \A v \in (g.simplify \cup g.freeze \cup g.spill) \ Hard :
                           g.degree[v] = Cardinality(Adjacent(g, v))
    BY DEF Worklists
  <2>1. Graph(class, code, g, {}) BY DEF RaInv, State
  <2>2. Shape(class, code, g) /\ Apart(class, g) /\ Owing(class, g, {}, 0) BY <2>1 DEF Graph
  <2>3. ASSUME NEW v \in Reg \ Hard PROVE Cardinality({i \in DOMAIN Lists : v \in Lists[i]}) = 1
    <3>1. /\ v \in g.simplify \/ v \in g.freeze \/ v \in g.spill \/ v \in g.select \/ v \in g.coalesced
          /\ v \in g.simplify => v \notin g.freeze /\ v \notin g.spill /\ v \notin g.select
                                 /\ v \notin g.coalesced
          /\ v \in g.freeze => v \notin g.spill /\ v \notin g.select /\ v \notin g.coalesced
          /\ v \in g.spill => v \notin g.select /\ v \notin g.coalesced
          /\ v \in g.select => v \notin g.coalesced
      BY <2>2 DEF Apart, Gone, Reg
    <3>2. \E j \in 1..5 : v \in Lists[j]
      BY <3>1, ListsRange
    <3>3. PICK j \in 1..5 : v \in Lists[j] BY <3>2
    <3>4. \A i \in 1..5 : v \in Lists[i] => i = j
      BY <3>1, <3>3, ListsRange
    <3>5. {i \in DOMAIN Lists : v \in Lists[i]} = {j} BY <3>3, <3>4, ListsRange
    <3> QED BY <3>5, FS_Singleton
  <2>4. ASSUME NEW v \in (g.simplify \cup g.freeze \cup g.spill) \ Hard
        PROVE  g.degree[v] = Cardinality(Adjacent(g, v))
    <3>1. v \in DOMAIN class BY <2>2, ShapeFacts
    <3>2. v \notin Gone(g) BY <2>2 DEF Apart
    <3>3. g.degree[v] = Cardinality(Adjacent(g, v)) + 0 BY <2>2, <3>1, <3>2 DEF Owing
    <3>4. Cardinality(Adjacent(g, v)) \in Nat
      <4>1. Numbered(class) BY DEF RaInv, State
      <4> QED BY <4>1, <2>2, <3>1, AdjacentType
    <3> QED BY <3>3, <3>4
  <2> QED BY <2>3, <2>4
<1> QED BY <1>1, RaInvariant, PTL
=============================================================================
