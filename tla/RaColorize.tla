------------------------------ MODULE RaColorize ------------------------------
(***************************************************************************)
(* ra_colorize_graph (backend/ra-colorize.c): register allocation by       *)
(* colouring an interference graph with iterated coalescing of moves.  The *)
(* nodes are registers; the hard registers among them are precoloured.     *)
(* Each round builds the graph, takes it apart (simplify, coalesce,        *)
(* freeze, select a spill), and colours the nodes in reverse order; when   *)
(* a node gets no colour its operands go through memory and the next round *)
(* starts over.                                                            *)
(*                                                                         *)
(* A register is its number, which is the number of its node: both are     *)
(* given out in the same order.                                            *)
(***************************************************************************)
EXTENDS Integers, SequencesExt

CONSTANTS
  NumHard,      \* registers 0..NumHard - 1 are hard registers
  NumRegs,      \* registers at the beginning
  MaxReg,       \* BOUND on the registers ever made
  Block, Blocks,    \* the blocks, and their order
  Succs, LoopDepth,
  Available,    \* available[c]: hard registers of class c
  CallerSave,
  Programs      \* the functions: their code and the class of each register

VARIABLES
  code,   \* instructions of each block
  class,  \* reg_class
  g,      \* PhaseIFG: the graph and the lists
  pc,
  listed  \* HISTORY: a hard register has been in a list in this round

vars == <<code, class, g, pc, listed>>

Hard == 0..(NumHard - 1)
Reg == DOMAIN class          \* vertices
Insn == [kind : {"plain", "move", "call", "marker"},
         ops : Seq([reg : Nat, out : BOOLEAN])]

\* An instruction names registers there are.  A move joins two of one class, a
\* hard one among them only if it may be given to registers (the only hard
\* register that may not, SPILL_REG, is named by no move).
WellFormed(insn, k) ==
  /\ \A i \in DOMAIN insn.ops : insn.ops[i].reg \in DOMAIN k
  /\ insn.kind = "move" =>
       /\ Len(insn.ops) = 2
       /\ k[insn.ops[1].reg] = k[insn.ops[2].reg]
       /\ \A i \in 1..2 :
            insn.ops[i].reg \in Hard => insn.ops[i].reg \in Available[k[insn.ops[i].reg]]
Program(c, k) ==
  /\ c \in [Block -> Seq(Insn)]
  /\ \A b \in Block : \A i \in DOMAIN c[b] : WellFormed(c[b][i], k)

ASSUME RegistersAssumption ==
  /\ NumHard \in Nat /\ NumRegs \in Nat /\ NumHard =< NumRegs
  /\ CallerSave \subseteq Hard
  /\ \A c \in DOMAIN Available : Available[c] \subseteq Hard
ASSUME BlocksAssumption ==
  /\ Blocks \in Seq(Block) /\ ToSet(Blocks) = Block
  /\ \A i, j \in DOMAIN Blocks : Blocks[i] = Blocks[j] => i = j
  /\ Succs \in [Block -> SUBSET Block]
ASSUME ProgramsAssumption ==
  \A p \in Programs :
    /\ p.class \in [0..(NumRegs - 1) -> DOMAIN Available]
    /\ Program(p.code, p.class)

Defs(insn) == {o.reg : o \in {p \in ToSet(insn.ops) : p.out}}
Uses(insn) == {o.reg : o \in {p \in ToSet(insn.ops) : ~ p.out}}

-----------------------------------------------------------------------------
\* compute_global_live_sets (module Liveness has it step by step).
Through(insns, live) ==
  LET len == Len(insns)
      before[n \in 0..len] ==   \* the last n of them
        IF n = 0 THEN live
        ELSE (before[n - 1] \ Defs(insns[len - n + 1])) \cup Uses(insns[len - n + 1])
  IN before[len]
Out(livein, b) == UNION {livein[c] : c \in Succs[b]}
\* Every round but the last adds a register of the code to some block.
Used(c) == UNION {UNION {{o.reg : o \in ToSet(insn.ops)} : insn \in ToSet(c[b])} : b \in Block}
Rounds(c) == Cardinality(Block) * Cardinality(Used(c))
LiveIn(c) ==
  LET after[n \in 0..Rounds(c)] ==
        IF n = 0 THEN [b \in Block |-> {}]
        ELSE CHOOSE r \in {[b \in Block |-> Through(c[b], Out(l, b))] : l \in {after[n - 1]}} : TRUE
  IN after[Rounds(c)]

After(c, livein, b, k) == Through(SubSeq(c[b], k + 1, Len(c[b])), Out(livein, b))

\* handle_method_arguments: from the marker before the arguments of a call, or
\* the first instruction of the block.
Marker(insns, k) ==
  LET M == {j \in 1..k : insns[j].kind = "marker"} IN IF M = {} THEN 1 ELSE Max(M)

\* The arcs one instruction asks for.  A move lets its two sides share.
Clashes(insn, live) ==
  Defs(insn) \X ((live \cup Defs(insn)) \ (IF insn.kind = "move" THEN Uses(insn) ELSE {}))
CallClashes(insns, k, live) ==
  IF insns[k].kind # "call" THEN {}
  ELSE UNION {CallerSave \X (live \cup Defs(insns[j])) : j \in Marker(insns, k)..(k - 1)}

MutantOwnNeighbour(c) == {<<v, v>> : v \in DOMAIN class}
Arcs(c) ==
  LET livein == LiveIn(c)
      at(b, k) == LET live == After(c, livein, b, k) IN
                  Clashes(c[b][k], live) \cup CallClashes(c[b], k, live)
      arcs == UNION {UNION {at(b, k) : k \in DOMAIN c[b]} : b \in Block}
  IN {a \in arcs \cup {<<x[2], x[1]>> : x \in arcs} : a[1] # a[2]}

\* number_instructions
Place(b) == CHOOSE i \in DOMAIN Blocks : Blocks[i] = b
FirstUid(c, b) ==
  LET before[n \in 0..Len(Blocks)] ==
        IF n = 0 THEN 0 ELSE before[n - 1] + Len(c[Blocks[n]])
  IN before[Place(b) - 1]
Moves(c) == UNION {{[uid |-> FirstUid(c, b) + k, dst |-> c[b][k].ops[1].reg,
                     src |-> c[b][k].ops[2].reg] :
                    k \in {j \in DOMAIN c[b] : c[b][j].kind = "move"}} : b \in Block}

\* estimate_spill_costs: every operand counts 10 to the power of its loop depth.
Cost(c, r) ==
  MapThenSumSet(LAMBDA b : 10^LoopDepth[b] *
    MapThenSumSet(LAMBDA k : Cardinality({i \in DOMAIN c[b][k].ops : c[b][k].ops[i].reg = r}),
                  DOMAIN c[b]), Block)

-----------------------------------------------------------------------------
\* Parts of a step; each takes the graph and returns it changed.
Avail(v) == Cardinality(Available[class[v]])
Adjacent(h, v) == h.adj[v] \ (h.select \cup h.coalesced)
NodeMoves(h, v) == {m \in h.active \cup h.worklist : m \in h.moves[v]}
MoveRelated(h, v) == NodeMoves(h, v) # {}

\* alias
Alias(h, v) ==
  LET alias[w \in DOMAIN h.alias] == IF w \in h.coalesced THEN alias[h.alias[w]] ELSE w IN alias[v]

EnableMoves(h, V) ==
  LET again == h.active \cap UNION {NodeMoves(h, v) : v \in V} IN
  [h EXCEPT !.active = @ \ again, !.worklist = @ \cup again]

DecrementDegree(h, v) ==
  LET down == [h EXCEPT !.degree[v] = @ - 1]
      low == EnableMoves(down, Adjacent(h, v) \cup {v})
      unspilled == [low EXCEPT !.spill = @ \ {v}]
  IN IF h.degree[v] # Avail(v) THEN down
     ELSE IF MoveRelated(low, v) THEN [unspilled EXCEPT !.freeze = @ \cup {v}]
     ELSE IF v \in Hard THEN unspilled
     ELSE [unspilled EXCEPT !.simplify = @ \cup {v}]

InsertArc(h, v, w) ==
  IF v \in h.adj[w] \/ v = w THEN h
  ELSE [h EXCEPT !.adj[v] = @ \cup {w}, !.adj[w] = @ \cup {v},
                 !.degree[v] = @ + 1, !.degree[w] = @ + 1]

\* Bitmaps are visited from the smallest number on (the CHOOSE binds f to a
\* value before the step is taken).
ForEach(h, V, step(_, _)) ==
  LET upTo[n \in 0..Max(V \cup {0}) + 1] ==   \* the members below n
        IF n = 0 THEN h
        ELSE IF n - 1 \notin V THEN upTo[n - 1]
        ELSE CHOOSE r \in {step(f, n - 1) : f \in {upTo[n - 1]}} : TRUE
  IN upTo[Max(V \cup {0}) + 1]
LowerNeighbours(h, v) == ForEach(h, Adjacent(h, v), DecrementDegree)

MutantStaysFrozen(h, v) ==
  IF v \notin Hard /\ ~ MoveRelated(h, v) /\ h.degree[v] < Avail(v)
  THEN [h EXCEPT !.simplify = @ \cup {v}] ELSE h
AddWorklist(h, v) ==
  IF v \notin Hard /\ ~ MoveRelated(h, v) /\ h.degree[v] < Avail(v)
  THEN [h EXCEPT !.freeze = @ \ {v}, !.simplify = @ \cup {v}] ELSE h

\* May src be joined with the hard register dst?  With the register dst?
Ok(h, src, dst) ==
  \A t \in Adjacent(h, src) : h.degree[t] < Avail(t) \/ t \in Hard \/ dst \in h.adj[t]
Conservative(h, src, dst) ==
  Cardinality({t \in Adjacent(h, src) \cup Adjacent(h, dst) : h.degree[t] >= Avail(src)})
    < Avail(src)

\* combine: w joins v.
TakeArcs(h, v, w) ==
  ForEach(h, Adjacent(h, w), LAMBDA f, t : DecrementDegree(InsertArc(f, t, v), t))
Combine(h, v, w) ==
  LET joined == [h EXCEPT !.freeze = @ \ {w},
                          !.spill = IF w \in h.freeze THEN @ ELSE @ \ {w},
                          !.coalesced = @ \cup {w}, !.alias[w] = v,
                          !.moves[v] = @ \cup h.moves[w]]
      linked == TakeArcs(EnableMoves(joined, {w}), v, w)
  IN IF linked.degree[v] >= Avail(v) /\ v \in linked.freeze
     THEN [linked EXCEPT !.freeze = @ \ {v}, !.spill = @ \cup {v}] ELSE linked

FreezeMove(h, v, uid) ==
  LET m == CHOOSE n \in Moves(code) : n.uid = uid
      src == Alias(h, m.src)
      w == IF Alias(h, v) = src THEN Alias(h, m.dst) ELSE src
      frozen == [h EXCEPT !.active = @ \ {m}, !.frozen = @ \cup {m}]
  IN IF NodeMoves(frozen, w) = {} /\ frozen.degree[w] < Avail(w)
     THEN [frozen EXCEPT !.freeze = @ \ {w}, !.simplify = @ \cup {w}] ELSE frozen
FreezeMoves(h, v) ==
  ForEach(h, {m.uid : m \in NodeMoves(h, v)}, LAMBDA f, uid : FreezeMove(f, v, uid))

-----------------------------------------------------------------------------
\* A hard register has its colour: it is none of the nodes to colour.
InLists(h) == h.simplify \cup h.freeze \cup h.spill \cup h.select
Note == listed' = (listed \/ Hard \cap InLists(g') # {})

NoGraph == [
  adj |-> [v \in Reg |-> {}], degree |-> [v \in Reg |-> 0],
  moves |-> [v \in Reg |-> {}], alias |-> [v \in Reg |-> v],
  hardNum |-> [v \in Reg |-> IF v \in Hard THEN v ELSE -1],
  simplify |-> {}, freeze |-> {}, spill |-> {}, select |-> {}, coalesced |-> {},
  worklist |-> {}, active |-> {}, constrained |-> {}, frozen |-> {}, joined |-> {},
  stack |-> <<>>, spilled |-> {}, temps |-> {}]   \* temps: orig_spill_cost is maximal

Init ==
  /\ \E p \in Programs : code = p.code /\ class = p.class
  /\ g = NoGraph /\ pc = "build" /\ listed = FALSE

\* number_instructions, compute_global_live_sets, build_i_graph, build_worklists
Build ==
  /\ pc = "build"
  /\ \E arcs \in {Arcs(code)} :
       LET h == [g EXCEPT
                  !.adj = [v \in Reg |-> {a[2] : a \in {x \in arcs : x[1] = v}}],
                  !.degree = [v \in Reg |-> Cardinality({x \in arcs : x[1] = v})],
                  !.moves = [v \in Reg |-> {m \in Moves(code) : v \in {m.src, m.dst}}],
                  !.worklist = Moves(code)]
           spill == {v \in Reg \ Hard : Cardinality(h.adj[v]) >= Avail(v)}
           freeze == {v \in Reg \ (Hard \cup spill) : MoveRelated(h, v)}
       IN g' = [h EXCEPT !.spill = spill, !.freeze = freeze,
                         !.simplify = Reg \ (Hard \cup spill \cup freeze)]
  /\ pc' = "color"
  /\ listed' = FALSE
  /\ UNCHANGED <<code, class>>

Simplify ==
  /\ pc = "color" /\ g.simplify # {}
  /\ LET v == Min(g.simplify)
         h == [g EXCEPT !.simplify = @ \ {v}, !.select = @ \cup {v}, !.stack = <<v>> \o @]
     IN g' = LowerNeighbours(h, v)
  /\ Note
  /\ UNCHANGED <<code, class, pc>>

Coalesce ==
  /\ pc = "color" /\ g.simplify = {} /\ g.worklist # {}
  /\ \E m \in {n \in g.worklist : \A o \in g.worklist : n.uid =< o.uid} :
     LET to == Alias(g, m.dst)
         from == Alias(g, m.src)
         dst == IF from \in Hard THEN from ELSE to
         src == IF from \in Hard THEN to ELSE from
         h == [g EXCEPT !.worklist = @ \ {m}]
     IN g' =
        IF src = dst THEN AddWorklist([h EXCEPT !.joined = @ \cup {m}], dst)
        ELSE IF src \in Hard \/ dst \in g.adj[src]
        THEN AddWorklist(AddWorklist([h EXCEPT !.constrained = @ \cup {m}], dst), src)
        ELSE IF IF dst \in Hard THEN Ok(h, src, dst) ELSE Conservative(h, src, dst)
        THEN AddWorklist(Combine([h EXCEPT !.joined = @ \cup {m}], dst, src), dst)
        ELSE [h EXCEPT !.active = @ \cup {m}]
  /\ Note
  /\ UNCHANGED <<code, class, pc>>

Freeze ==
  /\ pc = "color" /\ g.simplify = {} /\ g.worklist = {} /\ g.freeze # {}
  /\ LET v == Min(g.freeze) IN
     g' = FreezeMoves([g EXCEPT !.freeze = @ \ {v}, !.simplify = @ \cup {v}], v)
  /\ Note
  /\ UNCHANGED <<code, class, pc>>

\* The cheapest one that is not a register of spill code, the first of equals.
Cheapest ==
  LET able == g.spill \ g.temps IN
  IF able = {} THEN {Min(g.spill)}
  ELSE {v \in able : \A w \in able :
         Cost(code, v) < Cost(code, w) \/ (Cost(code, v) = Cost(code, w) /\ v =< w)}

SelectSpill ==
  /\ pc = "color" /\ g.simplify = {} /\ g.worklist = {} /\ g.freeze = {} /\ g.spill # {}
  /\ \E v \in Cheapest :
       g' = FreezeMoves([g EXCEPT !.spill = @ \ {v}, !.simplify = @ \cup {v}], v)
  /\ Note
  /\ UNCHANGED <<code, class, pc>>

TakenApart ==
  /\ pc = "color" /\ g.worklist = {} /\ g.simplify \cup g.freeze \cup g.spill = {}
  /\ pc' = "assign"
  /\ UNCHANGED <<code, class, g, listed>>

-----------------------------------------------------------------------------
\* assign_colors
MutantAliasForgotten(v) == Available[class[v]] \ {g.hardNum[w] : w \in g.adj[v]}
Free(v) == Available[class[v]] \ {g.hardNum[Alias(g, w)] : w \in g.adj[v]}

AssignColor ==
  /\ pc = "assign" /\ g.stack # <<>>
  /\ LET v == Head(g.stack)
         h == [g EXCEPT !.stack = Tail(@), !.select = @ \ {v}]
     IN IF g.hardNum[v] # -1 THEN g' = h /\ pc' = pc
        ELSE IF Free(v) # {} THEN g' = [h EXCEPT !.hardNum[v] = Min(Free(v))] /\ pc' = pc
        ELSE IF v \in g.temps THEN g' = g /\ pc' = "fatal"
        ELSE g' = [h EXCEPT !.spilled = @ \cup {v}] /\ pc' = pc
  /\ UNCHANGED <<code, class, listed>>

ColorCoalesced ==
  /\ pc = "assign" /\ g.stack = <<>>
  /\ g' = [g EXCEPT !.hardNum = [v \in Reg |-> @[Alias(g, v)]]]
  /\ pc' = IF g.spilled = {} THEN "done" ELSE "rewrite"
  /\ UNCHANGED <<code, class, listed>>

\* insert_spill_code: the operands in the order they are visited, the blocks and
\* their instructions backwards.
Operands == UNION {UNION {{<<b, k, i>> :
    i \in {j \in DOMAIN code[b][k].ops : code[b][k].ops[j].reg \in g.spilled}} :
    k \in DOMAIN code[b]} : b \in Block}
Sooner(p, q) ==
  \/ Place(p[1]) > Place(q[1])
  \/ p[1] = q[1] /\ p[2] > q[2]
  \/ p[1] = q[1] /\ p[2] = q[2] /\ p[3] < q[3]
Temp(p) == Cardinality(Reg) + Cardinality({q \in Operands : Sooner(q, p)})

Load(r) == [kind |-> "plain", ops |-> <<[reg |-> r, out |-> TRUE]>>]
Store(r) == [kind |-> "plain", ops |-> <<[reg |-> r, out |-> FALSE]>>]

\* set_op on each operand, spill_in before the instruction, spill_out after it.
SpillCode(b, k) ==
  LET insn == code[b][k]
      len == Len(insn.ops)
      moved(i, out) == <<b, k, i>> \in Operands /\ insn.ops[i].out = out
  IN FlattenSeq([i \in 1..len |->
       IF moved(i, FALSE) THEN <<Load(Temp(<<b, k, i>>))>> ELSE <<>>])
     \o <<[kind |-> insn.kind, ops |-> [i \in 1..len |->
          IF <<b, k, i>> \in Operands THEN [reg |-> Temp(<<b, k, i>>), out |-> insn.ops[i].out]
          ELSE insn.ops[i]]]>>
     \o FlattenSeq([i \in 1..len |->
       IF moved(len - i + 1, TRUE) THEN <<Store(Temp(<<b, k, len - i + 1>>))>> ELSE <<>>])

\* Registers of spill code must not be spilled (orig_spill_cost).
MutantCostsAsOthers(new) == {}
NeverSpilled(new) == g.temps \cup new

InsertSpillCode ==
  /\ pc = "rewrite" /\ Cardinality(Reg) + Cardinality(Operands) =< MaxReg
  /\ code' = [b \in Block |-> FlattenSeq([k \in DOMAIN code[b] |-> SpillCode(b, k)])]
  /\ class' = [v \in 0..(Cardinality(Reg) + Cardinality(Operands) - 1) |->
       IF v \in Reg THEN class[v]
       ELSE LET p == CHOOSE q \in Operands : Temp(q) = v IN class[code[p[1]][p[2]].ops[p[3]].reg]]
  /\ LET new == DOMAIN class' IN
     g' = [NoGraph EXCEPT !.adj = [v \in new |-> {}], !.degree = [v \in new |-> 0],
             !.moves = [v \in new |-> {}], !.alias = [v \in new |-> v],
             !.hardNum = [v \in new |-> IF v \in Hard THEN v ELSE -1],
             !.temps = NeverSpilled(new \ Reg)]
  /\ pc' = "build"
  /\ UNCHANGED listed

Next ==
  \/ Build \/ Simplify \/ Coalesce \/ Freeze \/ SelectSpill \/ TakenApart
  \/ AssignColor \/ ColorCoalesced \/ InsertSpillCode

\* The allocator is one sequential computation, which goes on while it can.
Spec == Init /\ [][Next]_vars /\ WF_vars(Next)

-----------------------------------------------------------------------------
Lists == <<g.simplify, g.freeze, g.spill, g.select, g.coalesced>>

\* The code names registers there are, and the lists hold nodes of this round; the
\* stack is the list select in order, and no move waits in two lists.
RaTypeOK ==
  /\ \A b \in Block : \A k \in DOMAIN code[b] :
       code[b][k] \in Insn /\ \A o \in ToSet(code[b][k].ops) : o.reg \in Reg
  /\ \A v \in Reg : g.adj[v] \subseteq Reg \ {v} /\ g.hardNum[v] \in {-1} \cup Hard
  /\ ToSet(g.stack) = g.select
  /\ \A l \in ToSet(Lists) : l \subseteq Reg
  /\ g.active \cap g.worklist = {}

\* While the graph is taken apart every register that is not precoloured is in
\* exactly one list, and the degree of those still to be decided counts the
\* neighbours that are left (decrement_degree, combine and freeze_moves move
\* nodes between lists and change degrees one arc at a time).
Worklists ==
  pc = "color" =>
    /\ \A v \in Reg \ Hard : Cardinality({i \in DOMAIN Lists : v \in Lists[i]}) = 1
    /\ \A v \in (g.simplify \cup g.freeze \cup g.spill) \ Hard :
         g.degree[v] = Cardinality(Adjacent(g, v))

\* This is a graph colouring register allocator (ra-colorize.c:1): registers that
\* interfere in the code as it is get different hard registers of their class.
ValidColors ==
  pc = "done" =>
    /\ \A v \in Reg \ Hard : g.hardNum[v] \in Available[class[v]]
    /\ \A a \in Arcs(code) : g.hardNum[a[1]] # g.hardNum[a[2]]

\* The colouring is right in every round in which no hard register was put in a
\* list: arcs handed over by combine skip nodes that have left the graph, and
\* only hard registers must not leave it (they are coloured all along).
ValidUnlessListed == listed \/ ValidColors

\* Every round ends and so do the rounds: coalescing, freezing and spilling feed
\* each other's lists, and spilling makes new registers.
Terminates == <>(pc \in {"done", "fatal"})
=============================================================================
