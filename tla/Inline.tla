-------------------------------- MODULE Inline --------------------------------
(***************************************************************************)
(* Inlining (opt/inline.c).  Function by function, in the order the call   *)
(* graph met them, every call of it is replaced by its body; a call a      *)
(* function makes to itself only while it has not been expanded too often. *)
(* Functions are numbers, a program with several is a function of them.    *)
(* Array parameters are left out.                                          *)
(***************************************************************************)
EXTENDS Names

CONSTANTS MaxExpanded, Threshold    \* max_expanded, THRESHOLD

\* Function 0 stands for the external ones.
IsCall(insn) == insn.op \in {"call", "obs"}
Callee(insn) == IF insn.op = "call" THEN insn.lit ELSE 0
Calls(p) == SelectSeq(Code(p), IsCall)

-----------------------------------------------------------------------------
\* The call graph: vex the functions in the order they are met, count how often a
\* function was inlined in itself, arcs from caller to callee with the numbers of
\* the calls.  A new arc is the first of both lists it is in, so one list with
\* the latest first stands for all.
Arc(i, j, uid, id) == [tail |-> i, head |-> j, calls |-> {uid}, id |-> id]
From(G, i) == SelectSeq(G.arcs, LAMBDA a : a.tail = i)
Into(G, j) == SelectSeq(G.arcs, LAMBDA a : a.head = j)
InsertVex(G, f) == IF f \in ToSet(G.vex) THEN G ELSE [G EXCEPT !.vex = Append(@, f)]

\* An arc from i to j is looked for along the arcs that have the head of the latest
\* from i: only the latest can be found.
InsertArc(G, i, j, uid) ==
  LET new == [G EXCEPT !.arcs = <<Arc(i, j, uid, G.made)>> \o @, !.made = @ + 1] IN
  IF From(G, i) = <<>> THEN new
  ELSE LET latest == From(G, i)[1] IN
       IF latest.head # j THEN new
       ELSE [G EXCEPT !.arcs[Nth(G.arcs, latest, 1)].calls = @ \cup {uid}]

\* DeleteArc takes a call from the latest arc from i to j, also when it is another
\* arc that has it; an arc without calls goes.
Latest(G, i, j) == SelectSeq(G.arcs, LAMBDA a : a.tail = i /\ a.head = j)[1]
DeleteArc(G, i, j, uid) ==
  LET k == Nth(G.arcs, Latest(G, i, j), 1) IN
  IF G.arcs[k].calls \subseteq {uid} THEN [G EXCEPT !.arcs = RemoveAt(@, k)]
  ELSE [G EXCEPT !.arcs[k].calls = @ \ {uid}]

\* Build.  The order in which C evaluates the two InsertVex in one call is open.
Build(fs, names, calleeFirst) ==
  LET empty == [vex |-> <<>>, arcs |-> <<>>, made |-> 1]
      met(G, f, g) == IF calleeFirst THEN InsertVex(InsertVex(G, g), f)
                      ELSE InsertVex(InsertVex(G, f), g)
      calls(G, f) == FoldLeft(LAMBDA H, c : InsertArc(met(H, f, Callee(c)), f, Callee(c), c.uid), G, Calls(fs[f]))
  IN FoldLeft(calls, empty, names)

-----------------------------------------------------------------------------
\* copy_function of a function inlined in itself: its variables are new ones.
Duplicated(p, sym) ==
  LET vars == NodeSet(p)
      new(v) == IF IsConst(v) \/ IsGlobal(v) THEN v ELSE [v EXCEPT !.uid = sym + Uid(vars, v), !.ver = 0]
  IN [p EXCEPT !.insns = [b \in Block |-> [i \in DOMAIN p.insns[b] |->
        [p.insns[b][i] EXCEPT !.def = IF @ = NoVar THEN @ ELSE new(@),
                              !.use = [k \in DOMAIN @ |-> new(@[k])]]]]]

\* The block of the call is split after it; the second half is x.
Split(p, b, k, x) ==
  LET q == [p EXCEPT !.order = Append(@, x), !.insns[b] = SubSeq(@, 1, k - 1),
                     !.insns[x] = SubSeq(p.insns[b], k + 1, Len(p.insns[b]))]
  IN FoldLeft(LAMBDA f, d : RemoveEdge(MakeEdge(f, x, d), b, 1), q, p.succs[b])

\* inline_call: instruction k of block b of p, which calls body.  Entry of body is
\* the block of the call, exit what comes after it; params are stored, the result
\* is moved where it is expected.  New instructions are numbered from uid on.
InlineCall(p, body, b, k, uid) ==
  LET call == p.insns[b][k]
      inner == SelectSeq(body.order, LAMBDA c : c \notin {Entry, Exit})
      free == SelectSeq([i \in 1..Max(Block) |-> i], LAMBDA c : c \in Block \ Blocks(p))
      x == free[1]
      at(c) == IF c = Entry THEN b ELSE IF c = Exit THEN x ELSE free[1 + Uid(inner, c)]
      before(c) == Len(FlattenSeq([n \in 1..(Uid(inner, c) - 1) |-> body.insns[inner[n]]]))
      code(c) == [i \in DOMAIN body.insns[c] |->
        [body.insns[c][i] EXCEPT !.uid = uid + before(c) + i, !.to = [n \in DOMAIN @ |-> at(@[n])]]]
      params == SelectSeq(body.insns[Entry], LAMBDA insn : insn.op = "fparam")
      stores == [n \in DOMAIN call.use |-> Insert("store", params[n].def, <<call.use[n]>>)]
      result == Last(body.insns[Exit]).use
      moved == IF result = <<>> THEN <<>> ELSE <<Insert("move", call.def, result)>>
      linked == FoldLeft(LAMBDA q, c : [q EXCEPT !.order = Append(@, at(c)), !.insns[at(c)] = code(c)],
                         Split(p, b, k, x), inner)
      edges == FoldLeft(LAMBDA q, c : FoldLeft(LAMBDA r, d : MakeEdge(r, at(c), at(d)), q, body.succs[c]),
                        linked, body.order)
  IN [edges EXCEPT !.insns[b] = @ \o stores \o <<Goto(at(body.succs[Entry][1]))>>,
                   !.insns[x] = moved \o @]

\* The calls of body, with the numbers they get in their new place.
CopiedCalls(body, uid) ==
  LET code == FlattenSeq([n \in DOMAIN body.order |->
                IF body.order[n] \in {Entry, Exit} THEN <<>> ELSE body.insns[body.order[n]]])
      at == SelectSeq([i \in DOMAIN code |-> i], LAMBDA i : IsCall(code[i]))
  IN [n \in DOMAIN at |-> [uid |-> uid + at[n], callee |-> Callee(code[at[n]])]]

\* The smallest call of an arc is inlined.  t: the functions, the call graph, the
\* last numbers of an instruction and a symbol, and the arc the call was taken from.
CallSite(fs, uid) ==
  CHOOSE x \in UNION {UNION {{f} \X {b} \X DOMAIN fs[f].insns[b] : b \in Blocks(fs[f])} : f \in DOMAIN fs} :
    LET insn == fs[x[1]].insns[x[2]][x[3]] IN insn.op = "call" /\ insn.uid = uid
InlineOne(t, arc) ==
  LET uid == Min(arc.calls)
      site == CallSite(t.fs, uid)
      body == IF arc.tail = arc.head THEN Duplicated(t.fs[arc.head], t.sym) ELSE t.fs[arc.head]
      graph == FoldLeft(LAMBDA G, c : InsertArc(G, arc.head, c.callee, c.uid),
                        DeleteArc(t.graph, arc.tail, arc.head, uid), CopiedCalls(body, t.uid))
  IN [t EXCEPT !.fs[site[1]] = InlineCall(@, body, site[2], site[3], t.uid),
               !.graph = graph, !.next = Latest(t.graph, arc.tail, arc.head).id, !.uid = @ + Len(Code(body)), !.sym = @ + Len(NodeSet(body)),
               !.count[arc.head] = IF arc.tail = arc.head THEN @ + 1 ELSE @]

\* The calls of function j: those of one arc, going on with the arc the last call was
\* taken from, then those of the arc that is first by now, until that is one of j to
\* itself and j has been expanded enough.
Enough(t, a) == /\ a.tail = a.head
                /\ t.count[a.head] >= MaxExpanded \/ Len(Code(t.fs[a.head])) >= Threshold
RECURSIVE InlineArc(_, _), InlineCallers(_, _)
InlineArc(t, id) ==
  LET found == SelectSeq(t.graph.arcs, LAMBDA a : a.id = id) IN
  IF found = <<>> \/ Enough(t, found[1]) THEN t ELSE LET u == InlineOne(t, found[1]) IN InlineArc(u, u.next)
InlineCallers(t, j) ==
  LET arcs == Into(t.graph, j) IN
  IF j = 0 \/ arcs = <<>> \/ Enough(t, arcs[1]) THEN t ELSE InlineCallers(InlineArc(t, arcs[1].id), j)

\* inline_transform: the functions left, those called and the last.
InlineTransform(fs, names, calleeFirst) ==
  LET uids == UNION {{i.uid : i \in ToSet(Code(fs[f]))} : f \in DOMAIN fs}
      graph == Build(fs, names, calleeFirst)
      start == [fs |-> fs, graph |-> graph, uid |-> Largest(uids), count |-> [f \in DOMAIN fs |-> 0], next |-> 0,
                sym |-> Max({NewSymbol(fs[f]) : f \in DOMAIN fs})]
      end == FoldLeft(InlineCallers, start, graph.vex)
  IN [f \in {g \in DOMAIN fs : g = Last(names) \/ Into(end.graph, g) # <<>>} |-> end.fs[f]]
=============================================================================
