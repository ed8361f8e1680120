-------------------------------- MODULE Loops --------------------------------
(***************************************************************************)
(* Natural loops (opt/loop.c).  An edge from a block its destination       *)
(* dominates is a latch; the destination is the header of a loop.          *)
(***************************************************************************)
EXTENDS Names

\* is_loop_head
LatchOf(dom, h) == {bd[1] : bd \in {x \in dom : x[2] = h}}
IsLoopHead(p, dom, h) == \E a \in ToSet(p.preds[h]) \ {Entry} : a \in LatchOf(dom, h)
\* The headers, outer loops first.
LoopHeads(p, dom) == SelectSeq(RevPostOrder(p.succs), LAMBDA h : IsLoopHead(p, dom, h))

\* flow_loop_nodes_find, get_loop_body: what reaches a latch without passing the header.
LoopBody(p, dom, h) ==
  LET more(S) == S \cup {a \in UNION {ToSet(p.preds[b]) : b \in S \ {h}} : a \in LatchOf(dom, h)}
      grow[S \in SUBSET Block] == IF more(S) = S THEN S ELSE grow[more(S)]
  IN grow[{h} \cup (ToSet(p.preds[h]) \cap LatchOf(dom, h))]

\* copy_loop_headers: a loop left only by its header, which also goes on into it,
\* becomes a repeat loop.  Each latch edge is split with a copy of the header;
\* dominators and loops are those found before the first copy.
CopiedTo(q, n, h) == [q EXCEPT !.insns[n] = [i \in DOMAIN q.insns[h] |-> [q.insns[h][i] EXCEPT !.uid = 0]]]
MutantJumpKept(p, h, a) ==
  LET n == NewBlock(p)
      q == MakeEdge(RemoveEdge([p EXCEPT !.order = Append(@, n)], a, Nth(p.succs[a], h, 1)), a, n)
  IN CopiedTo(FoldLeft(LAMBDA f, d : MakeEdge(f, n, d), q, q.succs[h]), n, h)
CopyHeader(p, h, a) ==
  LET n == NewBlock(p)
      q == MakeEdge(RemoveEdge([p EXCEPT !.order = Append(@, n)], a, Nth(p.succs[a], h, 1)), a, n)
      r == FoldLeft(LAMBDA f, d : MakeEdge(f, n, d), q, q.succs[h])
  IN Retarget(CopiedTo(r, n, h), n, h)
Rotates(p, h, inside) ==
  LET leaves == {<<b, i>> : b \in inside, i \in {1, 2}} IN
  /\ h # Entry /\ Len(p.succs[h]) = 2 /\ ToSet(p.succs[h]) \cap inside # {}
  /\ {x \in leaves : x[2] \in DOMAIN p.succs[x[1]] /\ p.succs[x[1]][x[2]] \notin inside}
       \in {{<<h, 1>>}, {<<h, 2>>}}
CopyLoopHeaders(p) ==
  LET dom == Dominators(p, p.preds, Entry)
      body == [h \in Blocks(p) |-> LoopBody(p, dom, h)]
      latches(q, h) == SelectSeq(q.preds[h], LAMBDA a : a \in LatchOf(dom, h))
  IN FoldLeft(LAMBDA q, h : IF Rotates(q, h, body[h])
                            THEN FoldLeft(LAMBDA f, a : CopyHeader(f, h, a), q, latches(q, h)) ELSE q,
              p, LoopHeads(p, dom))

\* Every edge into h from a block of From, in the order of the list, is made anew
\* into n and removed.
Redirect(p, h, From, n) ==
  FoldLeft(LAMBDA q, a : RemoveEdge(MakeEdge(q, a, n), a, Nth(q.succs[a], h, 1)),
           p, SelectSeq(p.preds[h], LAMBDA a : a \in From))

\* create_preheader and generate_prolog: the edges that enter the loop go to a new
\* block, which jumps to the header.
WithPreheader(p, h, inside) ==
  LET n == NewBlock(p) IN
  Retarget(MakeEdge(Redirect(Linked(p, n, h), h, Blocks(p) \ inside, n), n, h), n, h)

CreatePreheaders(p) ==
  LET dom == Dominators(p, p.preds, Entry) IN
  FoldLeft(LAMBDA q, h : IF h = Entry THEN q ELSE WithPreheader(q, h, LatchOf(dom, h)),
           p, LoopHeads(p, dom))
=============================================================================
