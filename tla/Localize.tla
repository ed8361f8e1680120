------------------------------- MODULE Localize -------------------------------
(***************************************************************************)
(* Localisation of globals (opt/global-variable-localization.c): a global  *)
(* only the first function of the program mentions becomes a local of it,  *)
(* locals become temps, globals nothing reads are no longer assigned.      *)
(***************************************************************************)
EXTENDS Names

Mentioned(p) == UNION {ToSet(Operands(insn)) : insn \in ToSet(Code(p))}
GlobalsOf(p) == {v \in Mentioned(p) : IsGlobal(v)}
ByUid(S) == SetToSortSeq(S, LAMBDA v, w : v.uid < w.uid)

WithNames(p, new) ==
  LET name(v) == IF v \in DOMAIN new THEN new[v] ELSE v
  IN [p EXCEPT !.insns = [b \in Block |-> [i \in DOMAIN p.insns[b] |->
        [p.insns[b][i] EXCEPT !.def = name(@), !.use = [k \in DOMAIN @ |-> name(@[k])]]]]]

\* Step 1.  The initial value is stored at the front of the block after entry.
OwnGlobals(p, own) ==
  LET new == [v \in own |-> [v EXCEPT !.kind = "local", !.uid = NewSymbol(p) + @]]
      first(q) == p.succs[Entry][1]
  IN FoldLeft(LAMBDA q, v : [q EXCEPT !.insns[first(q)] =
                               <<Insert("store", new[v], <<Const(NameValue(v))>>)>> \o @],
              WithNames(p, new), ByUid(own))

\* Step 2.  What read or wrote memory becomes a copy.
LocalsToTemps(p) ==
  LET locals == {v \in Mentioned(p) : IsLocal(v)}
      q == WithNames(p, [v \in locals |-> [kind |-> "temp", uid |-> NewSymbol(p) + v.uid, ver |-> 0]])
      copy(i) == IF i.op = "load" /\ i.use[1] \in locals THEN "move"
                 ELSE IF i.op = "store" /\ i.def \in locals
                 THEN IF IsConst(i.use[1]) THEN "load" ELSE "move"
                 ELSE i.op
  IN [q EXCEPT !.insns = [b \in Block |-> [i \in DOMAIN @[b] |->
                            [@[b][i] EXCEPT !.op = copy(p.insns[b][i])]]]]

\* Step 3.
WithoutUnread(fs) ==
  LET insns == UNION {ToSet(Code(fs[f])) : f \in DOMAIN fs}
      unread == {v \in {i.def : i \in insns} \ {NoVar} : IsGlobal(v)} \ UNION {ToSet(i.use) : i \in insns}
  IN [f \in DOMAIN fs |-> [fs[f] EXCEPT !.insns = [b \in Block |->
        SelectSeq(@[b], LAMBDA i : ToSet(Operands(i)) \cap unread = {})]]]

\* GlobalVariableLocalization of the functions fs; the program begins with main.
GlobalVariableLocalization(fs, main) ==
  LET own == GlobalsOf(fs[main]) \ UNION {GlobalsOf(fs[f]) : f \in DOMAIN fs \ {main}}
      alone == [fs EXCEPT ![main] = OwnGlobals(@, own)]
  IN WithoutUnread([f \in DOMAIN fs |-> LocalsToTemps(alone[f])])
=============================================================================
