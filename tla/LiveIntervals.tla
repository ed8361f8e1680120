---------------------------- MODULE LiveIntervals ----------------------------
(***************************************************************************)
(* linear_scan_regalloc (backend/linearscan.c) between the live sets and   *)
(* the scan: the instructions are numbered along the block order, then one *)
(* walk from the last instruction to the first gives every register its    *)
(* life range [lr_begin, lr_end), the exact list of ranges that is used    *)
(* for hard registers, and the instructions that name it.                  *)
(*                                                                         *)
(* Points of time are instruction numbers: point u lies after instruction  *)
(* u, point 0 before all of them.                                          *)
(***************************************************************************)
EXTENDS Liveness

CONSTANTS
  Hard,         \* the hard registers among Reg
  CallerSave,   \* backend->caller_save_registers
  Unavailable   \* hard registers no class may hand out (SPILL_REG)

ASSUME HardAssumption == CallerSave \subseteq Hard /\ Unavailable \subseteq Hard
                         /\ Hard \subseteq Reg

\* handle_method_arguments: the marker before the arguments of a call, or the
\* first instruction of the block.
Marker(insns, i) ==
  LET M == {j \in 1..i : insns[j].kind = "marker"} IN
  IF M = {} THEN 1 ELSE CHOOSE j \in M : \A m \in M : m =< j

\* What translate_call leaves: one move per argument register between the marker
\* and the call, and calls that do not write the registers they destroy.
ASSUME ArgumentsAssumption ==
  \A c \in Codes : \A b \in Block : \A i \in DOMAIN c[b] :
    c[b][i].kind = "call" =>
      \A w, x \in Marker(c[b], i)..i :
        w < x => c[b][w].out \cap c[b][x].out \cap CallerSave = {}

\* Only branches and calls write SPILL_REG, and they read it too (ArmInstInput,
\* ArmInstOutput); every block but the last ends with a branch.
ASSUME SpillRegAssumption ==
  \A c \in Codes : \A b \in Block :
    /\ \A i \in DOMAIN c[b] : c[b][i].out \cap Unavailable \subseteq c[b][i].in
    /\ b # Exit => c[b] # <<>> /\ Unavailable \subseteq c[b][Len(c[b])].in

VARIABLES
  phase,
  firstUid,         \* firstUid[j]: insn->uid of the first instruction of the j-th
                    \* block; one more entry holds insn_order
  lrBegin, lrEnd,   \* lr_begin and lr_end
  ranges,           \* interval->_first: a list of <<_from, _to>>
  usePos,           \* use_pos: the numbers of the instructions naming a register
  wb, wk,           \* the walk's block (position in rpo) and instruction
  last              \* last_insn->uid, or 0

intervalVars == <<firstUid, lrBegin, lrEnd, ranges, usePos, wb, wk, last>>
allVars == <<vars, phase, intervalVars>>

\* Instructions are numbered from 1 along the block order.
MutantFromZero ==
  LET f[j \in 1..(Len(rpo) + 1)] ==
        IF j = 1 THEN 0 ELSE f[j - 1] + Len(code[rpo[j - 1]])
  IN f
LinearNumbers ==
  LET f[j \in 1..(Len(rpo) + 1)] ==
        IF j = 1 THEN 1 ELSE f[j - 1] + Len(code[rpo[j - 1]])
  IN f
InsnOrder == firstUid[Len(rpo) + 1]
Uid(j, i) == firstUid[j] + i - 1

Lo(a, b) == IF a < b THEN a ELSE b
Hi(a, b) == IF a < b THEN b ELSE a

\* add_range: joins the first range or goes before it.
MutantNeverJoins(s, from, to) == << <<from, to>> >> \o s
AddRange(s, from, to) ==
  IF s # <<>> /\ s[1][1] =< to
  THEN << <<Lo(from, s[1][1]), Hi(to, s[1][2])>> >> \o Tail(s)
  ELSE << <<from, to>> >> \o s

\* add_def: the first range starts here, or the value is dead.
MutantDeadValueIgnored(s, p) ==
  IF s # <<>> /\ s[1][1] =< p THEN [s EXCEPT ![1] = <<p, @[2]>>] ELSE s
AddDef(s, p) ==
  IF s # <<>> /\ s[1][1] =< p THEN [s EXCEPT ![1] = <<p, @[2]>>]
  ELSE AddRange(s, p, p + 1)

Block_ == rpo[wb]
AfterEnd == IF last = 0 THEN InsnOrder ELSE last
BeforeStart == (IF code[Block_] = <<>> THEN AfterEnd ELSE firstUid[wb]) - 1

IntervalInit ==
  /\ Init
  /\ phase = "live" /\ firstUid = <<>>
  /\ lrBegin = [r \in Reg |-> 0] /\ lrEnd = [r \in Reg |-> 0]
  /\ ranges = [r \in Reg |-> <<>>] /\ usePos = [r \in Reg |-> <<>>]
  /\ wb = 0 /\ wk = 0 /\ last = 0

LiveSets == phase = "live" /\ Next /\ UNCHANGED <<phase, intervalVars>>

\* All ranges start as [after-end, 0), those of SPILL_REG as the whole code.
StartWalk ==
  /\ phase = "live" /\ pc = "done"
  /\ firstUid' = LinearNumbers
  /\ LET afterEnd == LinearNumbers[Len(rpo) + 1] IN
     /\ lrBegin' = [r \in Reg |-> IF r \in Unavailable THEN 0 ELSE afterEnd]
     /\ lrEnd' = [r \in Reg |-> IF r \in Unavailable THEN afterEnd ELSE 0]
     /\ ranges' = [r \in Reg |-> IF r \in Unavailable
                                 THEN AddRange(AddDef(<<>>, 0), 0, afterEnd) ELSE <<>>]
  /\ wb' = Len(rpo) /\ last' = 0 /\ phase' = "leave"
  /\ UNCHANGED <<vars, usePos, wk>>

\* What is live out of the block lives to the end of it and, until a definition
\* turns up, from its start.
LeaveBackwards ==
  /\ phase = "leave"
  /\ lrEnd' = [r \in Reg |-> IF r \in liveout[Block_] THEN Hi(lrEnd[r], AfterEnd)
                             ELSE lrEnd[r]]
  /\ ranges' = [r \in Reg |-> IF r \in liveout[Block_]
                              THEN AddRange(ranges[r], BeforeStart, AfterEnd)
                              ELSE ranges[r]]
  /\ wk' = Len(code[Block_]) /\ phase' = "insn"
  /\ UNCHANGED <<vars, firstUid, lrBegin, usePos, wb, last>>

\* One instruction: calls first, then the outputs, then the inputs.
MutantInputBeforeOutput(r, insn, u, from) ==
  LET used == IF r \in insn.in THEN AddRange(ranges[r], BeforeStart, u) ELSE ranges[r]
      called == IF insn.kind = "call" /\ r \in CallerSave
                THEN AddRange(used, from, u + 1) ELSE used
  IN IF r \in insn.out THEN AddDef(called, u) ELSE called
RangesAt(r, insn, u, from) ==
  LET called == IF insn.kind = "call" /\ r \in CallerSave
                THEN AddRange(ranges[r], from, u + 1) ELSE ranges[r]
      defined == IF r \in insn.out THEN AddDef(called, u) ELSE called
  IN IF r \in insn.in THEN AddRange(defined, BeforeStart, u) ELSE defined

MutantMarkerIgnored(insn, u) == u
CallStart(insn, u) ==
  IF insn.kind = "call" THEN Uid(wb, Marker(code[Block_], wk)) ELSE u

MutantUsesOnly(r, insn, u) == IF r \in insn.in THEN <<u>> ELSE <<>>
Named(r, insn, u) == (IF r \in insn.out THEN <<u>> ELSE <<>>)
                     \o (IF r \in insn.in THEN <<u>> ELSE <<>>)

WalkBack ==
  /\ phase = "insn" /\ wk > 0
  /\ LET insn == code[Block_][wk]
         u == Uid(wb, wk)
         from == CallStart(insn, u)
         clobbers == IF insn.kind = "call" THEN CallerSave ELSE {} IN
     /\ lrBegin' = [r \in Reg |->
          LET b == IF r \in clobbers THEN Lo(lrBegin[r], from) ELSE lrBegin[r] IN
          IF r \in insn.out THEN Lo(b, u) ELSE b]
     /\ lrEnd' = [r \in Reg |->
          LET e == IF r \in clobbers THEN Hi(lrEnd[r], u + 1) ELSE lrEnd[r] IN
          IF r \in insn.out \cup insn.in THEN Hi(e, u) ELSE e]
     /\ ranges' = [r \in Reg |-> RangesAt(r, insn, u, from)]
     /\ usePos' = [r \in Reg |-> usePos[r] \o Named(r, insn, u)]
  /\ wk' = wk - 1
  /\ UNCHANGED <<vars, phase, firstUid, wb, last>>

\* What is live into the block lives from just before it.
MutantLiveInForgotten(r) == lrBegin[r]
BeginAtEntry(r) ==
  IF r \in livein[Block_] THEN Lo(lrBegin[r], BeforeStart) ELSE lrBegin[r]

EnterBackwards ==
  /\ phase = "insn" /\ wk = 0
  /\ lrBegin' = [r \in Reg |-> BeginAtEntry(r)]
  /\ ranges' = [r \in Reg |-> IF r \in livein[Block_]
                              THEN AddDef(ranges[r], BeforeStart) ELSE ranges[r]]
  /\ last' = IF code[Block_] = <<>> THEN last ELSE firstUid[wb]
  /\ IF wb > 1 THEN wb' = wb - 1 /\ phase' = "leave" ELSE wb' = wb /\ phase' = "end"
  /\ UNCHANGED <<vars, firstUid, lrEnd, usePos, wk>>

\* Registers nobody defines start with the routine.
FinishWalk ==
  /\ phase = "end"
  /\ lrBegin' = [r \in Reg |-> IF lrBegin[r] = InsnOrder THEN 0 ELSE lrBegin[r]]
  /\ phase' = "done"
  /\ UNCHANGED <<vars, firstUid, lrEnd, ranges, usePos, wb, wk, last>>

IntervalNext == \/ LiveSets \/ StartWalk \/ LeaveBackwards \/ WalkBack
                \/ EnterBackwards \/ FinishWalk

IntervalSpec == IntervalInit /\ [][IntervalNext]_allVars

-----------------------------------------------------------------------------
\* intersects_at, for the one range <<b, e>> of a virtual register: the walk
\* along a hard register's list.
Intersects(s, b, e) ==
  LET f[i \in 1..(Len(s) + 1)] ==
        IF i > Len(s) THEN FALSE
        ELSE IF s[i][1] < b THEN IF s[i][2] =< b THEN f[i + 1] ELSE TRUE
        ELSE IF b < s[i][1] THEN s[i][1] < e
        ELSE IF s[i][1] = s[i][2] THEN f[i + 1] ELSE b # e
  IN f[1]

Virtual == Reg \ Hard
Overlap(b1, e1, b2, e2) == b1 < e2 /\ b2 < e1   \* as in module LinearScan
Conflict(r, v) ==
  IF r \in Hard THEN Intersects(ranges[r], lrBegin[v], lrEnd[v])
  ELSE Overlap(lrBegin[r], lrEnd[r], lrBegin[v], lrEnd[v])

\* The point of time of a gap of the j-th block.
Point(j, i) == firstUid[j] + i - 2
Written(insn) == insn.out \cup (IF insn.kind = "call" THEN CallerSave ELSE {})

\* The types; no number is negative and the walk stays within the code.
IntervalTypeOK ==
  /\ phase \in {"live", "leave", "insn", "end", "done"}
  /\ firstUid \in Seq(Nat)
  /\ lrBegin \in [Reg -> Nat] /\ lrEnd \in [Reg -> Nat]
  /\ ranges \in [Reg -> Seq(Nat \X Nat)]
  /\ usePos \in [Reg -> Seq(Nat)]
  /\ phase # "live" => wb \in DOMAIN rpo
  /\ phase = "insn" => wk \in 0..Len(code[Block_])

\* Wherever some path may still read a register, its range covers that point:
\* the single range of a virtual register spans the holes of the linear order
\* and of loops, the list of a hard register has none too many.
Covers ==
  phase = "done" =>
    \A r \in Reg : LET L == LiveGaps(r) IN
      \A j \in DOMAIN rpo : \A i \in 1..(Len(code[rpo[j]]) + 1) :
        <<rpo[j], i>> \in L =>
          LET p == Point(j, i) IN
          IF r \in Hard THEN \E g \in DOMAIN ranges[r] :
                               ranges[r][g][1] =< p /\ p < ranges[r][g][2]
          ELSE lrBegin[r] =< p /\ p < lrEnd[r]

\* A register that is live after an instruction that does not write it is in
\* conflict with everything that instruction writes or destroys, values nobody
\* reads and the registers a call does not save included.
NoClobber ==
  phase = "done" =>
    \A v \in Virtual : LET L == LiveGaps(v) IN
      \A j \in DOMAIN rpo : \A i \in DOMAIN code[rpo[j]] :
        LET insn == code[rpo[j]][i] IN
        <<rpo[j], i + 1>> \in L /\ v \notin insn.out =>
          \A r \in Written(insn) : Conflict(r, v)

\* An argument stays in its register from the instruction that puts it there to
\* the call, although the call is not said to read it: the range of the clobbered
\* registers begins at the call's marker and the definition only shortens it.
ArgumentsKept ==
  phase = "done" =>
    \A j \in DOMAIN rpo : \A i \in DOMAIN code[rpo[j]] :
      LET insns == code[rpo[j]]
          start == Marker(insns, i) IN
      insns[i].kind = "call" =>
        \A w \in start..i : \A h \in insns[w].out \cap CallerSave :
          \E g \in DOMAIN ranges[h] : ranges[h][g][1] =< Uid(j, w) /\ Uid(j, i) < ranges[h][g][2]

\* "SPILL_REG is occupied so that it cannot be allocated": although every call and
\* branch redefines it, which cuts the range it was given, no virtual register has
\* a life range free of it, because branches read it too and end every block but
\* the last.
SpillRegReserved ==
  phase = "done" =>
    \A h \in Unavailable : \A v \in Virtual :
      lrBegin[v] < lrEnd[v] => Intersects(ranges[h], lrBegin[v], lrEnd[v])

\* The list of a hard register is sorted, so that intersects_at, which stops at
\* the first range beyond its argument, finds every overlap.
ScanFindsOverlap ==
  phase = "done" =>
    \A h \in Hard : \A b, e \in 0..InsnOrder :
      b =< e => (Intersects(ranges[h], b, e) <=>
                   \E g \in DOMAIN ranges[h] :
                     Overlap(ranges[h][g][1], ranges[h][g][2], b, e))

\* use_pos has every instruction that names a register, the last one first, as
\* addIntervalsForSpills needs it to rewrite all operands.
UsesComplete ==
  phase = "done" =>
    \A r \in Reg :
      /\ \A m, n \in DOMAIN usePos[r] : m < n => usePos[r][n] =< usePos[r][m]
      /\ {usePos[r][n] : n \in DOMAIN usePos[r]} =
           {u \in 1..(InsnOrder - 1) :
              \E j \in DOMAIN rpo : \E i \in DOMAIN code[rpo[j]] :
                u = Uid(j, i) /\ r \in code[rpo[j]][i].out \cup code[rpo[j]][i].in}
=============================================================================
