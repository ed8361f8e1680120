------------------------------ MODULE LinearScan ------------------------------
(***************************************************************************)
(* The linear scan itself: backend/linearscan.c from try_alloc_reg to the  *)
(* outer loop of linear_scan_regalloc.  A function's virtual registers     *)
(* come with a life range [lr_begin, lr_end) (module LiveIntervals says    *)
(* how it is built); they are visited in order of lr_begin and each one    *)
(* gets a hard register, takes one away from an active register, or is     *)
(* spilled.  A round that spilled anything rewrites every operand of the   *)
(* spilled registers with a fresh, unspillable register and starts again.  *)
(*                                                                         *)
(* What is abstracted: an instruction is its number (uid) and its operand  *)
(* slots <<uid, idx>>, idx 0 being the output operand; the descriptor of a *)
(* virtual register is the flag "can be rematerialised"; qsort is the      *)
(* choice of the first register of `todo' in the order of cmp_begin.       *)
(***************************************************************************)
EXTENDS Integers, Sequences, FiniteSets

CONSTANTS
  Class,            \* register classes that own hard registers
  NoRegs,           \* NO_REGS, the class of a register that has been spilled
  NextAvail,        \* [Class -> Nat]: classes[c].next_avail
  MaxNum,           \* [Class -> Nat]: classes[c].max_num
  NumPhysicalRegs,  \* backend->num_physical_regs: the size of active[c]
  NumInitial,       \* registers 1..NumInitial come from instruction selection
  MaxReg,           \* BOUND on the registers ever created (gen_vreg's counter)
  Lifetimes,        \* the descriptions an initial register may have
  Code(_),          \* which of them may occur together in one function
  FixedInputs,      \* the interval lists the hard registers may have
  SpillBase,        \* cfun->arg_size + cfun->local_size
  WordSize          \* UNITS_PER_WORD

Reg   == 1..MaxReg
Slots == 0..(NumPhysicalRegs - 1)
HardOf(c) == NextAvail[c]..(MaxNum[c] - 1)
Hard  == UNION {HardOf(c) : c \in Class}
Pos   == Nat                      \* instruction numbers
LiveRange == Pos \X Pos               \* a struct Range: <<_from, _to>>
Operand == (Nat \ {0}) \X Nat     \* <<uid, operand index>>, uids start at 1
IsOutput(o) == o[2] = 0
Garbage == 0                      \* what xmalloc left in a cell of active[c]

Lifetime == [begin : Pos, end : Pos, remat : BOOLEAN, cl : Class,
             ops : SUBSET Operand]

ASSUME ClassAssumption ==
  /\ NextAvail \in [Class -> Nat] /\ MaxNum \in [Class -> Nat]
  /\ NumPhysicalRegs \in Nat
  /\ \A c \in Class : MaxNum[c] - NextAvail[c] =< NumPhysicalRegs
  /\ \A c, d \in Class : c # d => HardOf(c) \cap HardOf(d) = {}
  /\ NoRegs \notin Class
ASSUME InputAssumption ==
  /\ NumInitial \in Nat /\ MaxReg \in Nat /\ NumInitial =< MaxReg
  /\ Lifetimes \subseteq Lifetime
  /\ FixedInputs \subseteq [Hard -> SUBSET LiveRange]
  /\ SpillBase \in Nat /\ WordSize \in Nat \ {0}

\* The one point where the register of a rewritten operand lives.
MutantPieceTooEarly(o) == o[1] - (IF IsOutput(o) THEN 1 ELSE 2)
PieceBegin(o) == IF IsOutput(o) THEN o[1] ELSE o[1] - 1

\* Operands of class c, and those whose registers live where the one of o does.
Operands(c) == UNION {l.ops : l \in {m \in Lifetimes : m.cl = c}}
Together(c, o) == {p \in Operands(c) : PieceBegin(p) = PieceBegin(o)}

\* No call or explicit operand ever needs these hard registers.  There are at least
\* three, and enough for what an instruction reads and the one before it writes.
Unneeded(c, f) == {h \in HardOf(c) : f[h] = {}}
ASSUME RoomAssumption ==
  \A c \in Class, f \in FixedInputs :
    /\ Cardinality(Unneeded(c, f)) >= 3
    /\ \A o \in Operands(c) : /\ IsFiniteSet(Together(c, o))
                             /\ Cardinality(Together(c, o)) =< Cardinality(Unneeded(c, f))

VARIABLES
  fixed,      \* [Hard -> set of ranges]: ind2reg[h].interval of a hard register
  count,      \* registers 1..count exist
  begin, end, \* lr_begin and lr_end
  infinite,   \* interval->weight = 0x7FFFFFFF
  remat,      \* the descriptor names a constant or a global's address
  rclass,     \* vreg->rclass, the class instruction selection asked for
  ops,        \* the operands of the code that name the register
  regClass,   \* reg_class
  hardNum,    \* hard_num
  slot,       \* spill_slot
  active,     \* active[c]: the array, entries beyond used_num included
  usedNum,    \* classes[c].used_num
  used,       \* classes[c].used
  spilled,    \* spilledRegs
  spillSize,  \* cfun->spill_size
  todo,       \* registers of this round the scan has not visited
  reg,        \* the register being visited
  pc,         \* where the allocator is
  srt         \* bubble_sort's class, i, j and change

life  == <<begin, end, infinite, remat, rclass, ops, count>>
place == <<regClass, hardNum, active, usedNum, used>>
vars  == <<fixed, life, place, slot, spilled, spillSize, todo, reg, pc, srt>>

Overlap(b1, e1, b2, e2) == b1 < e2 /\ b2 < e1

\* intersects(ind2reg[h].interval->_first, [begin, end)).
Blocked(h, r) == \E g \in fixed[h] : Overlap(g[1], g[2], begin[r], end[r])

Last(c) == active[c][usedNum[c] - 1]

\* cmp_end(r, s) > 0: r has to stand behind s.
EndsBefore(r, s) == end[r] < end[s] \/ (end[r] = end[s] /\ r < s)

\* cmp_begin(r, s) <= 0 for every s still to visit.
IsFirst(r) == \A s \in todo : begin[r] < begin[s] \/ (begin[r] = begin[s] /\ r =< s)

\* Instruction operands name one register each.
Distinct(l) == \A r, s \in DOMAIN l : r # s => l[r].ops \cap l[s].ops = {}

Init ==
  /\ fixed \in FixedInputs
  /\ \E l \in [1..NumInitial -> Lifetimes] :
       /\ Distinct(l) /\ Code(l)
       /\ begin  = [r \in Reg |-> IF r =< NumInitial THEN l[r].begin ELSE 0]
       /\ end    = [r \in Reg |-> IF r =< NumInitial THEN l[r].end ELSE 0]
       /\ remat  = [r \in Reg |-> r =< NumInitial /\ l[r].remat]
       /\ rclass = [r \in Reg |-> IF r =< NumInitial THEN l[r].cl ELSE NoRegs]
       /\ ops    = [r \in Reg |-> IF r =< NumInitial THEN l[r].ops ELSE {}]
  /\ infinite = [r \in Reg |-> FALSE]
  /\ count = NumInitial
  /\ regClass = [r \in Reg |-> NoRegs] /\ hardNum = [r \in Reg |-> -1]
  /\ slot = [r \in Reg |-> -1]
  /\ active = [c \in Class |-> [k \in Slots |-> Garbage]]
  /\ usedNum = [c \in Class |-> 0] /\ used = [c \in Class |-> {}]
  /\ spilled = <<>> /\ spillSize = 0
  /\ todo = {} /\ reg = Garbage /\ pc = "start"
  /\ srt = [c |-> NoRegs, i |-> 0, j |-> 0, change |-> FALSE]

-----------------------------------------------------------------------------
\* linearScan up to its loop: nothing is used, every register asks for its class.
StartRound ==
  /\ pc = "start"
  /\ used' = [c \in Class |-> {}] /\ usedNum' = [c \in Class |-> 0]
  /\ active' = [c \in Class |-> [k \in Slots |-> Garbage]]
  /\ regClass' = [r \in Reg |-> IF r =< count THEN rclass[r] ELSE NoRegs]
  /\ todo' = 1..count /\ reg' = Garbage /\ pc' = "next"
  /\ UNCHANGED <<fixed, life, hardNum, slot, spilled, spillSize, srt>>

NextReg ==
  /\ pc = "next"
  /\ \E r \in todo : IsFirst(r) /\ reg' = r /\ todo' = todo \ {r}
  /\ pc' = "expire"
  /\ UNCHANGED <<fixed, life, place, slot, spilled, spillSize, srt>>

\* expire_old_intervals looks at the last active register of a class only.
MutantExpireEarly(c) == usedNum[c] > 0 /\ end[Last(c)] =< begin[reg] + 1
Expirable(c) == usedNum[c] > 0 /\ end[Last(c)] =< begin[reg]

\* free_reg
MutantReleaseKeepsBit(a) ==
  usedNum' = [usedNum EXCEPT ![regClass[a]] = @ - 1] /\ UNCHANGED used
Release(a) ==
  /\ usedNum' = [usedNum EXCEPT ![regClass[a]] = @ - 1]
  /\ used' = [used EXCEPT ![regClass[a]] = @ \ {hardNum[a]}]

ExpireOld ==
  /\ pc = "expire"
  /\ \E c \in Class : Expirable(c) /\ Release(Last(c))
  /\ UNCHANGED <<fixed, life, regClass, hardNum, active, slot, spilled,
                 spillSize, todo, reg, pc, srt>>

Expired == \A c \in Class : ~ Expirable(c)

\* The registers try_alloc_reg may choose from; it takes the lowest.
MutantFreeIgnoresCalls(c) == HardOf(c) \ used[c]
Free(c) == {h \in HardOf(c) : h \notin used[c] /\ ~ Blocked(h, reg)}
CanAlloc(c) == usedNum[c] < MaxNum[c] - NextAvail[c] /\ Free(c) # {}

\* Entry of bubble_sort(active[c], n): its outer loop runs while i > 1.
EnterSort(c, n) ==
  /\ srt' = [c |-> c, i |-> n - 1, j |-> 0, change |-> FALSE]
  /\ pc' = IF n - 1 > 1 THEN "sort" ELSE "next"

Allocate ==
  /\ pc = "expire" /\ Expired
  /\ LET c == regClass[reg] IN
     /\ CanAlloc(c)
     /\ \E h \in Free(c) :
          /\ \A g \in Free(c) : h =< g
          /\ used' = [used EXCEPT ![c] = @ \cup {h}]
          /\ hardNum' = [hardNum EXCEPT ![reg] = h]
     /\ active' = [active EXCEPT ![c][usedNum[c]] = reg]
     /\ usedNum' = [usedNum EXCEPT ![c] = @ + 1]
     /\ EnterSort(c, usedNum[c] + 1)
  /\ UNCHANGED <<fixed, life, regClass, slot, spilled, spillSize, todo, reg>>

-----------------------------------------------------------------------------
\* spill_at_interval.  Its first two loops stop at the first active register
\* that does not outlive reg; the third one looks at all of them.
Outliving(c) == {k \in 0..(usedNum[c] - 1) :
                   \A m \in 0..k : end[active[c][m]] > end[reg]}
Finite(c, K) == {k \in K : ~ infinite[active[c][k]]}
MutantNoThirdLoop(c) == Finite(c, Outliving(c))
Victims(c) ==
  LET cheap == {k \in Finite(c, Outliving(c)) : remat[active[c][k]]} IN
  IF cheap # {} THEN cheap
  ELSE IF Finite(c, Outliving(c)) # {} THEN Finite(c, Outliving(c))
  ELSE IF infinite[reg] THEN Finite(c, 0..(usedNum[c] - 1)) ELSE {}

\* assign_spill_slot
MutantSlotNotAdvanced(r) ==
  /\ slot' = [slot EXCEPT ![r] = SpillBase + spillSize]
  /\ spilled' = Append(spilled, r) /\ UNCHANGED spillSize
AssignSlot(r) ==
  /\ slot' = [slot EXCEPT ![r] = SpillBase + spillSize]
  /\ spillSize' = spillSize + WordSize
  /\ spilled' = Append(spilled, r)

\* reg takes the hard register of the first victim, which is spilled.
Evict ==
  /\ pc = "expire" /\ Expired
  /\ LET c == regClass[reg] IN
     /\ ~ CanAlloc(c)
     /\ \E k \in Victims(c) :
          /\ \A m \in Victims(c) : k =< m
          /\ LET cand == active[c][k] IN
             /\ regClass' = [regClass EXCEPT ![reg] = regClass[cand], ![cand] = NoRegs]
             /\ hardNum' = [hardNum EXCEPT ![reg] = hardNum[cand]]
             /\ active' = [active EXCEPT ![c][k] = reg]
             /\ AssignSlot(cand)
     /\ EnterSort(c, usedNum[c])
  /\ UNCHANGED <<fixed, life, usedNum, used, todo, reg>>

\* Nobody to evict: reg itself is spilled.  If reg is unspillable too, cand is
\* the cell behind the last active one, never assigned or out of date.
SpillSelf ==
  /\ pc = "expire" /\ Expired
  /\ ~ CanAlloc(regClass[reg]) /\ Victims(regClass[reg]) = {}
  /\ IF infinite[reg]
     THEN pc' = "undefined" /\ UNCHANGED <<regClass, slot, spilled, spillSize>>
     ELSE /\ regClass' = [regClass EXCEPT ![reg] = NoRegs]
          /\ AssignSlot(reg)
          /\ pc' = "next"
  /\ UNCHANGED <<fixed, life, hardNum, active, usedNum, used, todo, reg, srt>>

-----------------------------------------------------------------------------
\* One comparison of bubble_sort's inner loop.
SortStep ==
  /\ pc = "sort" /\ srt.j < srt.i
  /\ LET a == active[srt.c]
         swap == EndsBefore(a[srt.j], a[srt.j + 1])
     IN /\ active' = IF swap
                     THEN [active EXCEPT ![srt.c] =
                            [a EXCEPT ![srt.j] = a[srt.j + 1], ![srt.j + 1] = a[srt.j]]]
                     ELSE active
        /\ srt' = [srt EXCEPT !.j = @ + 1, !.change = @ \/ swap]
  /\ UNCHANGED <<fixed, life, regClass, hardNum, usedNum, used, slot, spilled,
                 spillSize, todo, reg, pc>>

\* The end of a pass: --i, then the test i > 1 && change.
SortPass ==
  /\ pc = "sort" /\ srt.j = srt.i
  /\ IF srt.i - 1 > 1 /\ srt.change
     THEN srt' = [srt EXCEPT !.i = @ - 1, !.j = 0, !.change = FALSE] /\ pc' = pc
     ELSE pc' = "next" /\ srt' = srt
  /\ UNCHANGED <<fixed, life, place, slot, spilled, spillSize, todo, reg>>

-----------------------------------------------------------------------------
\* The loop over spilledRegs; addIntervalsForSpills ends the compilation
\* ("attempt to spill already spilled interval!") on an unspillable register.
RewriteFirst(list) ==
  IF list = <<>> THEN "start"
  ELSE IF infinite[Head(list)] THEN "fatal" ELSE "rewrite"

FinishScan ==
  /\ pc = "next" /\ todo = {}
  /\ pc' = IF spilled = <<>> THEN "done" ELSE RewriteFirst(spilled)
  /\ UNCHANGED <<fixed, life, place, slot, spilled, spillSize, todo, reg, srt>>

\* use_pos was filled by the backward walk over the code.
RewrittenNext(o, O) == \A p \in O : p[1] < o[1] \/ (p[1] = o[1] /\ o[2] =< p[2])

\* addIntervalsForSpills: one operand of the spilled register gets a register
\* of its own that lives just before (an input) or after (an output) uid.
RewriteOperand ==
  /\ pc = "rewrite" /\ spilled # <<>> /\ count < MaxReg
  /\ LET v == Head(spilled)
         n == count + 1 IN
     \E o \in ops[v] :
       /\ RewrittenNext(o, ops[v])
       /\ begin' = [begin EXCEPT ![n] = PieceBegin(o)]
       /\ end' = [end EXCEPT ![n] = PieceBegin(o) + 1]
       /\ infinite' = [infinite EXCEPT ![n] = TRUE]
       /\ remat' = [remat EXCEPT ![n] = remat[v]]
       /\ rclass' = [rclass EXCEPT ![n] = rclass[v]]
       /\ slot' = [slot EXCEPT ![n] = slot[v]]
       /\ ops' = [ops EXCEPT ![v] = @ \ {o}, ![n] = {o}]
  /\ count' = count + 1
  /\ UNCHANGED <<fixed, place, spilled, spillSize, todo, reg, pc, srt>>

\* The end of addIntervalsForSpills: the spilled register's own range is void.
RewriteDone ==
  /\ pc = "rewrite" /\ spilled # <<>> /\ ops[Head(spilled)] = {}
  /\ begin' = [begin EXCEPT ![Head(spilled)] = 0]
  /\ end' = [end EXCEPT ![Head(spilled)] = 0]
  /\ spilled' = Tail(spilled)
  /\ pc' = RewriteFirst(Tail(spilled))
  /\ UNCHANGED <<fixed, infinite, remat, rclass, ops, count, place, slot,
                 spillSize, todo, reg, srt>>

Next == \/ StartRound \/ NextReg \/ ExpireOld \/ Allocate \/ Evict \/ SpillSelf
        \/ SortStep \/ SortPass \/ FinishScan \/ RewriteOperand \/ RewriteDone

\* The allocator is one sequential computation: it goes on while it can.
Spec == Init /\ [][Next]_vars /\ WF_vars(Next)

-----------------------------------------------------------------------------
\* Registers this round has given a hard register and not taken it back.
Placed == {r \in 1..count : /\ r \notin todo
                            /\ pc \in {"expire", "undefined"} => r # reg
                            /\ regClass[r] # NoRegs}

TypeOK ==
  /\ fixed \in [Hard -> SUBSET LiveRange]
  /\ count \in 0..MaxReg
  /\ begin \in [Reg -> Pos] /\ end \in [Reg -> Pos]
  /\ infinite \in [Reg -> BOOLEAN] /\ remat \in [Reg -> BOOLEAN]
  /\ rclass \in [Reg -> Class \cup {NoRegs}]
  /\ ops \in [Reg -> SUBSET Operand]
  /\ regClass \in [Reg -> Class \cup {NoRegs}]
  /\ hardNum \in [Reg -> Hard \cup {-1}] /\ slot \in [Reg -> Int]
  /\ active \in [Class -> [Slots -> Reg \cup {Garbage}]]
  /\ usedNum \in [Class -> 0..NumPhysicalRegs] /\ used \in [Class -> SUBSET Hard]
  /\ spilled \in Seq(Reg) /\ spillSize \in Nat
  /\ todo \subseteq 1..count /\ reg \in Reg \cup {Garbage}
  /\ pc \in {"start", "next", "expire", "sort", "rewrite", "done",
              "fatal", "undefined"}
  /\ srt \in [c : Class \cup {NoRegs}, i : Int, j : Nat, change : BOOLEAN]

\* No two registers that are live at the same point share a hard register: an
\* eviction, an early expiry or a stale entry of `active' must never hand a
\* register out twice (try_alloc_reg, expire_old_intervals, spill_at_interval).
NoOverlap ==
  \A r, s \in Placed :
    r # s /\ hardNum[r] = hardNum[s] => ~ Overlap(begin[r], end[r], begin[s], end[s])

\* A register never lives in a hard register that a call or an explicit operand
\* needs meanwhile, although spill_at_interval hands over the victim's hard
\* register without looking at its interval.
FixedRespected == \A r \in Placed : ~ Blocked(hardNum[r], r)

\* used_num, the bitmap `used' and the first used_num entries of `active' always
\* describe the same set of occupied hard registers.
Accounting ==
  pc \in {"next", "expire", "sort"} =>
    \A c \in Class :
      /\ used[c] = {hardNum[active[c][k]] : k \in 0..(usedNum[c] - 1)}
      /\ Cardinality(used[c]) = usedNum[c]

\* At the end every operand of the code names a register that has a hard
\* register of its class, and registers share a stack slot only if they are
\* the pieces of one spilled register.
Completed ==
  pc = "done" =>
    /\ \A r \in 1..count : regClass[r] = rclass[r] /\ hardNum[r] \in HardOf(rclass[r])
    /\ \A r, s \in 1..NumInitial : r # s /\ slot[r] # -1 => slot[r] # slot[s]
    /\ \A r \in 1..NumInitial : slot[r] # -1 => ops[r] = {}

\* The compiler never stops with the "already spilled interval" error and never
\* reads the cell behind the active registers as a spill candidate, on code
\* whose instructions name fewer registers than are free everywhere.
NeverStuck == pc \notin {"fatal", "undefined"}

\* The rounds of `while (linearScan (...))' come to an end.
Terminates == <>(pc \in {"done"})

\* What the comments of expire_old_intervals and bubble_sort say: when a
\* register is placed no register that ended before it is still active.
OldExpired ==
  pc = "sort" \/ (pc = "expire" /\ Expired) =>
    \A c \in Class : \A k \in 0..(usedNum[c] - 1) :
      active[c][k] = reg \/ end[active[c][k]] > begin[reg]
=============================================================================
