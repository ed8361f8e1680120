-------------------------- MODULE LinearScan_proofs --------------------------
(***************************************************************************)
(* For every number of classes, hard registers, virtual registers and every *)
(* code: the scan and its spill rounds never put two registers that are     *)
(* live at the same point in one hard register (NoOverlap).                 *)
(***************************************************************************)
EXTENDS LinearScan, TLAPS

Scanning == pc \in {"next", "expire", "sort"}
Waiting(r) == r \in todo \/ (pc = "expire" /\ r = reg)
Cells(c) == 0..(usedNum[c] - 1)
IsActive(r) == \E k \in Cells(regClass[r]) : active[regClass[r]][k] = r

\* Every existing register has a class to ask for, the others have none, and
\* whoever still waits for its turn holds the class it asks for.
ClassesOK ==
  /\ \A r \in 1..count : rclass[r] \in Class
  /\ \A r \in Reg : r > count => regClass[r] = NoRegs
  /\ Scanning => \A r \in 1..count : Waiting(r) => regClass[r] \in Class
  /\ pc = "expire" => reg \in 1..count /\ reg \notin todo

\* The active cells hold placed registers with different hard registers, all of
\* them marked in `used'.
ActiveOK ==
  Scanning =>
    \A c \in Class : \A k \in Cells(c) :
      /\ active[c][k] \in Placed
      /\ regClass[active[c][k]] = c
      /\ hardNum[active[c][k]] \in used[c]
      /\ \A l \in Cells(c) : k # l => hardNum[active[c][k]] # hardNum[active[c][l]]

\* A placed register that is no longer active ended before the scan's position,
\* and nobody who still waits starts before that position.
PositionOK ==
  Scanning =>
    /\ \A r \in Placed : IsActive(r) \/ (reg # Garbage /\ end[r] =< begin[reg])
    /\ reg # Garbage => reg \in Reg /\ \A s \in todo : begin[reg] =< begin[s]

HardOK == \A r \in Placed : hardNum[r] \in HardOf(regClass[r])

SpilledOK ==
  /\ \A i \in 1..Len(spilled) : spilled[i] \in 1..count /\ regClass[spilled[i]] = NoRegs
  /\ pc = "start" => spilled = <<>>

SortOK ==
  pc = "sort" => /\ srt.c \in Class
                 /\ srt.i \in Cells(srt.c)
                 /\ srt.j \in 0..srt.i

Inv == /\ TypeOK /\ ClassesOK /\ ActiveOK /\ PositionOK
       /\ HardOK /\ SpilledOK /\ SortOK /\ NoOverlap

-----------------------------------------------------------------------------
\* Existing registers are registers.
LEMMA Existing == ASSUME TypeOK PROVE /\ count \in Nat
                                      /\ 1..count \subseteq Reg
                                      /\ todo \subseteq Reg
                                      /\ Garbage \notin Reg
BY InputAssumption DEF TypeOK, Reg, Garbage

-----------------------------------------------------------------------------
\* The initial states satisfy the invariant: no register is placed.
LEMMA InitInv == Init => Inv
<1> SUFFICES ASSUME Init PROVE Inv
  OBVIOUS
<1>1. PICK l \in [1..NumInitial -> Lifetimes] :
        /\ begin  = [r \in Reg |-> IF r =< NumInitial THEN l[r].begin ELSE 0]
        /\ end    = [r \in Reg |-> IF r =< NumInitial THEN l[r].end ELSE 0]
        /\ remat  = [r \in Reg |-> r =< NumInitial /\ l[r].remat]
        /\ rclass = [r \in Reg |-> IF r =< NumInitial THEN l[r].cl ELSE NoRegs]
        /\ ops    = [r \in Reg |-> IF r =< NumInitial THEN l[r].ops ELSE {}]
  BY DEF Init
<1>2. \A r \in Reg : r =< NumInitial =>
        /\ l[r].begin \in Pos /\ l[r].end \in Pos
        /\ l[r].cl \in Class /\ l[r].ops \in SUBSET Operand
  <2>1. \A r \in Reg : r =< NumInitial => l[r] \in Lifetime
    BY InputAssumption DEF Reg
  <2> QED
    BY <2>1 DEF Lifetime
<1>3. TypeOK
  <2>1. /\ begin \in [Reg -> Pos] /\ end \in [Reg -> Pos]
        /\ rclass \in [Reg -> Class \cup {NoRegs}] /\ ops \in [Reg -> SUBSET Operand]
    BY <1>1, <1>2 DEF Pos
  <2>2. /\ infinite \in [Reg -> BOOLEAN] /\ remat \in [Reg -> BOOLEAN]
        /\ regClass \in [Reg -> Class \cup {NoRegs}]
        /\ hardNum \in [Reg -> Hard \cup {-1}] /\ slot \in [Reg -> Int]
    BY <1>1 DEF Init
  <2>3. /\ count \in 0..MaxReg /\ spilled \in Seq(Reg) /\ spillSize \in Nat
        /\ todo \subseteq 1..count /\ reg \in Reg \cup {Garbage}
        /\ pc \in {"start", "next", "expire", "sort", "rewrite", "done",
                   "fatal", "undefined"}
        /\ srt \in [c : Class \cup {NoRegs}, i : Int, j : Nat, change : BOOLEAN]
    BY InputAssumption DEF Init
  <2>4. /\ active \in [Class -> [Slots -> Reg \cup {Garbage}]]
        /\ usedNum \in [Class -> 0..NumPhysicalRegs]
        /\ used \in [Class -> SUBSET Hard]
        /\ fixed \in [Hard -> SUBSET LiveRange]
    BY ClassAssumption, InputAssumption DEF Init
  <2> QED
    BY <2>1, <2>2, <2>3, <2>4 DEF TypeOK
<1>4. Placed = {}
  BY InputAssumption DEF Init, Placed, Reg
<1>5. ClassesOK
  <2>1. \A r \in 1..count : r \in Reg /\ r =< NumInitial
    BY InputAssumption DEF Init, Reg
  <2>2. \A r \in 1..count : rclass[r] \in Class
    BY <1>1, <1>2, <2>1
  <2> QED
    BY <2>2 DEF Init, ClassesOK, Scanning
<1>6. ActiveOK /\ PositionOK /\ SpilledOK /\ SortOK
  BY DEF Init, ActiveOK, PositionOK, SpilledOK, SortOK, Scanning
<1> QED
  BY <1>3, <1>4, <1>5, <1>6 DEF Inv, HardOK, NoOverlap

\* A new round forgets every placement.
LEMMA StartRoundInv == ASSUME Inv, StartRound PROVE Inv'
<1> USE DEF Inv, StartRound, life
<1>1. TypeOK'
  BY Existing, ClassAssumption DEF TypeOK
<1>2. Placed' = {}
  BY DEF Placed
<1>3. ClassesOK'
  <2>1. \A r \in 1..count : rclass[r] \in Class /\ regClass'[r] = rclass[r]
    BY Existing DEF ClassesOK
  <2>2. \A r \in Reg : r > count => regClass'[r] = NoRegs
    BY Existing DEF Reg
  <2> QED
    BY <2>1, <2>2 DEF ClassesOK
<1>4. ActiveOK' /\ PositionOK' /\ SpilledOK' /\ SortOK'
  BY <1>2 DEF ActiveOK, PositionOK, SpilledOK, SortOK, Cells
<1> QED
  BY <1>1, <1>2, <1>3, <1>4 DEF HardOK, NoOverlap

\* Taking the first waiting register moves the position forward only.
LEMMA NextRegInv == ASSUME Inv, NextReg PROVE Inv'
<1> USE DEF Inv, life, place
<1>1. PICK r \in todo : IsFirst(r) /\ reg' = r /\ todo' = todo \ {r}
  BY DEF NextReg
<1>2. /\ pc = "next" /\ pc' = "expire"
      /\ UNCHANGED <<fixed, life, place, slot, spilled, spillSize, srt>>
  BY DEF NextReg
<1>3. r \in 1..count /\ r \in Reg
  BY <1>1, Existing DEF TypeOK
<1>a. TypeOK'
  BY <1>1, <1>2, <1>3 DEF TypeOK
<1>4. Placed' = Placed
  BY <1>1, <1>2 DEF Placed
<1>5. ClassesOK'
  BY <1>1, <1>2, <1>3 DEF ClassesOK, Waiting, Scanning
<1>6. ActiveOK'
  BY <1>2, <1>4 DEF ActiveOK, Scanning, Cells
<1>7. \A s \in todo : begin[r] =< begin[s]
  <2>1. \A s \in todo : begin[s] \in Int
    BY Existing DEF TypeOK, Pos
  <2>2. begin[r] \in Int /\ IsFirst(r)
    BY <1>1, <2>1
  <2> QED
    BY ONLY <2>1, <2>2 DEF IsFirst
<1>8. PositionOK'
  <2>1. r \in Reg /\ r # Garbage
    BY <1>3, Existing
  <2>2. ASSUME NEW s \in Placed PROVE IsActive(s)' \/ end[s] =< begin[r]
    <3>1. CASE IsActive(s)
      BY <3>1, <1>2 DEF IsActive, Cells
    <3>2. CASE reg # Garbage /\ end[s] =< begin[reg]
      <4>1. s \in Reg /\ reg \in Reg /\ begin[reg] =< begin[r]
        BY <3>2, <1>1, <1>2, Existing DEF PositionOK, Scanning, Placed
      <4> QED
        BY <3>2, <4>1, <2>1 DEF TypeOK, Pos
    <3> QED
      BY <3>1, <3>2, <1>2 DEF PositionOK, Scanning
  <2> QED
    BY <2>1, <2>2, <1>1, <1>2, <1>4, <1>7 DEF PositionOK, IsActive, Cells
<1>9. HardOK' /\ SpilledOK' /\ SortOK' /\ NoOverlap'
  BY <1>2, <1>4 DEF HardOK, SpilledOK, SortOK, NoOverlap
<1> QED
  BY <1>a, <1>5, <1>6, <1>8, <1>9

\* Expiring releases the last active register of a class, whose cell leaves the
\* active part; it ended before the register being placed begins.
LEMMA ExpireOldInv == ASSUME Inv, ExpireOld PROVE Inv'
<1> USE DEF Inv, life
<1>1. PICK c \in Class : Expirable(c) /\ Release(Last(c))
  BY DEF ExpireOld
<1>2. /\ pc = "expire"
      /\ UNCHANGED <<fixed, life, regClass, hardNum, active, slot, spilled,
                     spillSize, todo, reg, pc, srt>>
  BY DEF ExpireOld
<1> DEFINE a == Last(c)
           n == usedNum[c] - 1
<1>3. usedNum[c] \in 0..NumPhysicalRegs /\ usedNum[c] > 0 /\ n \in Cells(c)
  BY <1>1, ClassAssumption DEF Expirable, TypeOK, Cells
<1>4. a = active[c][n] /\ a \in Placed /\ regClass[a] = c /\ a \in Reg
  BY <1>2, <1>3, Existing DEF Last, ActiveOK, Scanning, Placed
<1>5. /\ usedNum' = [usedNum EXCEPT ![c] = n]
      /\ used' = [used EXCEPT ![c] = @ \ {hardNum[a]}]
  BY <1>1, <1>4 DEF Release
<1>6. TypeOK'
  <2>1. n \in 0..NumPhysicalRegs
    BY <1>3, ClassAssumption
  <2>2. usedNum' \in [Class -> 0..NumPhysicalRegs]
    BY <1>5, <2>1 DEF TypeOK
  <2>3. used' \in [Class -> SUBSET Hard]
    BY <1>5 DEF TypeOK
  <2> QED
    BY <1>2, <2>2, <2>3 DEF TypeOK
<1>7. Placed' = Placed
  BY <1>2 DEF Placed
<1>8. \A d \in Class : Cells(d)' = IF d = c THEN Cells(c) \ {n} ELSE Cells(d)
  <2>1. usedNum'[c] = n /\ \A d \in Class : d # c => usedNum'[d] = usedNum[d]
    BY <1>5 DEF TypeOK
  <2>2. 0..(n - 1) = (0..n) \ {n} /\ usedNum[c] - 1 = n
    BY <1>3, ClassAssumption
  <2> HIDE DEF n
  <2> QED
    BY <2>1, <2>2 DEF Cells
<1>9. ActiveOK'
  <2> SUFFICES ASSUME NEW d \in Class, NEW k \in Cells(d)'
               PROVE /\ active[d][k] \in Placed
                     /\ regClass[active[d][k]] = d
                     /\ hardNum[active[d][k]] \in used'[d]
                     /\ \A l \in Cells(d)' : k # l =>
                          hardNum[active[d][k]] # hardNum[active[d][l]]
    BY <1>2, <1>7 DEF ActiveOK
  <2>1. k \in Cells(d) /\ Cells(d)' \subseteq Cells(d) /\ (d = c => k # n)
    BY <1>8
  <2>2. d = c => hardNum[active[d][k]] # hardNum[a]
    BY <1>2, <1>3, <1>4, <2>1 DEF ActiveOK, Scanning
  <2> QED
    BY <1>2, <1>5, <2>1, <2>2 DEF ActiveOK, Scanning, TypeOK
<1>10. PositionOK'
  <2>1. reg # Garbage /\ end[a] =< begin[reg]
    BY <1>1, <1>2, Existing DEF Expirable, ClassesOK
  <2>2. ASSUME NEW r \in Placed PROVE IsActive(r)' \/ (reg # Garbage /\ end[r] =< begin[reg])
    <3>1. CASE IsActive(r)
      <4>1. PICK k \in Cells(regClass[r]) : active[regClass[r]][k] = r
        BY <3>1 DEF IsActive
      <4>2. regClass[r] \in Class
        BY Existing DEF Placed, TypeOK
      <4>3. CASE regClass[r] = c /\ k = n
        BY <4>1, <4>3, <1>4, <2>1
      <4>4. CASE ~ (regClass[r] = c /\ k = n)
        <5>1. k \in Cells(regClass[r])'
          BY <4>1, <4>2, <4>4, <1>2, <1>8
        <5> QED
          BY <4>1, <5>1, <1>2 DEF IsActive
      <4> QED
        BY <4>3, <4>4
    <3> QED
      BY <3>1, <1>2 DEF PositionOK, Scanning
  <2> QED
    BY <2>2, <1>2, <1>7 DEF PositionOK, Scanning
<1>11. ClassesOK' /\ HardOK' /\ SpilledOK' /\ SortOK' /\ NoOverlap'
  BY <1>2, <1>7 DEF ClassesOK, HardOK, SpilledOK, SortOK, NoOverlap, Waiting, Scanning
<1> QED
  BY <1>6, <1>9, <1>10, <1>11

\* Placing reg in hard register h of class c clashes with no placed register
\* other than the one that is active in h.
LEMMA PlaceDisjoint ==
  ASSUME Inv, pc = "expire", NEW c \in Class, NEW h \in HardOf(c), NEW r \in Placed,
         hardNum[r] = h, \A k \in Cells(c) : active[c][k] = r => hardNum[r] # h
  PROVE  end[r] =< begin[reg] /\ begin[reg] \in Nat
<1> USE DEF Inv
<1>1. r \in Reg /\ reg \in Reg /\ regClass[r] \in Class
  BY Existing DEF Placed, TypeOK, ClassesOK
<1>2. regClass[r] = c
  <2>1. h \in HardOf(regClass[r])
    BY DEF HardOK
  <2> QED
    BY <2>1, <1>1, ClassAssumption
<1>3. ~ IsActive(r)
  BY <1>2 DEF IsActive
<1> QED
  BY <1>1, <1>3 DEF PositionOK, Scanning, TypeOK, Pos

\* An unused hard register is not the one of an active register.
LEMMA AllocateInv == ASSUME Inv, Allocate PROVE Inv'
<1> USE DEF Inv, life
<1>0. reg \in 1..count /\ reg \in Reg /\ reg \notin todo /\ regClass[reg] \in Class
  BY Existing DEF Allocate, ClassesOK, Scanning, Waiting
<1>c. PICK c \in Class : c = regClass[reg]
  BY <1>0
<1>n. PICK n : n = usedNum[c]
  OBVIOUS
<1>1. PICK h \in Free(c) : /\ used' = [used EXCEPT ![c] = @ \cup {h}]
                           /\ hardNum' = [hardNum EXCEPT ![reg] = h]
  BY <1>c DEF Allocate
<1>2. /\ pc = "expire" /\ n < MaxNum[c] - NextAvail[c]
      /\ active' = [active EXCEPT ![c][n] = reg]
      /\ usedNum' = [usedNum EXCEPT ![c] = n + 1]
      /\ EnterSort(c, n + 1)
      /\ UNCHANGED <<fixed, life, regClass, slot, spilled, spillSize, todo, reg>>
  BY <1>c, <1>n DEF Allocate, CanAlloc
<1>3. reg \in 1..count /\ reg \in Reg /\ reg \notin todo /\ c \in Class
  BY <1>0
<1>4. /\ n \in 0..(NumPhysicalRegs - 1) /\ n + 1 \in 0..NumPhysicalRegs
      /\ n \in Nat /\ n \in Slots
  <2>1. /\ n \in 0..NumPhysicalRegs /\ NumPhysicalRegs \in Nat
        /\ MaxNum[c] \in Nat /\ NextAvail[c] \in Nat
        /\ MaxNum[c] - NextAvail[c] =< NumPhysicalRegs
    BY <1>3, <1>n, ClassAssumption DEF TypeOK
  <2> QED
    BY <2>1, <1>2 DEF Slots
<1>5. h \in HardOf(c) /\ h \notin used[c] /\ h \in Hard
  BY <1>1, <1>3 DEF Free, Hard
<1>6. pc' \in {"sort", "next"} /\ srt' = [c |-> c, i |-> n, j |-> 0, change |-> FALSE]
      /\ (pc' = "sort" => n > 1)
  <2>1. (n + 1) - 1 = n
    BY <1>4
  <2> QED
    BY <1>2, <2>1 DEF EnterSort
<1>7. /\ \A d \in Class : \A k \in Cells(d) : active'[d][k] = active[d][k]
      /\ active'[c][n] = reg
  BY <1>2, <1>3, <1>4, <1>n, ClassAssumption DEF Cells, TypeOK
<1>8. \A d \in Class : Cells(d)' = IF d = c THEN Cells(c) \cup {n} ELSE Cells(d)
  <2>1. usedNum'[c] = n + 1 /\ \A d \in Class : d # c => usedNum'[d] = usedNum[d]
    BY <1>2, <1>3 DEF TypeOK
  <2>2. 0..((n + 1) - 1) = (0..(n - 1)) \cup {n}
    BY <1>4
  <2> QED
    BY <2>1, <2>2, <1>n DEF Cells
<1>9. c = regClass[reg]
  BY <1>c
<1>10. TypeOK'
  <2>1. usedNum' \in [Class -> 0..NumPhysicalRegs] /\ used' \in [Class -> SUBSET Hard]
    BY <1>1, <1>2, <1>4, <1>5 DEF TypeOK
  <2>2. hardNum' \in [Reg -> Hard \cup {-1}]
    BY <1>1, <1>5 DEF TypeOK
  <2>3. active' \in [Class -> [Slots -> Reg \cup {Garbage}]]
    BY <1>2, <1>3, <1>4 DEF TypeOK
  <2>4. srt' \in [c : Class \cup {NoRegs}, i : Int, j : Nat, change : BOOLEAN]
    BY <1>3, <1>4, <1>6
  <2> QED
    BY <1>2, <1>6, <2>1, <2>2, <2>3, <2>4 DEF TypeOK
<1>11. Placed' = Placed \cup {reg}
  BY <1>2, <1>3, <1>6, <1>9, ClassAssumption DEF Placed
<1>12. /\ reg \notin Placed /\ hardNum'[reg] = h
       /\ \A r \in Placed : r # reg /\ hardNum'[r] = hardNum[r]
  BY <1>1, <1>2, <1>3, Existing DEF Placed, TypeOK
<1>13. \A k \in Cells(c) : hardNum[active[c][k]] # h
  BY <1>2, <1>3, <1>5 DEF ActiveOK, Scanning
<1>14. ClassesOK'
  BY <1>2, <1>3, <1>6 DEF ClassesOK, Scanning, Waiting
<1>15. ActiveOK'
  <2> SUFFICES ASSUME NEW d \in Class, NEW k \in Cells(d)'
               PROVE /\ active'[d][k] \in Placed'
                     /\ regClass[active'[d][k]] = d
                     /\ hardNum'[active'[d][k]] \in used'[d]
                     /\ \A l \in Cells(d)' : k # l =>
                          hardNum'[active'[d][k]] # hardNum'[active'[d][l]]
    BY <1>2 DEF ActiveOK
  <2>1. \A l \in Cells(d) : /\ active'[d][l] = active[d][l] /\ active[d][l] \in Placed
                            /\ regClass[active[d][l]] = d
                            /\ hardNum'[active[d][l]] = hardNum[active[d][l]]
                            /\ hardNum[active[d][l]] \in used[d]
    BY <1>2, <1>7, <1>12 DEF ActiveOK, Scanning
  <2>2. used[d] \subseteq used'[d] /\ (d = c => h \in used'[d])
    BY <1>1, <1>3 DEF TypeOK
  <2>3. CASE d = c /\ k = n
    BY <2>1, <2>2, <2>3, <1>7, <1>8, <1>9, <1>11, <1>12, <1>13
  <2>4. CASE ~ (d = c /\ k = n)
    <3>1. k \in Cells(d)
      BY <2>4, <1>8
    <3>2. \A l \in Cells(d) : k # l => hardNum[active[d][k]] # hardNum[active[d][l]]
      BY <3>1, <1>2 DEF ActiveOK, Scanning
    <3> QED
      BY <3>1, <3>2, <2>1, <2>2, <1>7, <1>8, <1>11, <1>12, <1>13
  <2> QED
    BY <2>3, <2>4
<1>16. PositionOK'
  <2>1. ASSUME NEW r \in Placed' PROVE IsActive(r)' \/ (reg # Garbage /\ end[r] =< begin[reg])
    <3>1. CASE r = reg
      BY <3>1, <1>2, <1>3, <1>7, <1>8, <1>9 DEF IsActive
    <3>2. CASE r \in Placed /\ IsActive(r)
      <4>1. PICK k \in Cells(regClass[r]) : active[regClass[r]][k] = r
        BY <3>2 DEF IsActive
      <4>2. regClass[r] \in Class
        BY <3>2, Existing DEF Placed, TypeOK
      <4> QED
        BY <4>1, <4>2, <1>2, <1>7, <1>8 DEF IsActive
    <3>3. CASE r \in Placed /\ ~ IsActive(r)
      BY <3>3, <1>2 DEF PositionOK, Scanning
    <3> QED
      BY <3>1, <3>2, <3>3, <1>11
  <2> QED
    BY <2>1, <1>2 DEF PositionOK, Scanning
<1>17. HardOK'
  BY <1>2, <1>5, <1>9, <1>11, <1>12 DEF HardOK
<1>18. SpilledOK' /\ SortOK'
  <2>1. pc' = "sort" => n \in Cells(c)' /\ 0 \in 0..n
    BY <1>3, <1>4, <1>8
  <2> QED
    BY <2>1, <1>2, <1>3, <1>6 DEF SpilledOK, SortOK
<1>19. NoOverlap'
  <2>1. ASSUME NEW r \in Placed, hardNum[r] = h
        PROVE  end[r] =< begin[reg]
    BY <2>1, <1>2, <1>3, <1>5, <1>13, PlaceDisjoint
  <2>2. \A r \in Placed : hardNum[r] = h =>
           ~ Overlap(begin[r], end[r], begin[reg], end[reg])
           /\ ~ Overlap(begin[reg], end[reg], begin[r], end[r])
    <3>1. \A r \in Placed \cup {reg} : begin[r] \in Nat /\ end[r] \in Nat
      BY <1>3, Existing DEF Placed, TypeOK, Pos
    <3> QED
      BY <2>1, <3>1 DEF Overlap
  <2> QED
    BY <2>2, <1>2, <1>11, <1>12 DEF NoOverlap
<1> QED
  BY <1>10, <1>14, <1>15, <1>16, <1>17, <1>18, <1>19

\* Every victim is an active cell.
LEMMA VictimsActive == ASSUME NEW c \in Class PROVE Victims(c) \subseteq Cells(c)
BY DEF Victims, Finite, Outliving, Cells

\* An eviction replaces the victim by reg in its cell and its hard register.
LEMMA EvictInv == ASSUME Inv, Evict PROVE Inv'
<1> USE DEF Inv, life
<1>0. reg \in 1..count /\ reg \in Reg /\ reg \notin todo /\ regClass[reg] \in Class
  BY Existing DEF Evict, ClassesOK, Scanning, Waiting
<1>c. PICK c \in Class : c = regClass[reg]
  BY <1>0
<1>k. PICK k \in Victims(c) :
        LET cand == active[c][k] IN
        /\ regClass' = [regClass EXCEPT ![reg] = regClass[cand], ![cand] = NoRegs]
        /\ hardNum' = [hardNum EXCEPT ![reg] = hardNum[cand]]
        /\ active' = [active EXCEPT ![c][k] = reg]
        /\ AssignSlot(cand)
  BY <1>c DEF Evict
<1>v. PICK v : v = active[c][k]
  OBVIOUS
<1>1. /\ regClass' = [regClass EXCEPT ![reg] = regClass[v], ![v] = NoRegs]
      /\ hardNum' = [hardNum EXCEPT ![reg] = hardNum[v]]
      /\ active' = [active EXCEPT ![c][k] = reg]
      /\ slot' = [slot EXCEPT ![v] = SpillBase + spillSize]
      /\ spillSize' = spillSize + WordSize
      /\ spilled' = Append(spilled, v)
  BY <1>k, <1>v DEF AssignSlot
<1>2. /\ pc = "expire" /\ EnterSort(c, usedNum[c])
      /\ UNCHANGED <<fixed, life, usedNum, used, todo, reg>>
  BY <1>c DEF Evict
<1>3. k \in Cells(c) /\ usedNum[c] \in 0..NumPhysicalRegs /\ NumPhysicalRegs \in Nat
  BY VictimsActive, ClassAssumption DEF TypeOK
<1>4. /\ v \in Placed /\ v \in 1..count /\ v \in Reg /\ v \notin todo /\ v # reg
      /\ regClass[v] = c /\ hardNum[v] \in used[c] /\ hardNum[v] \in HardOf(c)
  BY <1>v, <1>2, <1>3, Existing DEF ActiveOK, Scanning, Placed, HardOK
<1>5. /\ regClass'[reg] = c /\ regClass'[v] = NoRegs
      /\ \A r \in Reg : r # reg /\ r # v => regClass'[r] = regClass[r]
      /\ hardNum'[reg] = hardNum[v]
      /\ \A r \in Reg : r # reg => hardNum'[r] = hardNum[r]
  BY <1>0, <1>1, <1>4 DEF TypeOK
<1>6. \A d \in Class : Cells(d)' = Cells(d)
  BY <1>2 DEF Cells
<1>7. /\ active'[c][k] = reg
      /\ \A d \in Class : \A l \in Cells(d) : (d # c \/ l # k) => active'[d][l] = active[d][l]
  BY <1>1, <1>3, ClassAssumption DEF TypeOK, Cells, Slots
<1>8. /\ pc' \in {"sort", "next"}
      /\ srt' = [c |-> c, i |-> usedNum[c] - 1, j |-> 0, change |-> FALSE]
      /\ pc' = "sort" => usedNum[c] - 1 > 1
  BY <1>2 DEF EnterSort
<1>9. TypeOK'
  <2>1. /\ regClass' \in [Reg -> Class \cup {NoRegs}]
        /\ hardNum' \in [Reg -> Hard \cup {-1}] /\ slot' \in [Reg -> Int]
        /\ spillSize' \in Nat
    <3>1. SpillBase + spillSize \in Int /\ spillSize + WordSize \in Nat
      BY InputAssumption DEF TypeOK
    <3>2. hardNum[v] \in Hard
      BY <1>4 DEF Hard
    <3> QED
      BY <1>1, <1>4, <3>1, <3>2 DEF TypeOK
  <2>2. active' \in [Class -> [Slots -> Reg \cup {Garbage}]]
    BY <1>0, <1>1 DEF TypeOK
  <2>3. spilled' \in Seq(Reg)
    BY <1>1, <1>4 DEF TypeOK
  <2>4. srt' \in [c : Class \cup {NoRegs}, i : Int, j : Nat, change : BOOLEAN]
    BY <1>3, <1>8
  <2> QED
    BY <1>2, <1>8, <2>1, <2>2, <2>3, <2>4 DEF TypeOK
<1>10. Placed' = (Placed \ {v}) \cup {reg}
  BY <1>0, <1>2, <1>4, <1>5, <1>8, Existing, ClassAssumption DEF Placed
<1>11. reg \notin Placed
  BY <1>2 DEF Placed
<1>12. ClassesOK'
  BY <1>0, <1>2, <1>4, <1>5, <1>8, Existing DEF ClassesOK, Scanning, Waiting
<1>13. \A d \in Class : \A l \in Cells(d) :
         (d # c \/ l # k) =>
           /\ active[d][l] \in Placed \ {v}
           /\ regClass'[active[d][l]] = d
           /\ hardNum'[active[d][l]] = hardNum[active[d][l]]
           /\ hardNum[active[d][l]] \in used[d]
           /\ d = c => hardNum[active[d][l]] # hardNum[v]
  <2> SUFFICES ASSUME NEW d \in Class, NEW l \in Cells(d), d # c \/ l # k
               PROVE /\ active[d][l] \in Placed \ {v}
                     /\ regClass'[active[d][l]] = d
                     /\ hardNum'[active[d][l]] = hardNum[active[d][l]]
                     /\ hardNum[active[d][l]] \in used[d]
                     /\ d = c => hardNum[active[d][l]] # hardNum[v]
    OBVIOUS
  <2>1. /\ active[d][l] \in Placed /\ regClass[active[d][l]] = d
        /\ hardNum[active[d][l]] \in used[d]
    BY <1>2 DEF ActiveOK, Scanning
  <2>2. d = c => hardNum[active[d][l]] # hardNum[v]
    BY <1>2, <1>3, <1>v DEF ActiveOK, Scanning
  <2>3. active[d][l] # v /\ active[d][l] # reg /\ active[d][l] \in Reg
    BY <2>1, <2>2, <1>4, <1>11, Existing DEF Placed
  <2> QED
    BY <2>1, <2>2, <2>3, <1>5
<1>14. ActiveOK'
  <2> SUFFICES ASSUME NEW d \in Class, NEW m \in Cells(d)
               PROVE /\ active'[d][m] \in Placed'
                     /\ regClass'[active'[d][m]] = d
                     /\ hardNum'[active'[d][m]] \in used[d]
                     /\ \A l \in Cells(d) : m # l =>
                          hardNum'[active'[d][m]] # hardNum'[active'[d][l]]
    BY <1>2, <1>6 DEF ActiveOK
  <2>1. \A l \in Cells(d) : (d # c \/ l # k) =>
           /\ active'[d][l] = active[d][l]
           /\ hardNum'[active'[d][l]] = hardNum[active[d][l]]
           /\ d = c => hardNum'[active'[d][l]] # hardNum[v]
    BY <1>7, <1>13
  <2>2. CASE d = c /\ m = k
    <3>1. active'[d][m] = reg /\ hardNum'[reg] = hardNum[v]
      BY <2>2, <1>5, <1>7
    <3>2. \A l \in Cells(d) : m # l => hardNum'[active'[d][l]] # hardNum[v]
      BY <2>1, <2>2
    <3> QED
      BY <2>2, <3>1, <3>2, <1>4, <1>5, <1>10
  <2>3. CASE d # c \/ m # k
    <3>1. \A l \in Cells(d) : m # l => hardNum[active[d][m]] # hardNum[active[d][l]]
      BY <1>2 DEF ActiveOK, Scanning
    <3>2. /\ active'[d][m] = active[d][m] /\ active[d][m] \in Placed \ {v}
          /\ regClass'[active'[d][m]] = d
          /\ hardNum'[active'[d][m]] = hardNum[active[d][m]]
          /\ hardNum'[active'[d][m]] \in used[d]
      BY <2>1, <2>3, <1>13
    <3>3. ASSUME NEW l \in Cells(d), m # l
          PROVE  hardNum'[active'[d][m]] # hardNum'[active'[d][l]]
      <4>1. CASE d = c /\ l = k
        BY <4>1, <2>1, <2>3, <3>2, <1>5, <1>7
      <4>2. CASE d # c \/ l # k
        BY <4>2, <2>1, <3>1, <3>2, <3>3
      <4> QED
        BY <4>1, <4>2
    <3> QED
      BY <3>2, <3>3, <1>10
  <2> QED
    BY <2>2, <2>3
<1>15. PositionOK'
  <2>1. ASSUME NEW r \in Placed' PROVE IsActive(r)' \/ (reg # Garbage /\ end[r] =< begin[reg])
    <3>1. CASE r = reg
      BY <3>1, <1>3, <1>5, <1>6, <1>7, <1>c DEF IsActive, Cells
    <3>2. CASE r # reg
      <4>1. r \in Placed /\ r # v /\ r \in Reg /\ regClass'[r] = regClass[r]
            /\ regClass[r] \in Class
        BY <3>2, <1>5, <1>10, Existing DEF Placed, TypeOK
      <4>2. CASE IsActive(r)
        <5>1. PICK l \in Cells(regClass[r]) : active[regClass[r]][l] = r
          BY <4>2 DEF IsActive
        <5>2. active'[regClass[r]][l] = r
          BY <4>1, <5>1, <1>7, <1>v
        <5> QED
          BY <4>1, <5>1, <5>2, <1>2 DEF IsActive, Cells
      <4>3. CASE ~ IsActive(r)
        BY <4>1, <4>3, <1>2 DEF PositionOK, Scanning
      <4> QED
        BY <4>2, <4>3
    <3> QED
      BY <3>1, <3>2
  <2> QED
    BY <2>1, <1>2 DEF PositionOK, Scanning
<1>16. HardOK'
  BY <1>4, <1>5, <1>10, Existing DEF HardOK, Placed
<1>17. SpilledOK'
  <2>1. \A i \in 1..Len(spilled) : spilled[i] # reg /\ spilled[i] \in Reg
    BY <1>0, Existing, ClassAssumption DEF SpilledOK
  <2>2. /\ Len(spilled') = Len(spilled) + 1 /\ Len(spilled) \in Nat
        /\ spilled'[Len(spilled) + 1] = v
        /\ \A i \in 1..Len(spilled) : spilled'[i] = spilled[i]
    BY <1>1, <1>4 DEF TypeOK
  <2>3. ASSUME NEW i \in 1..Len(spilled') PROVE spilled'[i] \in 1..count /\ regClass'[spilled'[i]] = NoRegs
    <3>1. CASE i = Len(spilled) + 1
      BY <3>1, <2>2, <1>4, <1>5
    <3>2. CASE i \in 1..Len(spilled)
      BY <3>2, <2>1, <2>2, <1>5 DEF SpilledOK
    <3> QED
      BY <3>1, <3>2, <2>2
  <2> QED
    BY <2>3, <1>2, <1>8 DEF SpilledOK
<1>18. SortOK'
  <2>1. pc' = "sort" => usedNum[c] - 1 \in Cells(c) /\ 0 \in 0..(usedNum[c] - 1)
    BY <1>3, <1>8 DEF Cells
  <2> QED
    BY <2>1, <1>6, <1>8 DEF SortOK
<1>19. NoOverlap'
  <2>1. ASSUME NEW r \in Placed, r # v, hardNum[r] = hardNum[v]
        PROVE  end[r] =< begin[reg]
    <3>1. \A l \in Cells(c) : active[c][l] = r => hardNum[r] # hardNum[v]
      <4>1. \A l \in Cells(c) : l # k => hardNum[active[c][l]] # hardNum[v]
        BY <1>13
      <4>2. active[c][k] # r
        BY <2>1, <1>v
      <4> QED
        BY <4>1, <4>2
    <3> QED
      BY <2>1, <3>1, <1>2, <1>4, PlaceDisjoint
  <2>2. \A r \in Placed : r # v /\ hardNum[r] = hardNum[v] =>
           ~ Overlap(begin[r], end[r], begin[reg], end[reg])
           /\ ~ Overlap(begin[reg], end[reg], begin[r], end[r])
    <3>1. \A r \in Placed \cup {reg} : begin[r] \in Nat /\ end[r] \in Nat
      BY <1>0, Existing DEF Placed, TypeOK, Pos
    <3> QED
      BY <2>1, <3>1 DEF Overlap
  <2>3. \A r \in Placed \ {v} : r # reg /\ hardNum'[r] = hardNum[r]
    BY <1>5, <1>11, Existing DEF Placed
  <2> QED
    BY <2>2, <2>3, <1>2, <1>5, <1>10 DEF NoOverlap
<1> QED
  BY <1>9, <1>12, <1>14, <1>15, <1>16, <1>17, <1>18, <1>19

\* Appending a register without a class keeps the list of spilled registers.
LEMMA AppendSpilled ==
  ASSUME TypeOK, SpilledOK, NEW r \in 1..count, r \in Reg,
         spilled' = Append(spilled, r), count' = count, regClass'[r] = NoRegs,
         \A s \in Reg : s # r => regClass'[s] = regClass[s]
  PROVE  /\ spilled' \in Seq(Reg)
         /\ \A i \in 1..Len(spilled') :
              spilled'[i] \in 1..count' /\ regClass'[spilled'[i]] = NoRegs
<1>1. /\ Len(spilled') = Len(spilled) + 1 /\ Len(spilled) \in Nat
      /\ spilled'[Len(spilled) + 1] = r /\ spilled' \in Seq(Reg)
      /\ \A i \in 1..Len(spilled) : spilled'[i] = spilled[i] /\ spilled[i] \in Reg
  BY DEF TypeOK
<1>2. ASSUME NEW i \in 1..Len(spilled')
      PROVE  spilled'[i] \in 1..count' /\ regClass'[spilled'[i]] = NoRegs
  <2>1. CASE i = Len(spilled) + 1
    BY <2>1, <1>1
  <2>2. CASE i \in 1..Len(spilled)
    <3>1. /\ spilled'[i] = spilled[i] /\ spilled[i] \in Reg
          /\ spilled[i] \in 1..count /\ regClass[spilled[i]] = NoRegs
      BY <2>2, <1>1 DEF SpilledOK
    <3> QED
      BY <3>1
  <2> QED
    BY <2>1, <2>2, <1>1
<1> QED
  BY <1>1, <1>2

\* Spilling the register being visited leaves the placed registers alone.
LEMMA SpillSelfInv == ASSUME Inv, SpillSelf PROVE Inv'
<1> USE DEF Inv, life
<1>0. reg \in 1..count /\ reg \in Reg /\ reg \notin todo /\ regClass[reg] \in Class
  BY Existing DEF SpillSelf, ClassesOK, Scanning, Waiting
<1>1. /\ pc = "expire"
      /\ UNCHANGED <<fixed, life, hardNum, active, usedNum, used, todo, reg, srt>>
  BY DEF SpillSelf
<1>2. CASE infinite[reg]
  <2>1. pc' = "undefined" /\ UNCHANGED <<regClass, slot, spilled, spillSize>>
    BY <1>2 DEF SpillSelf
  <2>2. TypeOK'
    BY <1>1, <2>1 DEF TypeOK
  <2>3. Placed' = Placed
    BY <1>1, <2>1 DEF Placed
  <2>4. ClassesOK' /\ ActiveOK' /\ PositionOK' /\ SortOK'
    BY <1>1, <2>1 DEF ClassesOK, ActiveOK, PositionOK, SortOK, Scanning
  <2>5. HardOK' /\ SpilledOK' /\ NoOverlap'
    BY <1>1, <2>1, <2>3 DEF HardOK, SpilledOK, NoOverlap
  <2> QED
    BY <2>2, <2>4, <2>5
<1>3. CASE ~ infinite[reg]
  <2>1. /\ regClass' = [regClass EXCEPT ![reg] = NoRegs] /\ pc' = "next"
        /\ slot' = [slot EXCEPT ![reg] = SpillBase + spillSize]
        /\ spillSize' = spillSize + WordSize
        /\ spilled' = Append(spilled, reg)
    BY <1>3 DEF SpillSelf, AssignSlot
  <2>2. regClass'[reg] = NoRegs /\ \A s \in Reg : s # reg => regClass'[s] = regClass[s]
    BY <1>0, <2>1 DEF TypeOK
  <2>3. /\ spilled' \in Seq(Reg)
        /\ \A i \in 1..Len(spilled') :
              spilled'[i] \in 1..count' /\ regClass'[spilled'[i]] = NoRegs
    BY <1>0, <1>1, <2>1, <2>2, AppendSpilled
  <2>4. TypeOK'
    <3>1. SpillBase + spillSize \in Int /\ spillSize + WordSize \in Nat
      BY InputAssumption DEF TypeOK
    <3>2. regClass' \in [Reg -> Class \cup {NoRegs}] /\ slot' \in [Reg -> Int]
      BY <2>1, <3>1 DEF TypeOK
    <3> QED
      BY <1>1, <2>1, <2>3, <3>1, <3>2 DEF TypeOK
  <2>5. Placed' = Placed
    BY <1>0, <1>1, <2>1, <2>2, Existing DEF Placed
  <2>6. \A r \in Placed : r # reg /\ r \in Reg /\ regClass'[r] = regClass[r]
    BY <1>1, <2>2, Existing DEF Placed
  <2>7. ClassesOK'
    BY <1>0, <1>1, <2>1, <2>2, Existing DEF ClassesOK, Scanning, Waiting
  <2>8. ActiveOK'
    BY <1>1, <2>5, <2>6 DEF ActiveOK, Scanning, Cells
  <2>9. PositionOK'
    <3>1. \A r \in Placed : IsActive(r) => IsActive(r)'
      BY <1>1, <2>6 DEF IsActive, Cells
    <3> QED
      BY <1>1, <2>5, <3>1 DEF PositionOK, Scanning
  <2>10. HardOK' /\ SpilledOK' /\ SortOK' /\ NoOverlap'
    BY <1>1, <2>1, <2>3, <2>5, <2>6 DEF HardOK, SpilledOK, SortOK, NoOverlap
  <2> QED
    BY <2>4, <2>7, <2>8, <2>9, <2>10
<1> QED
  BY <1>2, <1>3

\* bubble_sort permutes the active cells of one class.
LEMMA SortStepInv == ASSUME Inv, SortStep PROVE Inv'
<1> USE DEF Inv, life
<1>c. PICK c : c = srt.c
  OBVIOUS
<1>j. PICK j : j = srt.j
  OBVIOUS
<1>1. /\ pc = "sort" /\ j < srt.i
      /\ active' = active \/
           active' = [active EXCEPT ![c] =
                        [active[c] EXCEPT ![j] = active[c][j + 1], ![j + 1] = active[c][j]]]
      /\ \E b \in BOOLEAN : srt' = [srt EXCEPT !.j = j + 1, !.change = b]
      /\ UNCHANGED <<fixed, life, regClass, hardNum, usedNum, used, slot, spilled,
                     spillSize, todo, reg, pc>>
  BY <1>c, <1>j DEF SortStep, TypeOK
<1>2. /\ c \in Class /\ srt.i \in Cells(c) /\ j \in Nat
      /\ usedNum[c] \in 0..NumPhysicalRegs /\ NumPhysicalRegs \in Nat
  BY <1>1, <1>c, <1>j, ClassAssumption DEF SortOK, TypeOK
<1>3. j \in Cells(c) /\ j + 1 \in Cells(c) /\ j + 1 \in 0..srt.i /\ j # j + 1
  BY <1>1, <1>2 DEF Cells
<1>4. \A d \in Class : Cells(d) \subseteq Slots /\ Cells(d)' = Cells(d)
  BY <1>1, ClassAssumption DEF Cells, Slots, TypeOK
<1>5. \E p \in [Cells(c) -> Cells(c)] :
        /\ \A k, l \in Cells(c) : k # l => p[k] # p[l]
        /\ \A k \in Cells(c) : p[p[k]] = k
        /\ \A k \in Cells(c) : active'[c][k] = active[c][p[k]]
  <2>1. CASE active' = active
    <3> WITNESS [k \in Cells(c) |-> k] \in [Cells(c) -> Cells(c)]
    <3> QED
      BY <2>1
  <2>2. CASE active' = [active EXCEPT ![c] =
                        [active[c] EXCEPT ![j] = active[c][j + 1], ![j + 1] = active[c][j]]]
    <3> DEFINE p == [k \in Cells(c) |-> IF k = j THEN j + 1 ELSE IF k = j + 1 THEN j ELSE k]
    <3>1. p \in [Cells(c) -> Cells(c)]
      BY <1>3
    <3>2. \A k \in Cells(c) : active'[c][k] = active[c][p[k]]
      BY <2>2, <1>2, <1>3, <1>4 DEF TypeOK
    <3>3. \A k, l \in Cells(c) : k # l => p[k] # p[l]
      BY <1>3
    <3>4. \A k \in Cells(c) : p[p[k]] = k
      BY <1>3
    <3> HIDE DEF p
    <3> QED
      BY <3>1, <3>2, <3>3, <3>4
  <2> QED
    BY <2>1, <2>2, <1>1
<1>6. \A d \in Class : d # c => active'[d] = active[d]
  BY <1>1 DEF TypeOK
<1>7. TypeOK'
  <2>1. active' \in [Class -> [Slots -> Reg \cup {Garbage}]]
    <3>1. j \in Slots /\ j + 1 \in Slots /\ active[c] \in [Slots -> Reg \cup {Garbage}]
      BY <1>2, <1>3, <1>4 DEF TypeOK
    <3>2. [active[c] EXCEPT ![j] = active[c][j + 1], ![j + 1] = active[c][j]]
            \in [Slots -> Reg \cup {Garbage}]
      BY <3>1
    <3> QED
      BY <1>1, <1>2, <3>2 DEF TypeOK
  <2>2. srt' \in [c : Class \cup {NoRegs}, i : Int, j : Nat, change : BOOLEAN]
    <3>1. PICK b \in BOOLEAN : srt' = [srt EXCEPT !.j = j + 1, !.change = b]
      BY <1>1
    <3>2. j + 1 \in Nat /\ srt \in [c : Class \cup {NoRegs}, i : Int, j : Nat, change : BOOLEAN]
      BY <1>2 DEF TypeOK
    <3> QED
      BY <3>1, <3>2
  <2> QED
    BY <1>1, <2>1, <2>2 DEF TypeOK
<1>8. Placed' = Placed
  BY <1>1 DEF Placed
<1>9. ActiveOK'
  <2> SUFFICES ASSUME NEW d \in Class, NEW k \in Cells(d)
               PROVE /\ active'[d][k] \in Placed
                     /\ regClass[active'[d][k]] = d
                     /\ hardNum[active'[d][k]] \in used[d]
                     /\ \A l \in Cells(d) : k # l =>
                          hardNum[active'[d][k]] # hardNum[active'[d][l]]
    BY <1>1, <1>4, <1>8 DEF ActiveOK
  <2>1. CASE d = c
    BY <2>1, <1>1, <1>5 DEF ActiveOK, Scanning
  <2>2. CASE d # c
    BY <2>2, <1>1, <1>6 DEF ActiveOK, Scanning
  <2> QED
    BY <2>1, <2>2
<1>10. PositionOK'
  <2>1. ASSUME NEW r \in Placed, IsActive(r) PROVE IsActive(r)'
    <3>1. PICK k \in Cells(regClass[r]) : active[regClass[r]][k] = r
      BY <2>1 DEF IsActive
    <3>2. regClass[r] \in Class
      BY Existing DEF Placed, TypeOK
    <3>3. \E l \in Cells(regClass[r]) : active'[regClass[r]][l] = r
      BY <3>1, <3>2, <1>5, <1>6
    <3> QED
      BY <3>2, <3>3, <1>1, <1>4 DEF IsActive
  <2> QED
    BY <2>1, <1>1, <1>8 DEF PositionOK, Scanning
<1>11. SortOK'
  BY <1>1, <1>2, <1>3, <1>4, <1>c DEF SortOK, TypeOK
<1>12. ClassesOK' /\ HardOK' /\ SpilledOK' /\ NoOverlap'
  BY <1>1, <1>8 DEF ClassesOK, HardOK, SpilledOK, NoOverlap, Waiting, Scanning
<1> QED
  BY <1>7, <1>9, <1>10, <1>11, <1>12

\* The end of a pass moves nothing.
LEMMA SortPassInv == ASSUME Inv, SortPass PROVE Inv'
<1> USE DEF Inv, life, place
<1>1. /\ pc = "sort" /\ srt.j = srt.i /\ pc' \in {"sort", "next"}
      /\ pc' = "sort" => srt.i - 1 > 1 /\ srt' = [srt EXCEPT !.i = @ - 1, !.j = 0, !.change = FALSE]
      /\ pc' = "next" => srt' = srt
      /\ UNCHANGED <<fixed, life, place, slot, spilled, spillSize, todo, reg>>
  BY DEF SortPass
<1>2. TypeOK'
  <2>1. srt' \in [c : Class \cup {NoRegs}, i : Int, j : Nat, change : BOOLEAN]
    <3>1. srt \in [c : Class \cup {NoRegs}, i : Int, j : Nat, change : BOOLEAN]
      BY DEF TypeOK
    <3>2. CASE pc' = "next"
      BY <1>1, <3>1, <3>2
    <3>3. CASE pc' = "sort"
      <4>1. srt.i - 1 \in Int /\ 0 \in Nat
        BY <3>1
      <4>2. srt' = [srt EXCEPT !.i = srt.i - 1, !.j = 0, !.change = FALSE]
        BY <1>1, <3>3
      <4> QED
        BY <4>1, <4>2, <3>1
    <3> QED
      BY <1>1, <3>2, <3>3
  <2> QED
    BY <1>1, <2>1 DEF TypeOK
<1>3. Placed' = Placed
  BY <1>1 DEF Placed
<1>4. ActiveOK' /\ PositionOK'
  BY <1>1, <1>3 DEF ActiveOK, PositionOK, IsActive, Cells, Scanning
<1>5. SortOK'
  <2>1. srt.c \in Class /\ srt.i \in Cells(srt.c) /\ usedNum[srt.c] \in Nat /\ srt.i \in Int
    BY <1>1, ClassAssumption DEF SortOK, TypeOK
  <2>2. CASE pc' = "sort"
    <3>1. srt'.c = srt.c /\ srt'.i = srt.i - 1 /\ srt'.j = 0
      BY <1>1, <2>2 DEF TypeOK
    <3> QED
      BY <1>1, <2>1, <2>2, <3>1 DEF SortOK, Cells
  <2> QED
    BY <2>2 DEF SortOK
<1>6. ClassesOK' /\ HardOK' /\ SpilledOK' /\ NoOverlap'
  BY <1>1, <1>3 DEF ClassesOK, HardOK, SpilledOK, NoOverlap, Waiting, Scanning
<1> QED
  BY <1>2, <1>4, <1>5, <1>6

\* Leaving the scan keeps the placements.
LEMMA FinishScanInv == ASSUME Inv, FinishScan PROVE Inv'
<1> USE DEF Inv, life, place
<1>1. /\ pc = "next" /\ pc' \in {"done", "start", "fatal", "rewrite"}
      /\ pc' = "start" => spilled = <<>>
      /\ UNCHANGED <<fixed, life, place, slot, spilled, spillSize, todo, reg, srt>>
  BY DEF FinishScan, RewriteFirst
<1>2. TypeOK'
  BY <1>1 DEF TypeOK
<1>3. Placed' = Placed
  BY <1>1 DEF Placed
<1>4. ~ Scanning'
  BY <1>1 DEF Scanning
<1>5. ClassesOK' /\ ActiveOK' /\ PositionOK' /\ SortOK'
  BY <1>1, <1>4 DEF ClassesOK, ActiveOK, PositionOK, SortOK
<1>6. HardOK' /\ SpilledOK' /\ NoOverlap'
  BY <1>1, <1>3 DEF HardOK, SpilledOK, NoOverlap
<1> QED
  BY <1>2, <1>5, <1>6

\* The register created for an operand has no class yet, so it is not placed.
LEMMA RewriteOperandInv == ASSUME Inv, RewriteOperand PROVE Inv'
<1> USE DEF Inv
<1>v. PICK v : v = Head(spilled)
  OBVIOUS
<1>n. PICK n : n = count + 1
  OBVIOUS
<1>o. PICK o \in ops[v] :
        /\ begin' = [begin EXCEPT ![n] = PieceBegin(o)]
        /\ end' = [end EXCEPT ![n] = PieceBegin(o) + 1]
        /\ infinite' = [infinite EXCEPT ![n] = TRUE]
        /\ remat' = [remat EXCEPT ![n] = remat[v]]
        /\ rclass' = [rclass EXCEPT ![n] = rclass[v]]
        /\ slot' = [slot EXCEPT ![n] = slot[v]]
        /\ ops' = [ops EXCEPT ![v] = @ \ {o}, ![n] = {o}]
  BY <1>v, <1>n DEF RewriteOperand
<1>1. /\ pc = "rewrite" /\ spilled # <<>> /\ count < MaxReg /\ count' = n
      /\ UNCHANGED <<fixed, place, spilled, spillSize, todo, reg, pc, srt>>
  BY <1>n DEF RewriteOperand
<1>2. v \in 1..count /\ v \in Reg
  <2>1. 1 \in 1..Len(spilled) /\ spilled[1] = v
    BY <1>1, <1>v DEF TypeOK
  <2> QED
    BY <2>1, Existing DEF SpilledOK
<1>3. n \in Reg /\ n > count /\ count \in Nat /\ n \in 0..MaxReg /\ n # v
      /\ 1..count \subseteq 1..n /\ \A r \in 1..n : r \in 1..count \/ r = n
  BY <1>1, <1>2, <1>n, InputAssumption DEF TypeOK, Reg
<1>4. o \in Operand /\ PieceBegin(o) \in Nat /\ PieceBegin(o) + 1 \in Nat
  <2>1. o \in Operand
    BY <1>2, <1>o DEF TypeOK
  <2>2. o[1] \in Nat \ {0}
    BY <2>1 DEF Operand
  <2> QED
    BY <2>1, <2>2 DEF PieceBegin
<1>5. TypeOK'
  <2>1. /\ begin' \in [Reg -> Pos] /\ end' \in [Reg -> Pos]
        /\ infinite' \in [Reg -> BOOLEAN] /\ remat' \in [Reg -> BOOLEAN]
        /\ rclass' \in [Reg -> Class \cup {NoRegs}] /\ slot' \in [Reg -> Int]
    BY <1>o, <1>2, <1>3, <1>4 DEF TypeOK, Pos
  <2>2. ops' \in [Reg -> SUBSET Operand]
    BY <1>o, <1>2, <1>3, <1>4 DEF TypeOK
  <2>3. count' \in 0..MaxReg /\ todo' \subseteq 1..count'
    BY <1>1, <1>3 DEF TypeOK
  <2> QED
    BY <1>1, <2>1, <2>2, <2>3 DEF TypeOK, place
<1>6. regClass[n] = NoRegs /\ regClass' = regClass /\ hardNum' = hardNum
  BY <1>1, <1>3 DEF ClassesOK, place
<1>7. Placed' = Placed
  BY <1>1, <1>3, <1>6 DEF Placed
<1>8. \A r \in Placed : r # n /\ r \in Reg
  BY <1>3, <1>6, Existing DEF Placed
<1>9. \A r \in Placed : begin'[r] = begin[r] /\ end'[r] = end[r]
  BY <1>o, <1>8 DEF TypeOK
<1>10. ~ Scanning /\ ~ Scanning'
  BY <1>1 DEF Scanning
<1>11. ClassesOK'
  <2>1. \A r \in 1..n : rclass'[r] \in Class
    <3>1. rclass'[n] = rclass[v] /\ \A r \in Reg : r # n => rclass'[r] = rclass[r]
      BY <1>o, <1>3 DEF TypeOK
    <3>2. \A r \in 1..count : r \in Reg /\ r # n /\ rclass[r] \in Class
      BY <1>3, Existing DEF ClassesOK
    <3> QED
      BY <3>1, <3>2, <1>2, <1>3
  <2>2. \A r \in Reg : r > n => regClass[r] = NoRegs
    BY <1>3, <1>n DEF ClassesOK, Reg
  <2> QED
    BY <2>1, <2>2, <1>1, <1>6, <1>10 DEF ClassesOK
<1>12. ActiveOK' /\ PositionOK' /\ SortOK'
  BY <1>1, <1>10 DEF ActiveOK, PositionOK, SortOK
<1>13. HardOK' /\ NoOverlap'
  BY <1>6, <1>7, <1>9 DEF HardOK, NoOverlap
<1>14. SpilledOK'
  BY <1>1, <1>3, <1>6 DEF SpilledOK
<1> QED
  BY <1>5, <1>11, <1>12, <1>13, <1>14

\* The spilled register whose range is made void is not placed.
LEMMA RewriteDoneInv == ASSUME Inv, RewriteDone PROVE Inv'
<1> USE DEF Inv
<1>v. PICK v : v = Head(spilled)
  OBVIOUS
<1>1. /\ pc = "rewrite" /\ spilled # <<>>
      /\ begin' = [begin EXCEPT ![v] = 0] /\ end' = [end EXCEPT ![v] = 0]
      /\ spilled' = Tail(spilled)
      /\ pc' \in {"start", "fatal", "rewrite"} /\ (pc' = "start" => spilled' = <<>>)
      /\ UNCHANGED <<fixed, infinite, remat, rclass, ops, count, place, slot,
                     spillSize, todo, reg, srt>>
  BY <1>v DEF RewriteDone, RewriteFirst
<1>2. regClass' = regClass /\ hardNum' = hardNum
  BY <1>1 DEF place
<1>3. /\ spilled' \in Seq(Reg) /\ regClass[v] = NoRegs
      /\ \A i \in 1..Len(spilled') : i + 1 \in 1..Len(spilled) /\ spilled'[i] = spilled[i + 1]
  <2>1. 1 \in 1..Len(spilled) /\ spilled[1] = v
    BY <1>1, <1>v DEF TypeOK
  <2> QED
    BY <1>1, <2>1 DEF TypeOK, SpilledOK
<1>4. TypeOK'
  <2>1. begin' \in [Reg -> Pos] /\ end' \in [Reg -> Pos]
    BY <1>1 DEF TypeOK, Pos
  <2> QED
    BY <1>1, <1>3, <2>1 DEF TypeOK, place
<1>5. Placed' = Placed /\ v \notin Placed
  BY <1>1, <1>2, <1>3 DEF Placed
<1>6. \A r \in Placed : begin'[r] = begin[r] /\ end'[r] = end[r]
  BY <1>1, <1>5, Existing DEF TypeOK, Placed
<1>7. ~ Scanning /\ ~ Scanning'
  BY <1>1 DEF Scanning
<1>8. ClassesOK' /\ ActiveOK' /\ PositionOK' /\ SortOK'
  BY <1>1, <1>2, <1>7 DEF ClassesOK, ActiveOK, PositionOK, SortOK
<1>9. HardOK' /\ NoOverlap'
  BY <1>2, <1>5, <1>6 DEF HardOK, NoOverlap
<1>10. SpilledOK'
  BY <1>1, <1>2, <1>3 DEF SpilledOK
<1> QED
  BY <1>4, <1>8, <1>9, <1>10

-----------------------------------------------------------------------------
\* Every step of the allocator preserves the invariant.
LEMMA NextInv == Inv /\ [Next]_vars => Inv'
<1>1. ASSUME Inv, UNCHANGED vars PROVE Inv'
  <2>1. Placed' = Placed
    BY <1>1 DEF vars, life, place, Placed
  <2>2. TypeOK' /\ ClassesOK' /\ SpilledOK' /\ SortOK'
    BY <1>1 DEF Inv, vars, life, place, TypeOK, ClassesOK, SpilledOK, SortOK, Waiting,
                Scanning, Cells
  <2>3. ActiveOK' /\ PositionOK' /\ HardOK' /\ NoOverlap'
    BY <1>1, <2>1 DEF Inv, vars, life, place, ActiveOK, PositionOK, HardOK, NoOverlap,
                      Scanning, Cells, IsActive
  <2> QED
    BY <2>2, <2>3 DEF Inv
<1> QED
  BY <1>1, StartRoundInv, NextRegInv, ExpireOldInv, AllocateInv, EvictInv, SpillSelfInv,
     SortStepInv, SortPassInv, FinishScanInv, RewriteOperandInv, RewriteDoneInv DEF Next

\* The strengthened invariant holds in every reachable state.
THEOREM Invariance == Spec => []Inv
BY InitInv, NextInv, PTL DEF Spec

\* linear_scan_regalloc never puts two registers that are live at the same point
\* in one hard register, whatever the code, the classes and their size.
THEOREM NoOverlapHolds == Spec => []NoOverlap
<1>1. Inv => NoOverlap
  BY DEF Inv
<1> QED
  BY <1>1, Invariance, PTL

\* Every variable keeps its type; in particular used_num stays within the
\* num_physical_regs cells that linearScan allocates for `active'.
THEOREM TypeCorrect == Spec => []TypeOK
<1>1. Inv => TypeOK
  BY DEF Inv
<1> QED
  BY <1>1, Invariance, PTL
=============================================================================
