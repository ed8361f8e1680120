--------------------------- MODULE Allocation_proofs ---------------------------
(***************************************************************************)
(* What the linear scan leaves behind, for every code and every set of     *)
(* hard registers: its three records of the occupied registers agree       *)
(* (Accounting), at the end every register has one of its class and no two *)
(* spilled registers share a slot (Completed), none is ever where a call   *)
(* destroys it (FixedRespected), and the third loop of spill_at_interval   *)
(* always finds a victim (NeverStuck).                                     *)
(***************************************************************************)
EXTENDS LinearScan_proofs, FiniteSetTheorems

Listed(r) == \E i \in 1..Len(spilled) : spilled[i] = r

\* Every hard register marked in `used' is that of an active register.
UsedOK ==
  Scanning => \A c \in Class : \A h \in used[c] : \E k \in Cells(c) : hardNum[active[c][k]] = h

\* The registers made for spilled operands are the unspillable ones; none of them
\* is ever in the list of spilled registers.
KindOK ==
  /\ count >= NumInitial
  /\ \A r \in 1..count : infinite[r] <=> r > NumInitial
  /\ \A i \in 1..Len(spilled) : spilled[i] =< NumInitial
  /\ pc # "fatal"

\* In a round a register keeps the class it asks for, or is spilled.
VisitedOK ==
  /\ Scanning \/ pc = "done" => \A r \in 1..count : regClass[r] = rclass[r] \/ Listed(r)
  /\ pc = "done" => spilled = <<>> /\ todo = {}

\* Slots are given out upwards, one to each spilled register, whose operands are
\* gone as soon as it is off the list.
SlotOK ==
  /\ \A r \in 1..NumInitial :
       slot[r] = -1 \/ (SpillBase =< slot[r] /\ slot[r] < SpillBase + spillSize)
  /\ \A r, s \in 1..NumInitial : r # s /\ slot[r] # -1 => slot[r] # slot[s]
  /\ \A r \in 1..NumInitial : slot[r] # -1 => ops[r] = {} \/ Listed(r)

\* Registers are placed in the order of their beginnings.
OrderOK == Scanning => \A r \in Placed : reg # Garbage /\ begin[r] =< begin[reg]

More == UsedOK /\ KindOK /\ VisitedOK /\ SlotOK /\ OrderOK

-----------------------------------------------------------------------------
\* The registers of the list exist, and stay listed while it grows.
LEMMA ListGrows ==
  ASSUME NEW S, NEW s \in Seq(S), NEW r \in S, NEW t, t = Append(s, r)
  PROVE  /\ \A x : (\E i \in 1..Len(t) : t[i] = x) <=> x = r \/ (\E i \in 1..Len(s) : s[i] = x)
         /\ \A i \in 1..Len(t) : t[i] = r \/ (i \in 1..Len(s) /\ t[i] = s[i])
<1>1. /\ Len(t) = Len(s) + 1 /\ Len(s) \in Nat /\ t[Len(s) + 1] = r
      /\ \A i \in 1..Len(s) : t[i] = s[i]
  OBVIOUS
<1>2. \A i : i \in 1..Len(t) <=> i = Len(s) + 1 \/ i \in 1..Len(s)
  BY <1>1
<1> QED
  BY <1>1, <1>2

\* Removing the head of the list.
LEMMA ListShrinks ==
  ASSUME NEW S, NEW s \in Seq(S), s # <<>>, NEW t, t = Tail(s)
  PROVE  /\ Head(s) = s[1] /\ 1 \in 1..Len(s)
         /\ t \in Seq(S) /\ \A i \in 1..Len(t) : i + 1 \in 1..Len(s) /\ t[i] = s[i + 1]
<1>1. /\ t \in Seq(S) /\ Len(t) = Len(s) - 1 /\ Len(s) \in Nat \ {0} /\ Head(s) = s[1]
      /\ \A i \in 1..Len(t) : i + 1 \in 1..Len(s) /\ t[i] = s[i + 1]
  OBVIOUS
<1> QED
  BY <1>1

\* What is listed is the head or in the tail.
LEMMA TailMembers ==
  ASSUME NEW S, NEW s \in Seq(S), s # <<>>, NEW x
  PROVE  (\E i \in 1..Len(s) : s[i] = x) <=> x = Head(s) \/ (\E i \in 1..Len(Tail(s)) : Tail(s)[i] = x)
<1>1. PICK t : t = Tail(s)
  OBVIOUS
<1>2. /\ t \in Seq(S) /\ Len(t) = Len(s) - 1 /\ Len(s) \in Nat \ {0} /\ Head(s) = s[1]
      /\ \A i \in 1..Len(t) : i + 1 \in 1..Len(s) /\ t[i] = s[i + 1]
  BY <1>1
<1>3. \A i \in 1..Len(s) : i = 1 \/ (i - 1 \in 1..Len(t) /\ t[i - 1] = s[i])
  BY <1>2
<1>4. ASSUME NEW i \in 1..Len(s), s[i] = x PROVE x = Head(s) \/ (\E k \in 1..Len(t) : t[k] = x)
  BY <1>2, <1>3, <1>4
<1>5. ASSUME NEW i \in 1..Len(t), t[i] = x PROVE \E k \in 1..Len(s) : s[k] = x
  BY <1>2, <1>5
<1>6. x = Head(s) => \E k \in 1..Len(s) : s[k] = x
  BY <1>2
<1> QED
  BY <1>1, <1>4, <1>5, <1>6

-----------------------------------------------------------------------------
\* A hard register leaves `used' with the cell of its register.
LEMMA UsedStep == ASSUME Inv, UsedOK, [Next]_vars PROVE UsedOK'
<1> USE DEF life, place, Cells
<1>1. CASE StartRound
  BY <1>1 DEF StartRound, UsedOK
<1>2. CASE NextReg
  BY <1>2 DEF NextReg, UsedOK, Scanning
<1>3. CASE ExpireOld
  <2>1. PICK c \in Class : Expirable(c) /\ Release(Last(c))
    BY <1>3 DEF ExpireOld
  <2>2. pc = "expire" /\ UNCHANGED <<active, hardNum, regClass, pc>>
    BY <1>3 DEF ExpireOld
  <2>3. usedNum[c] \in Nat /\ usedNum[c] > 0 /\ usedNum[c] - 1 \in Cells(c)
    <3>1. usedNum[c] \in Nat /\ usedNum[c] > 0
      BY <2>1, ClassAssumption DEF Expirable, Inv, TypeOK
    <3> QED
      BY ONLY <3>1 DEF Cells
  <2>4. regClass[Last(c)] = c
    BY <2>2, <2>3 DEF Inv, ActiveOK, Scanning, Last
  <2>5. /\ usedNum' = [usedNum EXCEPT ![c] = usedNum[c] - 1]
        /\ used' = [used EXCEPT ![c] = used[c] \ {hardNum[Last(c)]}]
    BY <2>1, <2>4 DEF Release
  <2>6. ASSUME NEW d \in Class, NEW h \in used'[d]
        PROVE  \E k \in Cells(d)' : hardNum[active[d][k]] = h
    <3>1. h \in used[d]
      BY <2>5, <2>6 DEF Inv, TypeOK
    <3>2. PICK k \in Cells(d) : hardNum[active[d][k]] = h
      BY <3>1, <2>2 DEF UsedOK, Scanning
    <3>3. CASE d # c
      BY <3>2, <3>3, <2>5 DEF Inv, TypeOK
    <3>4. CASE d = c
      <4>1. h # hardNum[Last(c)]
        BY <2>5, <2>6, <3>4 DEF Inv, TypeOK
      <4>2. k # usedNum[c] - 1
        BY <4>1, <3>2, <3>4 DEF Last
      <4>3. k \in 0..(usedNum[c] - 1 - 1)
        BY <4>2, <3>2, <3>4, <2>3
      <4>4. usedNum'[c] = usedNum[c] - 1
        BY <2>5 DEF Inv, TypeOK
      <4> QED
        BY <3>2, <3>4, <4>3, <4>4
    <3> QED
      BY <3>3, <3>4
  <2> QED
    BY <2>2, <2>6 DEF UsedOK
<1>4. CASE Allocate
  <2>1. reg \in Reg /\ reg \notin todo /\ regClass[reg] \in Class /\ pc = "expire"
    BY <1>4, Existing DEF Allocate, Inv, ClassesOK, Scanning, Waiting
  <2>c. PICK c \in Class : c = regClass[reg]
    BY <2>1
  <2>2. PICK h \in Free(c) : /\ used' = [used EXCEPT ![c] = @ \cup {h}]
                             /\ hardNum' = [hardNum EXCEPT ![reg] = h]
    BY <1>4, <2>c DEF Allocate
  <2>3. /\ active' = [active EXCEPT ![c][usedNum[c]] = reg]
        /\ usedNum' = [usedNum EXCEPT ![c] = usedNum[c] + 1]
        /\ usedNum[c] < MaxNum[c] - NextAvail[c]
    BY <1>4, <2>c DEF Allocate, CanAlloc
  <2>4. usedNum[c] \in Nat /\ usedNum[c] \in Slots /\ \A d \in Class : usedNum[d] \in Nat
    <3>1. /\ \A d \in Class : usedNum[d] \in 0..NumPhysicalRegs
          /\ NumPhysicalRegs \in Nat /\ MaxNum[c] \in Nat /\ NextAvail[c] \in Nat
          /\ MaxNum[c] - NextAvail[c] =< NumPhysicalRegs
      BY ClassAssumption DEF Inv, TypeOK
    <3> QED
      BY <3>1, <2>3 DEF Slots
  <2>5. \A d \in Class : \A k \in Cells(d) :
          k \in Cells(d)' /\ active'[d][k] = active[d][k] /\ hardNum'[active[d][k]] = hardNum[active[d][k]]
    <3> SUFFICES ASSUME NEW d \in Class, NEW k \in Cells(d)
                 PROVE  /\ k \in Cells(d)' /\ active'[d][k] = active[d][k]
                        /\ hardNum'[active[d][k]] = hardNum[active[d][k]]
      OBVIOUS
    <3>1. active[d][k] \in Placed
      BY <2>1 DEF Inv, ActiveOK, Scanning
    <3>2. active[d][k] # reg /\ active[d][k] \in Reg
      BY <3>1, <2>1, Existing DEF Placed, Inv
    <3>3. usedNum'[d] \in {usedNum[d], usedNum[d] + 1}
      BY <2>3, <2>4 DEF Inv, TypeOK
    <3>4. d # c \/ k # usedNum[c]
      BY <2>4
    <3> QED
      BY <2>2, <2>3, <2>4, <3>2, <3>3, <3>4 DEF Inv, TypeOK
  <2>6. usedNum[c] \in Cells(c)' /\ active'[c][usedNum[c]] = reg /\ hardNum'[reg] = h
    BY <2>1, <2>2, <2>3, <2>4 DEF Inv, TypeOK
  <2>7. \A d \in Class : \A x \in used'[d] : x \in used[d] \/ (d = c /\ x = h)
    BY <2>2 DEF Inv, TypeOK
  <2>8. \A d \in Class : \A x \in used[d] : \E k \in Cells(d) : hardNum[active[d][k]] = x
    BY <2>1 DEF UsedOK, Scanning
  <2> QED
    BY <2>5, <2>6, <2>7, <2>8 DEF UsedOK
<1>5. CASE Evict
  <2>1. reg \in Reg /\ regClass[reg] \in Class /\ pc = "expire"
    BY <1>5, Existing DEF Evict, Inv, ClassesOK, Scanning, Waiting
  <2>c. PICK c \in Class : c = regClass[reg]
    BY <2>1
  <2>2. PICK k \in Victims(c) : /\ hardNum' = [hardNum EXCEPT ![reg] = hardNum[active[c][k]]]
                                /\ active' = [active EXCEPT ![c][k] = reg]
    BY <1>5, <2>c DEF Evict
  <2>3. UNCHANGED <<usedNum, used>>
    BY <1>5 DEF Evict
  <2>4. k \in Cells(c) /\ k \in Slots
    BY VictimsActive, ClassAssumption DEF Inv, TypeOK, Slots
  <2>5. \A d \in Class : \A l \in Cells(d) : active[d][l] # reg /\ active[d][l] \in Reg
    BY <2>1, Existing DEF Inv, ActiveOK, Scanning, Placed
  <2>6. \A d \in Class : \A l \in Cells(d) :
          hardNum'[active'[d][l]] = hardNum[active[d][l]]
    <3> SUFFICES ASSUME NEW d \in Class, NEW l \in Cells(d)
                 PROVE  hardNum'[active'[d][l]] = hardNum[active[d][l]]
      OBVIOUS
    <3>1. CASE d = c /\ l = k
      BY <3>1, <2>1, <2>2, <2>4 DEF Inv, TypeOK
    <3>2. CASE d # c \/ l # k
      <4>1. active'[d][l] = active[d][l]
        BY <3>2, <2>2, <2>4 DEF Inv, TypeOK
      <4> QED
        BY <4>1, <2>1, <2>2, <2>5 DEF Inv, TypeOK
    <3> QED
      BY <3>1, <3>2
  <2>7. \A d \in Class : \A x \in used[d] : \E l \in Cells(d) : hardNum[active[d][l]] = x
    BY <2>1 DEF UsedOK, Scanning
  <2> QED
    BY <2>3, <2>6, <2>7 DEF UsedOK
<1>6. CASE SpillSelf
  BY <1>6 DEF SpillSelf, UsedOK, Scanning
<1>7. CASE SortStep
  <2>c. PICK c : c = srt.c
    OBVIOUS
  <2>j. PICK j : j = srt.j
    OBVIOUS
  <2>1. /\ pc = "sort" /\ j < srt.i
        /\ active' = active \/
             active' = [active EXCEPT ![c] =
                          [active[c] EXCEPT ![j] = active[c][j + 1], ![j + 1] = active[c][j]]]
        /\ UNCHANGED <<hardNum, usedNum, used, pc>>
    BY <1>7, <2>c, <2>j DEF SortStep, Inv, TypeOK
  <2>2. /\ c \in Class /\ j \in Cells(c) /\ j + 1 \in Cells(c) /\ j \in Slots /\ j + 1 \in Slots
    BY <2>1, <2>c, <2>j, ClassAssumption DEF Inv, SortOK, TypeOK, Slots
  <2>3. \A d \in Class : \A k \in Cells(d) : \E l \in Cells(d) : active'[d][l] = active[d][k]
    <3> SUFFICES ASSUME NEW d \in Class, NEW k \in Cells(d)
                 PROVE  \E l \in Cells(d) : active'[d][l] = active[d][k]
      OBVIOUS
    <3>1. CASE active' = active
      BY <3>1
    <3>2. CASE active' = [active EXCEPT ![c] =
                          [active[c] EXCEPT ![j] = active[c][j + 1], ![j + 1] = active[c][j]]]
      <4>1. active[c] \in [Slots -> Reg \cup {Garbage}] /\ active \in [Class -> [Slots -> Reg \cup {Garbage}]]
        BY <2>2 DEF Inv, TypeOK
      <4>2. /\ d # c => active'[d] = active[d]
            /\ active'[c][j] = active[c][j + 1] /\ active'[c][j + 1] = active[c][j]
            /\ \A l \in Slots : l # j /\ l # j + 1 => active'[c][l] = active[c][l]
        BY <3>2, <4>1, <2>2
      <4>3. Cells(c) \subseteq Slots
        BY <2>2, ClassAssumption, SMTT(30) DEF Inv, TypeOK, Slots
      <4> QED
        BY <4>2, <4>3, <2>2
    <3> QED
      BY <2>1, <3>1, <3>2
  <2>4. \A d \in Class : \A x \in used[d] : \E l \in Cells(d) : hardNum[active[d][l]] = x
    BY <2>1 DEF UsedOK, Scanning
  <2> QED
    BY <2>1, <2>3, <2>4 DEF UsedOK
<1>8. CASE SortPass \/ UNCHANGED vars
  BY <1>8 DEF SortPass, UsedOK, Scanning, vars
<1>9. CASE FinishScan \/ RewriteOperand \/ RewriteDone
  BY <1>9 DEF FinishScan, RewriteOperand, RewriteDone, RewriteFirst, UsedOK, Scanning
<1> QED
  BY <1>1, <1>2, <1>3, <1>4, <1>5, <1>6, <1>7, <1>8, <1>9 DEF Next

-----------------------------------------------------------------------------
\* What the two ways of spilling a register do to the list and to the slots.
LEMMA AssignSlotEffect ==
  ASSUME TypeOK, NEW r \in Reg, AssignSlot(r)
  PROVE  /\ \A x : Listed(x)' <=> x = r \/ Listed(x)
         /\ \A i \in 1..Len(spilled') : spilled'[i] = r \/ (i \in 1..Len(spilled) /\ spilled'[i] = spilled[i])
         /\ slot' = [slot EXCEPT ![r] = SpillBase + spillSize]
         /\ spillSize' = spillSize + WordSize
<1>1. spilled \in Seq(Reg) /\ spilled' = Append(spilled, r)
  BY DEF TypeOK, AssignSlot
<1>2. /\ \A x : (\E i \in 1..Len(spilled') : spilled'[i] = x)
                  <=> x = r \/ (\E i \in 1..Len(spilled) : spilled[i] = x)
      /\ \A i \in 1..Len(spilled') : spilled'[i] = r \/ (i \in 1..Len(spilled) /\ spilled'[i] = spilled[i])
  BY <1>1, ListGrows
<1> QED
  BY <1>2 DEF Listed, AssignSlot

\* The register an eviction spills is an active one of reg's class that may be
\* spilled.
LEMMA Evicted ==
  ASSUME Inv, KindOK, Evict
  PROVE  /\ pc = "expire" /\ reg \in 1..count /\ reg \in Reg /\ regClass[reg] \in Class
         /\ UNCHANGED <<fixed, life, usedNum, used, todo, reg>>
         /\ pc' \in {"next", "sort"}
         /\ \E k \in Victims(regClass[reg]) :
              LET cand == active[regClass[reg]][k] IN
              /\ k \in Cells(regClass[reg])
              /\ cand \in Placed /\ cand \in Reg /\ cand # reg /\ cand \in 1..NumInitial
              /\ ~ infinite[cand] /\ regClass[cand] = regClass[reg]
              /\ regClass' = [regClass EXCEPT ![cand] = NoRegs]
              /\ hardNum' = [hardNum EXCEPT ![reg] = hardNum[cand]]
              /\ AssignSlot(cand)
<1>1. /\ pc = "expire" /\ reg \in 1..count /\ reg \in Reg /\ regClass[reg] \in Class
      /\ UNCHANGED <<fixed, life, usedNum, used, todo, reg>>
      /\ pc' \in {"next", "sort"}
  BY Existing DEF Evict, EnterSort, Inv, ClassesOK, Scanning, Waiting
<1>c. PICK c \in Class : c = regClass[reg]
  BY <1>1
<1>2. PICK k \in Victims(c) :
        /\ regClass' = [regClass EXCEPT ![reg] = regClass[active[c][k]], ![active[c][k]] = NoRegs]
        /\ hardNum' = [hardNum EXCEPT ![reg] = hardNum[active[c][k]]]
        /\ AssignSlot(active[c][k])
  BY <1>c DEF Evict
<1>3. PICK cand : cand = active[c][k]
  OBVIOUS
<1>4. k \in Cells(c)
  BY VictimsActive
<1>5. cand \in Placed /\ regClass[cand] = c
  BY <1>1, <1>3, <1>4 DEF Inv, ActiveOK, Scanning
<1>6. cand \in Reg /\ cand # reg /\ cand \in 1..count
  BY <1>1, <1>5, Existing DEF Placed, Inv
<1>7. ~ infinite[cand]
  BY <1>2, <1>3 DEF Victims, Finite
<1>8. cand \in 1..NumInitial
  BY <1>6, <1>7, InputAssumption, Existing DEF KindOK, Inv
<1>9. regClass' = [regClass EXCEPT ![cand] = NoRegs]
  BY <1>1, <1>2, <1>3, <1>5, <1>6, <1>c DEF Inv, TypeOK
<1> QED
  BY <1>1, <1>2, <1>3, <1>4, <1>5, <1>6, <1>7, <1>8, <1>9, <1>c

-----------------------------------------------------------------------------
\* Only registers of the instruction selection are spilled; the error of
\* addIntervalsForSpills is out of reach.
LEMMA KindStep == ASSUME Inv, KindOK, [Next]_vars PROVE KindOK'
<1> USE DEF life, place
<1>1. CASE Evict
  <2>1. PICK cand \in Reg : cand \in 1..NumInitial /\ AssignSlot(cand)
    BY <1>1, Evicted
  <2>2. UNCHANGED <<infinite, count>> /\ pc' # "fatal"
    BY <1>1, Evicted
  <2>3. \A i \in 1..Len(spilled') : spilled'[i] = cand \/ (i \in 1..Len(spilled) /\ spilled'[i] = spilled[i])
    BY <2>1, AssignSlotEffect DEF Inv
  <2> QED
    BY <2>1, <2>2, <2>3, InputAssumption DEF KindOK
<1>2. CASE SpillSelf
  <2>1. UNCHANGED <<infinite, count>> /\ pc' # "fatal"
    BY <1>2 DEF SpillSelf
  <2>2. CASE infinite[reg]
    BY <1>2, <2>1, <2>2 DEF SpillSelf, KindOK
  <2>3. CASE ~ infinite[reg]
    <3>1. reg \in Reg /\ reg \in 1..count /\ AssignSlot(reg)
      BY <1>2, <2>3, Existing DEF SpillSelf, Inv, ClassesOK
    <3>2. \A i \in 1..Len(spilled') : spilled'[i] = reg \/ (i \in 1..Len(spilled) /\ spilled'[i] = spilled[i])
      BY <3>1, AssignSlotEffect DEF Inv
    <3>3. reg =< NumInitial
      BY <2>3, <3>1, InputAssumption DEF KindOK, Reg
    <3> QED
      BY <2>1, <3>2, <3>3, InputAssumption DEF KindOK
  <2> QED
    BY <2>2, <2>3
<1>3. CASE FinishScan
  <2>1. UNCHANGED <<infinite, count, spilled>>
        /\ pc' = IF spilled = <<>> THEN "done" ELSE RewriteFirst(spilled)
    BY <1>3 DEF FinishScan
  <2>2. spilled # <<>> => ~ infinite[Head(spilled)]
    <3> SUFFICES ASSUME spilled # <<>> PROVE ~ infinite[Head(spilled)]
      OBVIOUS
    <3>1. spilled \in Seq(Reg) /\ 1 \in 1..Len(spilled) /\ Head(spilled) = spilled[1]
      BY ListShrinks DEF Inv, TypeOK
    <3>2. spilled[1] \in 1..count /\ spilled[1] =< NumInitial
      BY <3>1 DEF Inv, SpilledOK, KindOK
    <3> QED
      BY <3>1, <3>2, InputAssumption, Existing DEF KindOK, Inv
  <2> QED
    BY <2>1, <2>2 DEF RewriteFirst, KindOK
<1>4. CASE RewriteDone
  <2>1. /\ UNCHANGED <<infinite, count>> /\ spilled # <<>> /\ spilled' = Tail(spilled)
        /\ pc' = RewriteFirst(spilled')
    BY <1>4 DEF RewriteDone
  <2>2. /\ spilled' \in Seq(Reg)
        /\ \A i \in 1..Len(spilled') : i + 1 \in 1..Len(spilled) /\ spilled'[i] = spilled[i + 1]
    BY <2>1, ListShrinks DEF Inv, TypeOK
  <2>3. \A i \in 1..Len(spilled') : spilled'[i] \in 1..count /\ spilled'[i] =< NumInitial
    BY <2>2 DEF Inv, SpilledOK, KindOK
  <2>4. spilled' # <<>> => ~ infinite[Head(spilled')]
    <3> SUFFICES ASSUME spilled' # <<>> PROVE ~ infinite[Head(spilled')]
      OBVIOUS
    <3>1. 1 \in 1..Len(spilled') /\ Head(spilled') = spilled'[1]
      BY <2>2, ListShrinks
    <3> QED
      BY <2>3, <3>1, InputAssumption, Existing DEF KindOK, Inv
  <2> QED
    BY <2>1, <2>3, <2>4 DEF RewriteFirst, KindOK
<1>5. CASE RewriteOperand
  <2>1. /\ count' = count + 1 /\ count + 1 \in Reg
        /\ infinite' = [infinite EXCEPT ![count + 1] = TRUE]
        /\ UNCHANGED <<spilled, pc>>
    BY <1>5, Existing, InputAssumption DEF RewriteOperand, Inv, TypeOK, Reg
  <2>2. \A r \in 1..(count + 1) : infinite'[r] <=> r > NumInitial
    <3>1. \A r \in 1..(count + 1) : r \in Reg /\ (r = count + 1 \/ r \in 1..count)
      BY <2>1, Existing DEF Reg, Inv
    <3>2. count + 1 > NumInitial
      BY Existing, InputAssumption DEF KindOK, Inv
    <3> QED
      BY <2>1, <3>1, <3>2 DEF KindOK, Inv, TypeOK
  <2> QED
    BY <2>1, <2>2, Existing, InputAssumption DEF KindOK, Inv
<1>6. CASE StartRound \/ NextReg \/ ExpireOld \/ Allocate \/ SortStep \/ SortPass \/ UNCHANGED vars
  <2>1. UNCHANGED <<infinite, count, spilled>> /\ (pc' # pc => pc' \in {"next", "expire", "sort"})
    BY <1>6 DEF StartRound, NextReg, ExpireOld, Allocate, SortStep, SortPass, EnterSort, vars
  <2> QED
    BY <2>1 DEF KindOK
<1> QED
  BY <1>1, <1>2, <1>3, <1>4, <1>5, <1>6 DEF Next

-----------------------------------------------------------------------------
\* In a round a register loses its class only by being listed.
LEMMA VisitedStep == ASSUME Inv, VisitedOK, KindOK, [Next]_vars PROVE VisitedOK'
<1> USE DEF life, place
<1>1. CASE StartRound
  <2>1. /\ pc' = "next" /\ UNCHANGED <<count, rclass>>
        /\ regClass' = [r \in Reg |-> IF r =< count THEN rclass[r] ELSE NoRegs]
    BY <1>1 DEF StartRound
  <2>2. \A r \in 1..count : regClass'[r] = rclass[r]
    BY <2>1, Existing DEF Inv
  <2> QED
    BY <2>1, <2>2 DEF VisitedOK
<1>2. CASE Evict
  <2>1. PICK cand \in Reg : /\ AssignSlot(cand) /\ regClass' = [regClass EXCEPT ![cand] = NoRegs]
                            /\ pc = "expire" /\ pc' \in {"next", "sort"}
                            /\ UNCHANGED <<count, rclass>>
    BY <1>2, Evicted
  <2>2. \A x : Listed(x)' <=> x = cand \/ Listed(x)
    BY <2>1, AssignSlotEffect DEF Inv
  <2>3. \A r \in 1..count : r # cand => regClass'[r] = regClass[r]
    BY <2>1, Existing DEF Inv, TypeOK
  <2> QED
    BY <2>1, <2>2, <2>3 DEF VisitedOK, Scanning
<1>3. CASE SpillSelf
  <2>1. pc = "expire" /\ UNCHANGED <<count, rclass>>
    BY <1>3 DEF SpillSelf
  <2>2. CASE infinite[reg]
    BY <1>3, <2>2 DEF SpillSelf, VisitedOK, Scanning
  <2>3. CASE ~ infinite[reg]
    <3>1. reg \in Reg /\ AssignSlot(reg) /\ pc' = "next"
          /\ regClass' = [regClass EXCEPT ![reg] = NoRegs]
      BY <1>3, <2>3, Existing DEF SpillSelf, Inv, ClassesOK
    <3>2. \A x : Listed(x)' <=> x = reg \/ Listed(x)
      BY <3>1, AssignSlotEffect DEF Inv
    <3>3. \A r \in 1..count : r # reg => regClass'[r] = regClass[r]
      BY <3>1, Existing DEF Inv, TypeOK
    <3> QED
      BY <2>1, <3>1, <3>2, <3>3 DEF VisitedOK, Scanning
  <2> QED
    BY <2>2, <2>3
<1>4. CASE FinishScan
  <2>1. /\ pc = "next" /\ todo = {} /\ UNCHANGED <<count, rclass, regClass, spilled, todo>>
        /\ pc' = "done" => spilled = <<>>
        /\ pc' \notin {"next", "expire", "sort"}
    BY <1>4 DEF FinishScan, RewriteFirst
  <2> QED
    BY <2>1 DEF VisitedOK, Scanning, Listed
<1>5. CASE RewriteOperand \/ RewriteDone
  <2>1. pc' \notin {"next", "expire", "sort", "done"}
    BY <1>5 DEF RewriteOperand, RewriteDone, RewriteFirst
  <2> QED
    BY <2>1 DEF VisitedOK, Scanning
<1>6. CASE NextReg \/ ExpireOld \/ Allocate \/ SortStep \/ SortPass
  <2>1. /\ pc \in {"next", "expire", "sort"} /\ pc' \in {"next", "expire", "sort"}
        /\ UNCHANGED <<count, rclass, regClass, spilled>>
    BY <1>6 DEF NextReg, ExpireOld, Allocate, SortStep, SortPass, EnterSort
  <2> QED
    BY <2>1 DEF VisitedOK, Scanning, Listed
<1>7. CASE UNCHANGED vars
  BY <1>7 DEF vars, VisitedOK, Scanning, Listed
<1> QED
  BY <1>1, <1>2, <1>3, <1>4, <1>5, <1>6, <1>7 DEF Next

\* A spilled register gets the slot above all the others.
LEMMA SlotGiven ==
  ASSUME Inv, SlotOK, NEW v \in 1..NumInitial, AssignSlot(v), UNCHANGED ops
  PROVE  SlotOK'
<1>1. /\ v \in Reg /\ 1..NumInitial \subseteq Reg
      /\ SpillBase \in Int /\ spillSize \in Int /\ WordSize > 0 /\ WordSize \in Int
      /\ slot \in [Reg -> Int]
  BY InputAssumption DEF Inv, TypeOK, Reg
<1>2. /\ \A x : Listed(x)' <=> x = v \/ Listed(x)
      /\ slot' = [slot EXCEPT ![v] = SpillBase + spillSize]
      /\ spillSize' = spillSize + WordSize
  BY <1>1, AssignSlotEffect DEF Inv
<1>3. \A r \in 1..NumInitial : slot'[r] = IF r = v THEN SpillBase + spillSize ELSE slot[r]
  BY <1>1, <1>2
<1>4. \A r \in 1..NumInitial : slot[r] \in Int /\ (slot[r] # -1 => slot[r] < SpillBase + spillSize)
  BY <1>1 DEF SlotOK
<1>5. SpillBase + spillSize \in Nat
  BY InputAssumption DEF Inv, TypeOK
<1>6. \A r \in 1..NumInitial :
        slot'[r] = -1 \/ (SpillBase =< slot'[r] /\ slot'[r] < SpillBase + spillSize')
  <2> SUFFICES ASSUME NEW r \in 1..NumInitial
               PROVE  slot'[r] = -1 \/ (SpillBase =< slot'[r] /\ slot'[r] < SpillBase + spillSize')
    OBVIOUS
  <2>1. spillSize >= 0
    BY DEF Inv, TypeOK
  <2>2. CASE r = v
    BY <2>1, <2>2, <1>1, <1>2, <1>3
  <2>3. CASE r # v
    BY <2>1, <2>3, <1>1, <1>2, <1>3 DEF SlotOK
  <2> QED
    BY <2>2, <2>3
<1>7. \A r, s \in 1..NumInitial : r # s /\ slot'[r] # -1 => slot'[r] # slot'[s]
  <2> SUFFICES ASSUME NEW r \in 1..NumInitial, NEW s \in 1..NumInitial, r # s, slot'[r] # -1,
                      slot'[r] = slot'[s]
               PROVE  FALSE
    OBVIOUS
  <2>1. CASE r = v
    BY <2>1, <1>3, <1>4, <1>5, <1>1
  <2>2. CASE s = v
    BY <2>2, <1>3, <1>4, <1>5, <1>1
  <2>3. CASE r # v /\ s # v
    BY <2>3, <1>3 DEF SlotOK
  <2> QED
    BY <2>1, <2>2, <2>3
<1>8. \A r \in 1..NumInitial : slot'[r] # -1 => ops'[r] = {} \/ Listed(r)'
  BY <1>2, <1>3 DEF SlotOK
<1> QED
  BY <1>6, <1>7, <1>8 DEF SlotOK

\* Slots stay distinct, and every spilled register stays listed until its
\* operands are rewritten.
LEMMA SlotStep == ASSUME Inv, KindOK, SlotOK, [Next]_vars PROVE SlotOK'
<1> USE DEF life, place
<1>1. CASE Evict
  <2>1. PICK cand \in 1..NumInitial : AssignSlot(cand)
    BY <1>1, Evicted
  <2>2. UNCHANGED ops
    BY <1>1 DEF Evict
  <2> QED
    BY <2>1, <2>2, SlotGiven
<1>2. CASE SpillSelf
  <2>1. CASE infinite[reg]
    BY <1>2, <2>1 DEF SpillSelf, SlotOK, Listed
  <2>2. CASE ~ infinite[reg]
    <3>1. reg \in 1..count /\ AssignSlot(reg) /\ UNCHANGED ops
      BY <1>2, <2>2 DEF SpillSelf, Inv, ClassesOK
    <3>2. reg \in 1..NumInitial
      BY <2>2, <3>1, Existing, InputAssumption DEF KindOK, Inv
    <3> QED
      BY <3>1, <3>2, SlotGiven
  <2> QED
    BY <2>1, <2>2
<1>3. CASE RewriteOperand
  <2>1. /\ spilled # <<>> /\ count' = count + 1 /\ count + 1 \in Reg
        /\ spilled' = spilled /\ spillSize' = spillSize
    BY <1>3, Existing, InputAssumption DEF RewriteOperand, Inv, TypeOK, Reg
  <2>2. PICK v : v = Head(spilled)
    OBVIOUS
  <2>3. \E o \in ops[v] : /\ slot' = [slot EXCEPT ![count + 1] = slot[v]]
                          /\ ops' = [ops EXCEPT ![v] = ops[v] \ {o}, ![count + 1] = {o}]
    BY <1>3, <2>2 DEF RewriteOperand
  <2>4. \A r \in 1..NumInitial : r \in Reg /\ r # count + 1
    BY <2>1, Existing, InputAssumption DEF KindOK, Reg, Inv
  <2>5. \A r \in 1..NumInitial : slot'[r] = slot[r] /\ ops'[r] \subseteq ops[r]
    <3>1. slot \in [Reg -> Int] /\ DOMAIN ops = Reg
      BY DEF Inv, TypeOK
    <3>2. PICK o : /\ slot' = [slot EXCEPT ![count + 1] = slot[v]]
                   /\ ops' = [ops EXCEPT ![v] = ops[v] \ {o}, ![count + 1] = {o}]
      BY <2>3
    <3>3. PICK n : n = count + 1 /\ slot' = [slot EXCEPT ![n] = slot[v]]
                   /\ ops' = [ops EXCEPT ![v] = ops[v] \ {o}, ![n] = {o}]
      BY <3>2
    <3>4. ASSUME NEW r \in 1..NumInitial PROVE slot'[r] = slot[r] /\ ops'[r] \subseteq ops[r]
      <4>1. r \in DOMAIN slot /\ r \in DOMAIN ops /\ r # n
        BY <2>4, <3>1, <3>3
      <4> QED
        BY <3>3, <4>1
    <3> QED
      BY <3>4
  <2> QED
    BY <2>1, <2>5 DEF SlotOK, Listed
<1>4. CASE RewriteDone
  <2>1. /\ spilled # <<>> /\ ops[Head(spilled)] = {} /\ spilled' = Tail(spilled)
        /\ UNCHANGED <<slot, ops, spillSize>>
    BY <1>4 DEF RewriteDone
  <2>2. \A x : Listed(x) <=> x = Head(spilled) \/ Listed(x)'
    <3>1. \A x : (\E i \in 1..Len(spilled) : spilled[i] = x)
                   <=> x = Head(spilled) \/ (\E i \in 1..Len(spilled') : spilled'[i] = x)
      <4>1. spilled \in Seq(Reg)
        BY DEF Inv, TypeOK
      <4> QED
        BY <2>1, <4>1, TailMembers
    <3> QED
      BY <3>1 DEF Listed
  <2> QED
    BY <2>1, <2>2 DEF SlotOK
<1>5. CASE StartRound \/ NextReg \/ ExpireOld \/ Allocate \/ SortStep \/ SortPass \/ FinishScan
            \/ UNCHANGED vars
  <2>1. UNCHANGED <<slot, ops, spilled, spillSize>>
    BY <1>5 DEF StartRound, NextReg, ExpireOld, Allocate, SortStep, SortPass, FinishScan, vars
  <2> QED
    BY <2>1 DEF SlotOK, Listed
<1> QED
  BY <1>1, <1>2, <1>3, <1>4, <1>5 DEF Next

-----------------------------------------------------------------------------
\* What a step does to a placed register: it keeps its hard register, or it is the
\* register being visited, which gets a hard register free over its whole range or
\* the one of a spillable register that begins no later.
Keeps(r) == /\ r \in Placed /\ hardNum'[r] = hardNum[r]
            /\ begin'[r] = begin[r] /\ end'[r] = end[r] /\ infinite'[r] = infinite[r]

Inherits(r) ==
  /\ r = reg /\ UNCHANGED <<begin, end, infinite>> /\ regClass[r] \in Class
  /\ Evict
  /\ \E k \in Victims(regClass[r]) :
       LET cand == active[regClass[r]][k] IN
       /\ cand \in Placed /\ ~ infinite[cand]
       /\ hardNum'[r] = hardNum[cand] /\ begin[cand] =< begin[r]

\* How a step leaves an interval that has its register: as it was, as the one just
\* placed, or as the part of a split interval that inherits the place.
LEMMA PlacedStep ==
  ASSUME Inv, KindOK, OrderOK, [Next]_vars, NEW r \in Placed'
  PROVE  /\ fixed' = fixed
         /\ \/ Keeps(r)
            \/ r = reg /\ UNCHANGED <<begin, end, infinite>> /\ ~ Blocked(hardNum'[r], r)
            \/ Inherits(r)
<1> USE DEF life, place
<1>0. fixed' = fixed
  BY DEF Next, StartRound, NextReg, ExpireOld, Allocate, Evict, SpillSelf, SortStep, SortPass,
         FinishScan, RewriteOperand, RewriteDone, vars
<1>1. CASE StartRound
  BY <1>1 DEF StartRound, Placed
<1>2. CASE NextReg \/ ExpireOld \/ SortStep \/ SortPass \/ FinishScan \/ UNCHANGED vars
  <2>1. /\ UNCHANGED <<hardNum, begin, end, infinite, count, regClass>>
        /\ \/ pc = "next" /\ pc' = "expire" /\ todo' = todo \ {reg'}
           \/ todo' = todo /\ pc' = pc /\ reg' = reg
           \/ todo' = todo /\ pc # "expire" /\ pc # "undefined"
    BY <1>2 DEF NextReg, ExpireOld, SortStep, SortPass, FinishScan, RewriteFirst, vars
  <2>2. r \in Placed
    BY <2>1 DEF Placed
  <2> QED
    BY <1>0, <2>1, <2>2 DEF Keeps
<1>3. CASE Allocate
  <2>1. /\ pc = "expire" /\ UNCHANGED <<begin, end, infinite, count, regClass, todo, reg>>
        /\ reg \in Reg
    BY <1>3, Existing DEF Allocate, Inv, ClassesOK
  <2>2. PICK h \in Free(regClass[reg]) : hardNum' = [hardNum EXCEPT ![reg] = h]
    BY <1>3 DEF Allocate
  <2>3. r \in Reg
    BY <2>1, Existing DEF Placed, Inv
  <2>4. CASE r = reg
    BY <2>1, <2>2, <2>4, <1>0 DEF Free, Inv, TypeOK
  <2>5. CASE r # reg
    BY <2>1, <2>2, <2>3, <2>5, <1>0 DEF Keeps, Placed, Inv, TypeOK
  <2> QED
    BY <2>4, <2>5
<1>4. CASE Evict
  <2>1. /\ pc = "expire" /\ UNCHANGED <<begin, end, infinite, count, todo, reg>> /\ reg \in Reg
        /\ regClass[reg] \in Class
    BY <1>4, Evicted
  <2>2. PICK k \in Victims(regClass[reg]) :
          LET cand == active[regClass[reg]][k] IN
          /\ cand \in Placed /\ cand \in Reg /\ ~ infinite[cand]
          /\ regClass' = [regClass EXCEPT ![cand] = NoRegs]
          /\ hardNum' = [hardNum EXCEPT ![reg] = hardNum[cand]]
    BY <1>4, Evicted
  <2>3. r \in Reg
    BY <2>1, Existing DEF Placed, Inv
  <2>4. CASE r = reg
    <3>1. begin[active[regClass[reg]][k]] =< begin[reg]
      BY <2>1, <2>2 DEF OrderOK, Scanning
    <3>2. hardNum'[reg] = hardNum[active[regClass[reg]][k]]
      BY <2>1, <2>2 DEF Inv, TypeOK
    <3> QED
      BY <1>0, <1>4, <2>1, <2>2, <2>4, <3>1, <3>2 DEF Inherits
  <2>5. CASE r # reg
    <3>1. r \in Placed
      BY <2>1, <2>2, <2>3, <2>5 DEF Placed, Inv, TypeOK
    <3> QED
      BY <1>0, <2>1, <2>2, <2>3, <2>5, <3>1 DEF Keeps, Inv, TypeOK
  <2> QED
    BY <2>4, <2>5
<1>5. CASE SpillSelf
  <2>1. /\ pc = "expire" /\ UNCHANGED <<begin, end, infinite, count, todo, reg, hardNum>>
        /\ reg \in Reg
        /\ \/ pc' = "undefined" /\ regClass' = regClass
           \/ pc' = "next" /\ regClass' = [regClass EXCEPT ![reg] = NoRegs]
    BY <1>5, Existing DEF SpillSelf, Inv, ClassesOK
  <2>2. r \in Reg
    BY <2>1, Existing DEF Placed, Inv
  <2>3. r \in Placed
    BY <2>1, <2>2 DEF Placed, Inv, TypeOK
  <2> QED
    BY <1>0, <2>1, <2>3 DEF Keeps
<1>6. CASE RewriteOperand
  <2>0. PICK v : v = Head(spilled)
    OBVIOUS
  <2>1. /\ count' = count + 1 /\ count \in Nat /\ count + 1 \in Reg
        /\ UNCHANGED <<regClass, hardNum, todo, reg, pc>>
        /\ \E o \in ops[v] : /\ begin' = [begin EXCEPT ![count + 1] = PieceBegin(o)]
                  /\ end' = [end EXCEPT ![count + 1] = PieceBegin(o) + 1]
        /\ infinite' = [infinite EXCEPT ![count + 1] = TRUE]
    <3>1. count' = count + 1 /\ count < MaxReg /\ UNCHANGED <<regClass, hardNum, todo, reg, pc>>
      BY <1>6 DEF RewriteOperand
    <3>2. \E o \in ops[v] :
            /\ begin' = [begin EXCEPT ![count + 1] = PieceBegin(o)]
            /\ end' = [end EXCEPT ![count + 1] = PieceBegin(o) + 1]
            /\ infinite' = [infinite EXCEPT ![count + 1] = TRUE]
      BY <1>6, <2>0 DEF RewriteOperand
    <3>3. count \in Nat /\ count + 1 \in Reg
      BY <3>1, Existing, InputAssumption DEF Inv, Reg
    <3> QED
      BY <3>1, <3>2, <3>3
  <2>2. regClass[count + 1] = NoRegs
    BY <2>1 DEF Inv, ClassesOK
  <2>3. r \in 1..(count + 1) /\ r # count + 1
    BY <2>1, <2>2 DEF Placed
  <2>4. r \in 1..count /\ r \in Reg
    BY <2>1, <2>3, Existing DEF Inv
  <2>5. r \in Placed
    BY <2>1, <2>4 DEF Placed
  <2> QED
    BY <1>0, <2>1, <2>3, <2>4, <2>5 DEF Keeps, Inv, TypeOK
<1>7. CASE RewriteDone
  <2>1. /\ spilled # <<>> /\ pc = "rewrite"
        /\ UNCHANGED <<regClass, hardNum, todo, reg, count, infinite>>
        /\ begin' = [begin EXCEPT ![Head(spilled)] = 0]
        /\ end' = [end EXCEPT ![Head(spilled)] = 0]
    BY <1>7 DEF RewriteDone
  <2>2. spilled \in Seq(Reg) /\ 1 \in 1..Len(spilled) /\ Head(spilled) = spilled[1]
    BY <2>1, ListShrinks DEF Inv, TypeOK
  <2>3. regClass[Head(spilled)] = NoRegs
    BY <2>2 DEF Inv, SpilledOK
  <2>4. r \in Placed /\ r \in Reg
    BY <2>1, Existing DEF Placed, Inv
  <2>5. r # Head(spilled)
    BY <2>3, <2>4 DEF Placed
  <2> QED
    BY <1>0, <2>1, <2>4, <2>5 DEF Keeps, Inv, TypeOK
<1> QED
  BY <1>1, <1>2, <1>3, <1>4, <1>5, <1>6, <1>7 DEF Next

\* Registers are placed in the order of their beginnings.
LEMMA OrderStep == ASSUME Inv, KindOK, OrderOK, [Next]_vars PROVE OrderOK'
<1> USE DEF life, place
<1> SUFFICES ASSUME Scanning', NEW r \in Placed'
             PROVE  reg' # Garbage /\ begin'[r] =< begin'[reg']
  BY DEF OrderOK
<1>1. CASE StartRound
  BY <1>1 DEF StartRound, Placed
<1>2. CASE NextReg
  <2>1. /\ reg' \in todo /\ pc = "next" /\ UNCHANGED begin
    BY <1>2 DEF NextReg
  <2>2. r \in Placed
    <3>1. todo' = todo \ {reg'} /\ pc' = "expire" /\ UNCHANGED <<count, regClass>>
      BY <1>2 DEF NextReg
    <3> QED
      BY <2>1, <3>1 DEF Placed
  <2>3. reg # Garbage /\ begin[r] =< begin[reg]
    BY <2>1, <2>2 DEF OrderOK, Scanning
  <2>4. reg \in Reg /\ begin[reg] =< begin[reg'] /\ reg' \in Reg /\ r \in Reg
    <3>1. reg' \in Reg /\ r \in Reg
      BY <2>1, <2>2, Existing DEF Inv, Placed
    <3> QED
      BY <2>1, <2>3, <3>1 DEF Inv, PositionOK, Scanning
  <2>5. begin[r] \in Nat /\ begin[reg] \in Nat /\ begin[reg'] \in Nat /\ reg' # Garbage
    BY <2>4, Existing DEF Inv, TypeOK, Pos
  <2> QED
    BY <2>1, <2>3, <2>4, <2>5
<1>3. CASE ~ StartRound /\ ~ NextReg
  <2>1. reg' = reg /\ begin' = begin /\ Scanning
    BY <1>3 DEF Next, ExpireOld, Allocate, Evict, SpillSelf, SortStep, SortPass, FinishScan,
                RewriteOperand, RewriteDone, RewriteFirst, vars, Scanning
  <2>2. r \in Placed \/ r = reg
    BY PlacedStep DEF Keeps, Inherits
  <2>3. r \in Reg
    <3>1. TypeOK' /\ r \in 1..count'
      BY NextInv DEF Inv, Placed
    <3>2. count' \in 0..MaxReg
      BY <3>1 DEF TypeOK
    <3> QED
      BY <3>1, <3>2, InputAssumption DEF Reg
  <2>4. reg # Garbage
    <3>1. CASE r \in Placed
      BY <2>1, <3>1 DEF OrderOK
    <3>2. CASE r = reg
      BY <2>3, <3>2, Existing DEF Inv
    <3> QED
      BY <2>2, <3>1, <3>2
  <2>5. begin[r] =< begin[reg]
    BY <2>1, <2>2, <2>3 DEF OrderOK, Inv, TypeOK, Pos
  <2> QED
    BY <2>1, <2>4, <2>5
<1> QED
  BY <1>1, <1>2, <1>3

\* Before the scan nothing is placed, spilled or listed.
LEMMA MoreInit == Init => More
<1> SUFFICES ASSUME Init PROVE More
  OBVIOUS
<1>1. UsedOK
  BY DEF Init, UsedOK
<1>2. KindOK
  <2>1. \A r \in 1..count : r \in Reg /\ ~ (r > NumInitial)
    BY InputAssumption DEF Init, Reg
  <2> QED
    BY <2>1, InputAssumption DEF Init, KindOK
<1>3. VisitedOK /\ OrderOK
  BY DEF Init, VisitedOK, OrderOK, Scanning
<1>4. SlotOK
  <2>1. \A r \in 1..NumInitial : r \in Reg
    BY InputAssumption DEF Reg
  <2> QED
    BY <2>1 DEF Init, SlotOK
<1> QED
  BY <1>1, <1>2, <1>3, <1>4 DEF More

\* Inv and what it lacks about lists, slots and the order of the scan hold in every
\* state of a run: each step of the scan, of NextReg and of the spilling preserves them.
THEOREM MoreInvariance == Spec => [](Inv /\ More)
<1>1. Inv /\ More /\ [Next]_vars => (Inv /\ More)'
  BY NextInv, UsedStep, KindStep, VisitedStep, SlotStep, OrderStep DEF More
<1> QED
  BY <1>1, InitInv, MoreInit, PTL DEF Spec

\* The three records of the occupied registers agree.
LEMMA Accounts == ASSUME Inv, More PROVE Accounting
<1> SUFFICES ASSUME Scanning, NEW c \in Class
             PROVE  /\ used[c] = {hardNum[active[c][k]] : k \in Cells(c)}
                    /\ Cardinality(used[c]) = usedNum[c]
  BY DEF Accounting, Scanning, Cells
<1> DEFINE f == [k \in Cells(c) |-> hardNum[active[c][k]]]
<1>1. \A k \in Cells(c) : hardNum[active[c][k]] \in used[c]
  BY DEF Inv, ActiveOK
<1>2. \A h \in used[c] : \E k \in Cells(c) : hardNum[active[c][k]] = h
  BY DEF More, UsedOK
<1>3. \A k, l \in Cells(c) : hardNum[active[c][k]] = hardNum[active[c][l]] => k = l
  BY DEF Inv, ActiveOK
<1>4. used[c] = {hardNum[active[c][k]] : k \in Cells(c)}
  BY <1>1, <1>2
<1>5. f \in Injection(Cells(c), used[c]) /\ f \in Surjection(Cells(c), used[c])
  BY <1>1, <1>2, <1>3 DEF Injection, Surjection, IsInjective
<1>6. usedNum[c] \in Nat
  BY ClassAssumption DEF Inv, TypeOK
<1>7. IsFiniteSet(Cells(c)) /\ Cardinality(Cells(c)) = usedNum[c]
  BY <1>6, FS_Interval, SMTT(30) DEF Cells
<1>8. Cardinality(used[c]) = Cardinality(Cells(c))
  <2> HIDE DEF f
  <2> QED
    BY <1>5, <1>7, FS_Surjection
<1> QED
  BY <1>4, <1>7, <1>8

\* try_alloc_reg, free_reg and spill_at_interval keep the bitmap, the counter and
\* the array of a class in step: the first used_num entries of `active' hold exactly
\* the hard registers marked in `used', each once.
THEOREM AccountingHolds == Spec => []Accounting
BY Accounts, MoreInvariance, PTL

\* When linear_scan_regalloc returns, every register has a hard register of the class
\* instruction selection asked for, no two spilled registers share a stack slot, and
\* nothing in the code names a spilled register any more.
THEOREM CompletedHolds == Spec => []Completed
<1>1. ASSUME Inv, More, pc = "done" PROVE Completed
  <2>1. \A r \in 1..count : regClass[r] = rclass[r] /\ rclass[r] \in Class
    BY <1>1 DEF More, VisitedOK, Listed, Inv, ClassesOK
  <2>2. \A r \in 1..count : r \in Placed
    BY <1>1, <2>1, ClassAssumption DEF Placed, More, VisitedOK
  <2>3. \A r \in 1..count : hardNum[r] \in HardOf(rclass[r])
    BY <1>1, <2>1, <2>2 DEF Inv, HardOK
  <2>4. \A r \in 1..NumInitial : ~ Listed(r)
    BY <1>1 DEF More, VisitedOK, Listed
  <2>5. /\ \A r, s \in 1..NumInitial : r # s /\ slot[r] # -1 => slot[r] # slot[s]
        /\ \A r \in 1..NumInitial : slot[r] # -1 => ops[r] = {}
    BY <1>1, <2>4 DEF More, SlotOK
  <2> QED
    BY <2>1, <2>3, <2>5 DEF Completed
<1>2. Inv /\ More => Completed
  BY <1>1 DEF Completed
<1> QED
  BY <1>2, MoreInvariance, PTL

\* addIntervalsForSpills never meets an unspillable register: its error exit "attempt
\* to spill already spilled interval!" is dead.
THEOREM NeverFatal == Spec => [](pc # "fatal")
<1>1. More => pc # "fatal"
  BY DEF More, KindOK
<1> QED
  BY <1>1, MoreInvariance, PTL

-----------------------------------------------------------------------------
\* No register that may be spilled for r ends before r does.
Covering(r) == \A k \in Victims(regClass[r]) : end[r] =< end[active[regClass[r]][k]]

\* No call or explicit operand destroys a register the program came with.
SpillableRespected == \A r \in Placed : ~ infinite[r] => ~ Blocked(hardNum[r], r)

\* A range inside another one meets no fixed interval the other one does not meet.
LEMMA NarrowerRange ==
  ASSUME TypeOK, NEW r \in Reg, NEW s \in Reg, NEW h \in Hard, ~ Blocked(h, s),
         begin[s] =< begin[r], end[r] =< end[s]
  PROVE  ~ Blocked(h, r)
<1> SUFFICES ASSUME NEW g \in fixed[h], Overlap(g[1], g[2], begin[r], end[r]) PROVE FALSE
  BY DEF Blocked
<1>1. g[1] \in Nat /\ g[2] \in Nat
  <2>1. fixed[h] \in SUBSET LiveRange
    BY DEF TypeOK
  <2>2. g \in LiveRange
    BY <2>1
  <2> QED
    BY <2>2 DEF LiveRange, Pos
<1>2. begin[s] \in Nat /\ begin[r] \in Nat /\ end[s] \in Nat /\ end[r] \in Nat
  BY DEF TypeOK, Pos
<1>3. Overlap(g[1], g[2], begin[s], end[s])
  BY <1>1, <1>2 DEF Overlap
<1> QED
  BY <1>3 DEF Blocked

\* The first two loops of spill_at_interval only take a register that outlives r.
LEMMA OutlivingCovers ==
  ASSUME Inv, Scanning, regClass[reg] \in Class, reg \in Reg,
         Victims(regClass[reg]) \subseteq Outliving(regClass[reg])
  PROVE  Covering(reg)
<1> SUFFICES ASSUME NEW k \in Victims(regClass[reg])
             PROVE  end[reg] =< end[active[regClass[reg]][k]]
  BY DEF Covering
<1>1. k \in Cells(regClass[reg]) /\ k \in Nat /\ k \in Outliving(regClass[reg])
  BY DEF Outliving, Cells
<1>2. active[regClass[reg]][k] \in Reg
  <2>1. active[regClass[reg]][k] \in 1..count
    BY <1>1 DEF Inv, ActiveOK, Placed
  <2> QED
    BY <2>1, Existing DEF Inv
<1>3. end[active[regClass[reg]][k]] > end[reg]
  <2>1. k \in 0..k
    BY <1>1
  <2> QED
    BY <1>1, <2>1 DEF Outliving
<1>4. end[active[regClass[reg]][k]] \in Nat /\ end[reg] \in Nat
  BY <1>2 DEF Inv, TypeOK, Pos
<1> QED
  BY ONLY <1>3, <1>4

\* A register that inherits the place of one that covers it is as safe there.
LEMMA InheritedPlace ==
  ASSUME Inv, SpillableRespected, fixed' = fixed, NEW r \in Reg, Inherits(r),
         Covering(r)
  PROVE  ~ Blocked(hardNum'[r], r)
<1>1. PICK k \in Victims(regClass[r]) :
        LET cand == active[regClass[r]][k] IN
        /\ cand \in Placed /\ ~ infinite[cand]
        /\ hardNum'[r] = hardNum[cand] /\ begin[cand] =< begin[r]
  BY DEF Inherits
<1>2. PICK cand : cand = active[regClass[r]][k]
  OBVIOUS
<1>3. /\ cand \in Placed /\ hardNum'[r] = hardNum[cand] /\ begin[cand] =< begin[r]
      /\ ~ Blocked(hardNum[cand], cand)
  BY <1>1, <1>2 DEF SpillableRespected
<1>4. r = reg /\ end[r] =< end[cand]
  BY <1>2 DEF Inherits, Covering
<1>5. cand \in Reg /\ hardNum[cand] \in Hard
  <2>1. cand \in Reg /\ regClass[cand] \in Class /\ hardNum[cand] \in HardOf(regClass[cand])
    BY <1>3, Existing DEF Inv, Placed, HardOK, TypeOK
  <2> QED
    BY <2>1 DEF Hard
<1> QED
  BY <1>3, <1>4, <1>5, NarrowerRange DEF Inv

\* A spillable register is only given a hard register it may keep all along.
LEMMA SpillableStep ==
  ASSUME Inv, More, SpillableRespected, [Next]_vars PROVE SpillableRespected'
<1> SUFFICES ASSUME NEW r \in Placed', ~ infinite'[r] PROVE ~ Blocked(hardNum[r], r)'
  BY DEF SpillableRespected
<1>1. CASE Keeps(r)
  <2>1. fixed' = fixed
    BY PlacedStep DEF More
  <2>2. ~ Blocked(hardNum[r], r)
    BY <1>1 DEF Keeps, SpillableRespected
  <2> QED
    BY <1>1, <2>1, <2>2 DEF Keeps, Blocked
<1>2. CASE r = reg /\ UNCHANGED <<begin, end, infinite>> /\ ~ Blocked(hardNum'[r], r)
  <2>1. fixed' = fixed
    BY PlacedStep DEF More
  <2> QED
    BY <1>2, <2>1 DEF Blocked
<1>3. CASE Inherits(r)
  <2>1. fixed' = fixed /\ r = reg /\ UNCHANGED <<begin, end, infinite>> /\ Evict
    BY <1>3, PlacedStep DEF More, Inherits
  <2>2. r \in Reg
    BY <2>1, Evicted DEF More
  <2>3. Victims(regClass[r]) \subseteq Outliving(regClass[r])
    BY <2>1 DEF Victims, Finite
  <2>4. Covering(r)
    <3>1. regClass[reg] \in Class /\ Scanning
      BY <1>3, <2>1 DEF Inherits, Evict, Scanning
    <3> QED
      BY <2>1, <2>2, <2>3, <3>1, OutlivingCovers
  <2>5. ~ Blocked(hardNum'[r], r)
    BY <1>3, <2>1, <2>2, <2>4, InheritedPlace
  <2> QED
    BY <2>1, <2>5 DEF Blocked
<1> QED
  BY <1>1, <1>2, <1>3, PlacedStep DEF More

\* No register that instruction selection made is ever in a hard register that a call
\* or an explicit operand needs meanwhile: try_alloc_reg looks at the fixed interval,
\* and spill_at_interval only hands over the place of a register that outlives it.
THEOREM SpillableSafe == Spec => []SpillableRespected
<1>1. Init => SpillableRespected
  BY InputAssumption DEF Init, SpillableRespected, Placed, Reg
<1>2. SpillableRespected /\ Inv /\ More /\ [Next]_vars => SpillableRespected'
  BY SpillableStep
<1> QED
  BY <1>1, <1>2, MoreInvariance, PTL DEF Spec

-----------------------------------------------------------------------------
\* The cells of a class are sorted by end, the first two excepted: bubble_sort never
\* makes the pass that would compare just these.  While a class is being sorted, this
\* is so behind the cells still to do.
NoLater(c, k, l) == end[active[c][l]] =< end[active[c][k]]
SortedOK ==
  Scanning =>
    \A c \in Class : \A k, l \in Cells(c) :
      k < l /\ 2 =< l /\ (pc = "sort" /\ c = srt.c => srt.i < l) => NoLater(c, k, l)

\* A pass takes the register that ends first along, and a pass without a change finds
\* all it has passed sorted.
PassOK ==
  pc = "sort" =>
    /\ \A k \in 0..srt.j : NoLater(srt.c, k, srt.j)
    /\ ~ srt.change => \A k, l \in 0..srt.j : k =< l => NoLater(srt.c, k, l)

\* An operand belongs to one register of its class; a piece has one operand and lives
\* where that is.
OperandsOK ==
  /\ fixed \in FixedInputs
  /\ \A r \in 1..count : ops[r] \subseteq Operands(rclass[r])
  /\ \A r, s \in 1..count : r # s => ops[r] \cap ops[s] = {}
  /\ \A r \in 1..count : infinite[r] =>
       \E o \in Operand : /\ ops[r] = {o} /\ begin[r] = PieceBegin(o)
                          /\ end[r] = PieceBegin(o) + 1

-----------------------------------------------------------------------------
\* One comparison of a pass over the numbers f; the one at j is the least so far.
LEMMA Bubble ==
  ASSUME NEW n \in Nat, NEW f \in [0..(n - 1) -> Nat], NEW g \in [0..(n - 1) -> Nat],
         NEW i \in 0..(n - 1), NEW j \in Nat, j < i, \A k \in 0..j : f[j] =< f[k],
         \/ g = [f EXCEPT ![j] = f[j + 1], ![j + 1] = f[j]] /\ f[j] =< f[j + 1]
         \/ g = f /\ f[j + 1] =< f[j]
  PROVE  /\ \A k \in 0..(j + 1) : g[j + 1] =< g[k]
         /\ \A l \in 0..(n - 1) : i < l /\ (\A k \in 0..(l - 1) : f[l] =< f[k])
              => \A k \in 0..(l - 1) : g[l] =< g[k]
<1>1. j \in 0..(n - 1) /\ j + 1 \in 0..(n - 1)
  OBVIOUS
<1>2. \A k \in 0..j : k \in 0..(n - 1) /\ f[k] \in Nat
  OBVIOUS
<1>3. CASE g = f /\ f[j + 1] =< f[j]
  <2>1. \A k \in 0..(j + 1) : k = j + 1 \/ k \in 0..j
    OBVIOUS
  <2>2. \A k \in 0..(j + 1) : g[j + 1] =< g[k]
    BY <1>1, <1>2, <1>3, <2>1
  <2> QED
    BY <1>3, <2>2
<1>4. CASE g = [f EXCEPT ![j] = f[j + 1], ![j + 1] = f[j]] /\ f[j] =< f[j + 1]
  <2>1. /\ g[j] = f[j + 1] /\ g[j + 1] = f[j]
        /\ \A k \in 0..(n - 1) : k # j /\ k # j + 1 => g[k] = f[k]
    BY <1>1, <1>4
  <2>2. \A k \in 0..(j + 1) : k = j + 1 \/ k = j \/ (k \in 0..j /\ k \in 0..(n - 1) /\ k # j /\ k # j + 1)
    BY <1>2
  <2>3. \A k \in 0..(j + 1) : g[j + 1] =< g[k]
    BY <1>1, <1>2, <1>4, <2>1, <2>2
  <2>4. ASSUME NEW l \in 0..(n - 1), i < l, \A k \in 0..(l - 1) : f[l] =< f[k], NEW k \in 0..(l - 1)
        PROVE  g[l] =< g[k]
    <3>1. l # j /\ l # j + 1 /\ j \in 0..(l - 1) /\ j + 1 \in 0..(l - 1) /\ k \in 0..(n - 1)
      BY <1>1, <2>4
    <3>2. g[l] = f[l] /\ (g[k] = f[k] \/ g[k] = f[j] \/ g[k] = f[j + 1])
      BY <2>1, <3>1
    <3> QED
      BY <2>4, <3>1, <3>2
  <2> QED
    BY <2>3, <2>4
<1> QED
  BY <1>3, <1>4

\* What is active lives somewhere.
LEMMA ActiveEnds ==
  ASSUME Inv, Scanning, NEW c \in Class
  PROVE  /\ usedNum[c] \in Nat
         /\ \A k \in Cells(c) : active[c][k] \in Reg /\ end[active[c][k]] \in Nat
<1>1. \A k \in Cells(c) : active[c][k] \in 1..count
  BY DEF Inv, ActiveOK, Placed
<1>2. \A k \in Cells(c) : active[c][k] \in Reg
  BY <1>1, Existing DEF Inv
<1> QED
  BY <1>2, ClassAssumption DEF Inv, TypeOK, Pos

\* The sort of a class begins; its last cell is still to do.
LEMMA SortBegins ==
  ASSUME Inv, Inv', SortedOK, pc = "expire", end' = end, NEW c \in Class,
         EnterSort(c, usedNum'[c]),
         \A d \in Class : d # c => active'[d] = active[d] /\ usedNum'[d] = usedNum[d]
  PROVE  SortedOK' /\ PassOK'
<1>1. usedNum'[c] \in Nat
  BY ClassAssumption DEF Inv, TypeOK
<1>2. \/ /\ pc' = "next" /\ usedNum'[c] - 1 =< 1
      \/ pc' = "sort"
  BY <1>1 DEF EnterSort
<1>3. srt'.c = c /\ srt'.i = usedNum'[c] - 1 /\ srt'.j = 0
  BY DEF EnterSort
<1>4. SortedOK'
  <2> SUFFICES ASSUME NEW d \in Class, NEW k \in Cells(d)', NEW l \in Cells(d)', k < l, 2 =< l,
                      pc' = "sort" /\ d = srt'.c => srt'.i < l
               PROVE  NoLater(d, k, l)'
    BY DEF SortedOK
  <2>1. CASE d # c
    <3>1. k \in Cells(d) /\ l \in Cells(d) /\ Scanning
      BY <2>1 DEF Cells, Scanning
    <3>2. NoLater(d, k, l)
      BY <3>1 DEF SortedOK
    <3> QED
      BY <2>1, <3>2 DEF NoLater
  <2>2. CASE d = c
    BY <1>1, <1>2, <1>3, <2>2 DEF Cells
  <2> QED
    BY <2>1, <2>2
<1>5. PassOK'
  <2> SUFFICES ASSUME pc' = "sort" PROVE NoLater(c, 0, 0)'
    <3>1. \A k \in 0..0 : k = 0
      OBVIOUS
    <3> QED
      BY <1>3, <3>1 DEF PassOK
  <2>1. Scanning' /\ 0 \in Cells(c)'
    BY <1>1, <1>2, <1>3 DEF Scanning, Inv, SortOK, Cells
  <2>2. end'[active'[c][0]] \in Nat
    <3>1. active'[c][0] \in Placed'
      BY <2>1 DEF Inv, ActiveOK
    <3>2. active'[c][0] \in 1..count' /\ count' \in 0..MaxReg
      BY <3>1 DEF Placed, Inv, TypeOK
    <3>3. active'[c][0] \in Reg
      BY <3>2, InputAssumption DEF Reg
    <3> QED
      BY <3>3 DEF Inv, TypeOK, Pos
  <2> QED
    BY <2>2 DEF NoLater
<1> QED
  BY <1>4, <1>5

\* Nothing moves, or cells are given back.
LEMMA CellsStay ==
  ASSUME SortedOK, Scanning, pc # "sort", pc' # "sort", end' = end, active' = active,
         \A c \in Class : Cells(c)' \subseteq Cells(c)
  PROVE  SortedOK' /\ PassOK'
BY DEF SortedOK, PassOK, NoLater

-----------------------------------------------------------------------------
\* One comparison.
LEMMA SortStepSorted ==
  ASSUME Inv, SortedOK, PassOK, SortStep PROVE SortedOK' /\ PassOK'
<1>c. PICK c, i, j : c = srt.c /\ i = srt.i /\ j = srt.j
  OBVIOUS
<1>k. /\ pc = "sort" /\ pc' = "sort" /\ j < i /\ end' = end /\ usedNum' = usedNum
      /\ srt' = [srt EXCEPT !.j = j + 1,
                   !.change = @ \/ EndsBefore(active[c][j], active[c][j + 1])]
      /\ active' = IF EndsBefore(active[c][j], active[c][j + 1])
                   THEN [active EXCEPT ![c] = [active[c] EXCEPT ![j] = active[c][j + 1],
                                                                ![j + 1] = active[c][j]]]
                   ELSE active
  BY <1>c DEF SortStep, life
<1>s. srt'.c = c /\ srt'.i = i /\ srt'.j = j + 1
  BY <1>c, <1>k DEF Inv, TypeOK
<1>t. srt'.change = (srt.change \/ EndsBefore(active[c][j], active[c][j + 1]))
  BY <1>c, <1>k DEF Inv, TypeOK
<1>1. c \in Class /\ i \in Cells(c) /\ j \in Nat
  BY <1>c, <1>k DEF Inv, SortOK, TypeOK
<1>2. /\ usedNum[c] \in Nat
      /\ \A k \in Cells(c) : active[c][k] \in Reg /\ end[active[c][k]] \in Nat
  BY <1>1, <1>k, ActiveEnds DEF Scanning
<1>n. PICK n \in Nat : n = usedNum[c] /\ Cells(c) = 0..(n - 1)
  BY <1>2 DEF Cells
<1>3. j \in 0..(n - 1) /\ j + 1 \in 0..(n - 1) /\ i \in 0..(n - 1)
  <2>1. i \in 0..(n - 1) /\ j \in Nat /\ j < i
    BY <1>1, <1>n, <1>k
  <2> QED
    BY ONLY <2>1
<1>4. Cells(c) \subseteq Slots /\ active[c] \in [Slots -> Reg \cup {Garbage}]
  <2>1. n =< NumPhysicalRegs /\ NumPhysicalRegs \in Nat
    BY <1>1, <1>n, ClassAssumption DEF Inv, TypeOK
  <2>2. 0..(n - 1) \subseteq 0..(NumPhysicalRegs - 1)
    BY ONLY <2>1, n \in Nat
  <2>3. active[c] \in [Slots -> Reg \cup {Garbage}]
    BY <1>1 DEF Inv, TypeOK
  <2> QED
    BY ONLY <1>n, <2>2, <2>3 DEF Slots
<1>5. PICK a, b : a = active[c] /\ b = active'[c]
  OBVIOUS
<1>6. /\ \A d \in Class : d # c => active'[d] = active[d]
      /\ EndsBefore(a[j], a[j + 1]) => b = [a EXCEPT ![j] = a[j + 1], ![j + 1] = a[j]]
      /\ ~ EndsBefore(a[j], a[j + 1]) => b = a
  <2>1. active \in [Class -> [Slots -> Reg \cup {Garbage}]]
    BY DEF Inv, TypeOK
  <2> QED
    BY ONLY <1>1, <1>5, <1>k, <2>1
<1>f. PICK f \in [0..(n - 1) -> Nat] : \A k \in 0..(n - 1) : f[k] = end[a[k]]
  <2>1. [k \in 0..(n - 1) |-> end[a[k]]] \in [0..(n - 1) -> Nat]
    BY <1>2, <1>n, <1>5
  <2> QED
    BY <2>1
<1>7. \A k \in 0..(n - 1) : k \in Slots /\ a[k] \in Reg
  BY <1>2, <1>4, <1>5, <1>n
<1>8. a \in [Slots -> Reg \cup {Garbage}] /\ j \in Slots /\ j + 1 \in Slots
  BY <1>3, <1>4, <1>5, <1>7
<1>g. PICK g \in [0..(n - 1) -> Nat] : \A k \in 0..(n - 1) : g[k] = end[b[k]]
  <2>1. \A k \in 0..(n - 1) : b[k] \in {a[m] : m \in 0..(n - 1)}
    BY ONLY <1>3, <1>6, <1>7, <1>8
  <2>2. \A k \in 0..(n - 1) : end[b[k]] \in Nat
    BY <1>2, <1>5, <1>n, <2>1
  <2>3. [k \in 0..(n - 1) |-> end[b[k]]] \in [0..(n - 1) -> Nat]
    BY <2>2
  <2> QED
    BY <2>3
<1>9. \/ /\ EndsBefore(a[j], a[j + 1])
         /\ g = [f EXCEPT ![j] = f[j + 1], ![j + 1] = f[j]] /\ f[j] =< f[j + 1]
      \/ ~ EndsBefore(a[j], a[j + 1]) /\ b = a /\ g = f /\ f[j + 1] =< f[j]
  <2>1. CASE EndsBefore(a[j], a[j + 1])
    <3>1. /\ b[j] = a[j + 1] /\ b[j + 1] = a[j]
          /\ \A k \in 0..(n - 1) : k # j /\ k # j + 1 => b[k] = a[k]
      BY ONLY <1>6, <1>7, <1>8, <2>1, <1>3
    <3>2. g = [f EXCEPT ![j] = f[j + 1], ![j + 1] = f[j]]
      <4>1. \A k \in 0..(n - 1) : k # j /\ k # j + 1 => g[k] = f[k]
        BY ONLY <1>f, <1>g, <3>1
      <4>2. g[j] = f[j + 1] /\ g[j + 1] = f[j]
        BY ONLY <1>3, <1>f, <1>g, <3>1
      <4>3. j # j + 1
        BY <1>1
      <4> QED
        BY ONLY <1>3, <4>1, <4>2, <4>3, f \in [0..(n - 1) -> Nat], g \in [0..(n - 1) -> Nat]
    <3>3. f[j] =< f[j + 1]
      BY ONLY <1>3, <1>f, <2>1 DEF EndsBefore
    <3> QED
      BY ONLY <2>1, <3>2, <3>3
  <2>2. CASE ~ EndsBefore(a[j], a[j + 1])
    <3>1. b = a
      BY <1>6, <2>2
    <3>2. g = f
      <4>1. \A k \in 0..(n - 1) : g[k] = f[k]
        BY ONLY <1>f, <1>g, <3>1
      <4> QED
        BY ONLY <4>1, f \in [0..(n - 1) -> Nat], g \in [0..(n - 1) -> Nat]
    <3>3. f[j + 1] =< f[j]
      BY ONLY <1>3, <1>f, <2>2 DEF EndsBefore
    <3> QED
      BY ONLY <2>2, <3>1, <3>2, <3>3
  <2> QED
    BY <2>1, <2>2
<1>10. \A k, l \in 0..(n - 1) : /\ NoLater(c, k, l) <=> f[l] =< f[k]
                                /\ NoLater(c, k, l)' <=> g[l] =< g[k]
  BY ONLY <1>5, <1>f, <1>g, <1>k DEF NoLater
<1>11. \A k \in 0..j : f[j] =< f[k]
  <2> TAKE k \in 0..j
  <2>1. NoLater(c, k, j)
    BY <1>c, <1>k DEF PassOK
  <2>2. k \in 0..(n - 1)
    BY ONLY <1>3, k \in 0..j
  <2> QED
    BY <1>3, <1>10, <2>1, <2>2
<1>12. /\ \A k \in 0..(j + 1) : g[j + 1] =< g[k]
       /\ \A l \in 0..(n - 1) : i < l /\ (\A k \in 0..(l - 1) : f[l] =< f[k])
             => \A k \in 0..(l - 1) : g[l] =< g[k]
  BY ONLY <1>1, <1>3, <1>9, <1>11, <1>k, Bubble
<1>13. SortedOK'
  <2> SUFFICES ASSUME NEW d \in Class, NEW k \in Cells(d), NEW l \in Cells(d), k < l, 2 =< l,
                      d = c => i < l
               PROVE  NoLater(d, k, l)'
    <3>1. \A d : Cells(d)' = Cells(d)
      BY <1>k DEF Cells
    <3> QED
      BY <1>k, <1>s, <3>1 DEF SortedOK
  <2>1. Scanning
    BY <1>k DEF Scanning
  <2>2. CASE d # c
    <3>1. NoLater(d, k, l)
      BY <1>c, <2>1, <2>2 DEF SortedOK
    <3> QED
      BY <1>6, <1>k, <2>2, <3>1 DEF NoLater
  <2>3. CASE d = c
    <3>1. /\ l \in 0..(n - 1) /\ i < l /\ k \in 0..(l - 1) /\ k \in 0..(n - 1)
          /\ \A m \in 0..(l - 1) : m \in 0..(n - 1) /\ m < l
      BY <1>n, <2>3
    <3>2. \A m \in 0..(l - 1) : NoLater(c, m, l)
      BY <1>c, <1>n, <2>1, <2>3, <3>1 DEF SortedOK
    <3>3. \A m \in 0..(l - 1) : f[l] =< f[m]
      BY ONLY <1>10, <3>1, <3>2
    <3>4. g[l] =< g[k]
      BY ONLY <1>12, <3>1, <3>3
    <3> QED
      BY <1>10, <2>3, <3>1, <3>4
  <2> QED
    BY <2>2, <2>3
<1>14. PassOK'
  <2>1. \A k \in 0..(j + 1) : k \in 0..(n - 1) /\ (k = j + 1 \/ k \in 0..j)
    BY ONLY <1>1, <1>3
  <2>2. \A k \in 0..(j + 1) : NoLater(c, k, j + 1)'
    BY ONLY <1>3, <1>10, <1>12, <2>1
  <2>3. ASSUME ~ srt'.change, NEW k \in 0..(j + 1), NEW l \in 0..(j + 1), k =< l
        PROVE  NoLater(c, k, l)'
    <3>1. ~ srt.change /\ ~ EndsBefore(a[j], a[j + 1])
      BY <1>5, <1>t, <2>3
    <3>2. g = f
      BY <1>9, <3>1
    <3>3. CASE l = j + 1
      BY <2>2, <3>3
    <3>4. CASE l \in 0..j
      <4>1. k \in 0..j
        BY ONLY <1>1, <2>3, <3>4
      <4>2. NoLater(c, k, l)
        BY <1>c, <1>k, <2>3, <3>1, <3>4, <4>1 DEF PassOK
      <4> QED
        BY <1>10, <2>1, <3>2, <4>2
    <3> QED
      BY <2>1, <3>3, <3>4
  <2> QED
    BY <1>s, <2>2, <2>3 DEF PassOK
<1> QED
  BY <1>13, <1>14

\* The end of a pass: what it took along stands behind all it has passed.
LEMMA SortPassSorted ==
  ASSUME Inv, SortedOK, PassOK, SortPass PROVE SortedOK' /\ PassOK'
<1>c. PICK c, i : c = srt.c /\ i = srt.i /\ i = srt.j
  BY DEF SortPass
<1>k. /\ pc = "sort" /\ end' = end /\ usedNum' = usedNum /\ active' = active
      /\ \A d : Cells(d)' = Cells(d)
      /\ \A d, k, l : NoLater(d, k, l)' <=> NoLater(d, k, l)
  BY DEF SortPass, life, place, Cells, NoLater
<1>1. c \in Class /\ i \in Cells(c) /\ i \in Nat
  BY <1>c, <1>k, ClassAssumption DEF Inv, SortOK, TypeOK, Cells
<1>2. usedNum[c] \in Nat /\ \A k \in Cells(c) : end[active[c][k]] \in Nat
  BY <1>1, <1>k, ActiveEnds DEF Scanning
<1>3. /\ \A k \in 0..i : NoLater(c, k, i)
      /\ ~ srt.change => \A k, l \in 0..i : k =< l => NoLater(c, k, l)
  BY <1>c, <1>k DEF PassOK
<1>4. ASSUME NEW k \in Cells(c), NEW l \in Cells(c), k < l, 2 =< l, i =< l PROVE NoLater(c, k, l)
  <2>1. CASE l = i
    <3>1. k \in 0..i
      BY <1>1, <1>2, <1>4, <2>1 DEF Cells
    <3> QED
      BY <1>3, <2>1, <3>1
  <2>2. CASE l # i
    <3>1. i < l
      BY <1>1, <1>2, <1>4, <2>2 DEF Cells
    <3> QED
      BY <1>c, <1>k, <1>1, <1>4, <3>1 DEF SortedOK, Scanning
  <2> QED
    BY <2>1, <2>2
<1>5. CASE srt.i - 1 > 1 /\ srt.change
  <2>1. /\ pc' = "sort" /\ srt'.c = c /\ srt'.i = i - 1 /\ srt'.j = 0
        /\ srt'.change = FALSE
    BY <1>c, <1>k, <1>5 DEF SortPass, Inv, TypeOK
  <2>2. SortedOK'
    <3> SUFFICES ASSUME NEW d \in Class, NEW k \in Cells(d), NEW l \in Cells(d), k < l, 2 =< l,
                        d = c => i - 1 < l
                 PROVE  NoLater(d, k, l)
      BY <1>k, <2>1 DEF SortedOK
    <3>1. CASE d = c
      <4>1. i =< l
        BY <1>1, <1>2, <3>1 DEF Cells
      <4> QED
        BY <1>4, <3>1, <4>1
    <3>2. CASE d # c
      BY <1>c, <1>k, <3>2 DEF SortedOK, Scanning
    <3> QED
      BY <3>1, <3>2
  <2>3. \A k \in 0..0 : k = 0
    OBVIOUS
  <2>4. NoLater(c, 0, 0)
    <3>1. 0 \in Cells(c)
      BY <1>1, <1>2 DEF Cells
    <3> QED
      BY <1>2, <3>1 DEF NoLater
  <2>5. PassOK'
    BY <1>k, <2>1, <2>3, <2>4 DEF PassOK
  <2> QED
    BY <2>2, <2>5
<1>6. CASE ~ (srt.i - 1 > 1 /\ srt.change)
  <2>1. pc' = "next"
    BY <1>6 DEF SortPass
  <2>2. SortedOK'
    <3> SUFFICES ASSUME NEW d \in Class, NEW k \in Cells(d), NEW l \in Cells(d), k < l, 2 =< l
                 PROVE  NoLater(d, k, l)
      BY <1>k, <2>1 DEF SortedOK
    <3>1. CASE d # c
      BY <1>c, <1>k, <3>1 DEF SortedOK, Scanning
    <3>2. CASE d = c /\ i =< l
      BY <1>4, <3>2
    <3>3. CASE d = c /\ ~ (i =< l)
      <4>1. l \in Nat /\ l < i /\ k \in 0..i /\ l \in 0..i /\ k =< l
        BY <1>1, <1>2, <3>3 DEF Cells
      <4>2. ~ srt.change
        BY <1>c, <1>1, <1>6, <4>1
      <4> QED
        BY <1>3, <3>3, <4>1, <4>2
    <3> QED
      BY <3>1, <3>2, <3>3
  <2> QED
    BY <2>1, <2>2 DEF PassOK
<1> QED
  BY <1>5, <1>6

-----------------------------------------------------------------------------
\* The scan keeps every class sorted but for the first two cells.
LEMMA SortedStep ==
  ASSUME Inv, SortedOK, PassOK, [Next]_vars PROVE SortedOK' /\ PassOK'
<1>i. Inv'
  BY NextInv
<1>1. CASE StartRound
  <2>1. \A c \in Class : Cells(c)' = {}
    <3>1. 0..(0 - 1) = {}
      OBVIOUS
    <3> QED
      BY <1>1, <3>1 DEF StartRound, Cells
  <2>2. pc' = "next"
    BY <1>1 DEF StartRound
  <2> QED
    BY <2>1, <2>2 DEF SortedOK, PassOK
<1>2. CASE NextReg
  BY <1>2, CellsStay DEF NextReg, life, place, Cells, Scanning
<1>3. CASE ExpireOld
  <2>1. PICK d \in Class : Expirable(d) /\ Release(Last(d))
    BY <1>3 DEF ExpireOld
  <2>2. \A c \in Class : usedNum[c] \in Nat /\ (usedNum'[c] = usedNum[c] \/ usedNum'[c] = usedNum[c] - 1)
    BY <2>1, ClassAssumption DEF Release, Inv, TypeOK
  <2>3. \A c \in Class : Cells(c)' \subseteq Cells(c)
    BY <2>2 DEF Cells
  <2> QED
    BY <1>3, <2>3, CellsStay DEF ExpireOld, life, Scanning
<1>4. CASE Allocate
  <2>1. PICK c : c = regClass[reg]
    OBVIOUS
  <2>2. c \in Class /\ pc = "expire" /\ end' = end
    BY <1>4, <2>1 DEF Allocate, Inv, ClassesOK, Scanning, Waiting, life
  <2>3. usedNum' = [usedNum EXCEPT ![c] = @ + 1] /\ EnterSort(c, usedNum[c] + 1)
    BY <1>4, <2>1 DEF Allocate
  <2>4. active' = [active EXCEPT ![c][usedNum[c]] = reg]
    BY <1>4, <2>1 DEF Allocate
  <2>5. /\ EnterSort(c, usedNum'[c])
        /\ \A d \in Class : d # c => active'[d] = active[d] /\ usedNum'[d] = usedNum[d]
    BY <2>2, <2>3, <2>4 DEF Inv, TypeOK
  <2> QED
    BY <1>i, <2>2, <2>5, SortBegins
<1>5. CASE Evict
  <2>1. PICK c : c = regClass[reg]
    OBVIOUS
  <2>2. c \in Class /\ pc = "expire" /\ end' = end /\ usedNum' = usedNum
    BY <1>5, <2>1 DEF Evict, Inv, ClassesOK, Scanning, Waiting, life
  <2>3. EnterSort(c, usedNum'[c])
    BY <1>5, <2>1, <2>2 DEF Evict
  <2>4. PICK k \in Victims(c) : active' = [active EXCEPT ![c][k] = reg]
    BY <1>5, <2>1 DEF Evict
  <2>5. \A d \in Class : d # c => active'[d] = active[d] /\ usedNum'[d] = usedNum[d]
    BY <2>2, <2>4 DEF Inv, TypeOK
  <2> QED
    BY <1>i, <2>2, <2>3, <2>5, SortBegins
<1>6. CASE SpillSelf
  <2>1. pc = "expire" /\ pc' \in {"next", "undefined"} /\ UNCHANGED <<end, active, usedNum>>
    BY <1>6 DEF SpillSelf, life
  <2> QED
    BY <2>1, CellsStay DEF Scanning, Cells
<1>7. CASE SortStep
  BY <1>7, SortStepSorted
<1>8. CASE SortPass
  BY <1>8, SortPassSorted
<1>9. CASE FinishScan \/ RewriteOperand \/ RewriteDone
  <2>1. ~ Scanning'
    BY <1>9 DEF FinishScan, RewriteOperand, RewriteDone, RewriteFirst, Scanning
  <2> QED
    BY <2>1 DEF SortedOK, PassOK, Scanning
<1>10. CASE UNCHANGED vars
  BY <1>10 DEF vars, life, place, SortedOK, PassOK, Scanning, Cells, NoLater
<1> QED
  BY <1>1, <1>2, <1>3, <1>4, <1>5, <1>6, <1>7, <1>8, <1>9, <1>10 DEF Next

\* What instruction selection made has its operands from the code.
LEMMA OperandsInit == Init => OperandsOK
<1> SUFFICES ASSUME Init PROVE OperandsOK
  OBVIOUS
<1>1. PICK l \in [1..NumInitial -> Lifetimes] :
        /\ Distinct(l)
        /\ rclass = [r \in Reg |-> IF r =< NumInitial THEN l[r].cl ELSE NoRegs]
        /\ ops = [r \in Reg |-> IF r =< NumInitial THEN l[r].ops ELSE {}]
  BY DEF Init
<1>2. \A r \in 1..count : r \in Reg /\ r \in 1..NumInitial /\ r =< NumInitial
  BY InputAssumption DEF Init, Reg
<1>3. \A r \in 1..count : rclass[r] = l[r].cl /\ ops[r] = l[r].ops /\ l[r] \in Lifetimes
  BY <1>1, <1>2
<1>4. \A r \in 1..count : ops[r] \subseteq Operands(rclass[r])
  BY <1>3 DEF Operands
<1>5. \A r, s \in 1..count : r # s => ops[r] \cap ops[s] = {}
  BY <1>1, <1>2, <1>3 DEF Distinct
<1>6. fixed \in FixedInputs /\ \A r \in 1..count : ~ infinite[r]
  BY <1>2 DEF Init
<1> QED
  BY <1>4, <1>5, <1>6 DEF OperandsOK

\* Rewriting an operand hands it from the spilled register to a piece.
LEMMA OperandsStep ==
  ASSUME Inv, KindOK, OperandsOK, [Next]_vars PROVE OperandsOK'
<1> USE DEF life, place
<1>1. CASE RewriteOperand
  <2>1. PICK v, n : v = Head(spilled) /\ n = count + 1
    OBVIOUS
  <2>2. PICK o \in ops[v] :
          /\ begin' = [begin EXCEPT ![n] = PieceBegin(o)]
          /\ end' = [end EXCEPT ![n] = PieceBegin(o) + 1]
          /\ infinite' = [infinite EXCEPT ![n] = TRUE]
          /\ rclass' = [rclass EXCEPT ![n] = rclass[v]]
          /\ ops' = [ops EXCEPT ![v] = @ \ {o}, ![n] = {o}]
    BY <1>1, <2>1 DEF RewriteOperand
  <2>3. fixed' = fixed /\ count' = count + 1 /\ count < MaxReg /\ spilled # <<>>
    BY <1>1 DEF RewriteOperand
  <2>4. spilled \in Seq(Reg) /\ count \in Nat /\ n \in Reg
    BY <2>1, <2>3, Existing, InputAssumption DEF Inv, TypeOK, Reg
  <2>5. v = spilled[1] /\ 1 \in 1..Len(spilled)
    BY <2>1, <2>3, <2>4
  <2>6. v \in 1..count /\ v \in Reg /\ ~ infinite[v] /\ v # n
    <3>1. v \in 1..count /\ v =< NumInitial
      BY <2>5 DEF Inv, SpilledOK, KindOK
    <3> QED
      BY <2>1, <2>4, <3>1, Existing, InputAssumption DEF Inv, KindOK
  <2>7. \A r \in 1..count' : r = n \/ (r \in 1..count /\ r \in Reg /\ r # n)
    BY <2>1, <2>3, <2>4, Existing DEF Inv
  <2>8. /\ ops'[n] = {o} /\ begin'[n] = PieceBegin(o) /\ end'[n] = PieceBegin(o) + 1
        /\ rclass'[n] = rclass[v]
        /\ ops'[v] = ops[v] \ {o}
        /\ \A r \in Reg : r # n => /\ infinite'[r] = infinite[r] /\ begin'[r] = begin[r]
                                   /\ end'[r] = end[r] /\ rclass'[r] = rclass[r]
        /\ \A r \in Reg : r # n /\ r # v => ops'[r] = ops[r]
    BY <2>2, <2>4, <2>6 DEF Inv, TypeOK
  <2>9. o \in Operand
    BY <2>6 DEF Inv, TypeOK
  <2>10. ASSUME NEW r \in 1..count' PROVE ops'[r] \subseteq Operands(rclass'[r])
    <3>1. o \in Operands(rclass[v])
      BY <2>6 DEF OperandsOK
    <3> QED
      BY <2>6, <2>7, <2>8, <3>1 DEF OperandsOK
  <2>11. ASSUME NEW r \in 1..count', NEW s \in 1..count', r # s PROVE ops'[r] \cap ops'[s] = {}
    <3>1. \A q \in 1..count : ops'[q] \subseteq ops[q] /\ o \notin ops'[q]
      <4>1. \A q \in 1..count : q # v => o \notin ops[q]
        BY <2>6 DEF OperandsOK
      <4>2. \A q \in 1..count : q \in Reg /\ q # n
        BY <2>1, <2>4, Existing DEF Inv
      <4> QED
        BY ONLY <2>8, <4>1, <4>2
    <3>2. CASE r # n /\ s # n
      BY <2>7, <2>11, <3>1, <3>2 DEF OperandsOK
    <3>3. CASE r = n \/ s = n
      BY <2>7, <2>8, <2>11, <3>1, <3>3
    <3> QED
      BY <3>2, <3>3
  <2>12. ASSUME NEW r \in 1..count', infinite'[r]
         PROVE  \E p \in Operand : /\ ops'[r] = {p} /\ begin'[r] = PieceBegin(p)
                                   /\ end'[r] = PieceBegin(p) + 1
    <3>1. CASE r = n
      BY <2>8, <2>9, <3>1
    <3>2. CASE r # n
      <4>1. r \in 1..count /\ infinite[r] /\ r # v
        BY <2>6, <2>7, <2>8, <2>12, <3>2
      <4> QED
        BY <2>7, <2>8, <3>2, <4>1 DEF OperandsOK
    <3> QED
      BY <3>1, <3>2
  <2> QED
    BY <2>3, <2>10, <2>11, <2>12 DEF OperandsOK
<1>2. CASE RewriteDone
  <2>1. PICK v : v = Head(spilled)
    OBVIOUS
  <2>2. /\ begin' = [begin EXCEPT ![v] = 0] /\ end' = [end EXCEPT ![v] = 0]
        /\ UNCHANGED <<fixed, infinite, rclass, ops, count>> /\ spilled # <<>>
    BY <1>2, <2>1 DEF RewriteDone
  <2>3. ~ infinite[v]
    <3>1. spilled \in Seq(Reg)
      BY DEF Inv, TypeOK
    <3>2. v = spilled[1] /\ 1 \in 1..Len(spilled)
      BY <2>1, <2>2, <3>1
    <3>3. v \in 1..count /\ v =< NumInitial
      BY <3>2 DEF Inv, SpilledOK, KindOK
    <3> QED
      BY <3>3, Existing, InputAssumption DEF Inv, KindOK
  <2>4. \A r \in 1..count : infinite[r] => begin'[r] = begin[r] /\ end'[r] = end[r]
    BY <2>2, <2>3, Existing DEF Inv, TypeOK
  <2> QED
    BY <2>2, <2>4 DEF OperandsOK
<1>3. CASE ~ RewriteOperand /\ ~ RewriteDone
  <2>1. UNCHANGED <<fixed, life>>
    BY <1>3 DEF Next, vars, StartRound, NextReg, ExpireOld, Allocate, Evict, SpillSelf,
                SortStep, SortPass, FinishScan
  <2> QED
    BY <2>1 DEF OperandsOK
<1> QED
  BY <1>1, <1>2, <1>3

-----------------------------------------------------------------------------
\* How many hard registers no call needs, next to those that are taken.
LEMMA UnneededFacts ==
  ASSUME Inv, More, OperandsOK, Scanning, NEW c \in Class
  PROVE  /\ IsFiniteSet(HardOf(c)) /\ IsFiniteSet(used[c]) /\ IsFiniteSet(Unneeded(c, fixed))
         /\ Unneeded(c, fixed) \subseteq HardOf(c)
         /\ Cardinality(Unneeded(c, fixed)) \in Nat /\ 3 =< Cardinality(Unneeded(c, fixed))
         /\ Cardinality(Unneeded(c, fixed)) =< MaxNum[c] - NextAvail[c]
         /\ Cardinality(used[c]) = usedNum[c]
<1>1. NextAvail[c] \in Nat /\ MaxNum[c] \in Nat
  BY ClassAssumption
<1>2. /\ IsFiniteSet(HardOf(c))
      /\ Cardinality(HardOf(c)) = IF NextAvail[c] > MaxNum[c] - 1 THEN 0
                                  ELSE MaxNum[c] - 1 - NextAvail[c] + 1
  <2>1. PICK a \in Nat, b \in Nat : a = NextAvail[c] /\ b = MaxNum[c]
    BY <1>1
  <2>2. b - 1 \in Int /\ a \in Int
    BY <2>1
  <2>3. /\ IsFiniteSet(a..(b - 1))
        /\ Cardinality(a..(b - 1)) = IF a > b - 1 THEN 0 ELSE b - 1 - a + 1
    BY ONLY <2>2, FS_Interval
  <2> QED
    BY <2>1, <2>3 DEF HardOf
<1>3. Unneeded(c, fixed) \subseteq HardOf(c)
  BY DEF Unneeded
<1>4. /\ IsFiniteSet(Unneeded(c, fixed))
      /\ Cardinality(Unneeded(c, fixed)) =< Cardinality(HardOf(c))
  BY <1>2, <1>3, FS_Subset
<1>5. Cardinality(Unneeded(c, fixed)) \in Nat
  BY <1>4, FS_CardinalityType
<1>6. Cardinality(Unneeded(c, fixed)) >= 3
  BY RoomAssumption DEF OperandsOK
<1>7. used[c] \subseteq HardOf(c)
  <2> SUFFICES ASSUME NEW h \in used[c] PROVE h \in HardOf(c)
    OBVIOUS
  <2>1. PICK k \in Cells(c) : hardNum[active[c][k]] = h
    BY DEF More, UsedOK
  <2> QED
    BY <2>1 DEF Inv, ActiveOK, HardOK
<1>8. IsFiniteSet(used[c])
  BY <1>2, <1>7, FS_Subset
<1>9. Cardinality(used[c]) = usedNum[c]
  BY Accounts DEF Accounting, Scanning
<1> QED
  BY <1>1, <1>2, <1>3, <1>4, <1>5, <1>6, <1>8, <1>9

\* When no hard register is left, as many are taken as no call needs.
LEMMA TakenWhenFull ==
  ASSUME Inv, More, OperandsOK, pc = "expire", ~ CanAlloc(regClass[reg])
  PROVE  /\ regClass[reg] \in Class
         /\ Cardinality(Unneeded(regClass[reg], fixed)) =< usedNum[regClass[reg]]
<1>c. PICK c : c = regClass[reg]
  OBVIOUS
<1>1. c \in Class /\ Scanning /\ usedNum[c] \in Nat
  BY <1>c, ClassAssumption DEF Inv, ClassesOK, Scanning, Waiting, TypeOK
<1>2. PICK U : U = Unneeded(c, fixed)
  OBVIOUS
<1>3. /\ IsFiniteSet(used[c]) /\ IsFiniteSet(U) /\ U \subseteq HardOf(c)
      /\ Cardinality(U) \in Nat /\ Cardinality(U) =< MaxNum[c] - NextAvail[c]
      /\ Cardinality(used[c]) = usedNum[c]
  BY <1>1, <1>2, UnneededFacts
<1>4. CASE ~ (usedNum[c] < MaxNum[c] - NextAvail[c])
  <2>1. NextAvail[c] \in Nat /\ MaxNum[c] \in Nat
    BY <1>1, ClassAssumption
  <2> QED
    BY ONLY <1>c, <1>1, <1>2, <1>3, <1>4, <2>1
<1>5. CASE Free(c) = {}
  <2>1. U \subseteq used[c]
    <3> SUFFICES ASSUME NEW h \in U PROVE h \in used[c]
      OBVIOUS
    <3>1. h \in HardOf(c) /\ ~ Blocked(h, reg)
      BY <1>2 DEF Unneeded, Blocked
    <3> QED
      BY <1>5, <3>1 DEF Free
  <2>2. Cardinality(U) =< Cardinality(used[c])
    BY <1>3, <2>1, FS_Subset
  <2> QED
    BY <1>c, <1>1, <1>2, <1>3, <2>2
<1> QED
  BY <1>c, <1>4, <1>5 DEF CanAlloc

\* With three registers active, expire_old_intervals leaves none that has ended.
LEMMA ActiveLives ==
  ASSUME Inv, SortedOK, pc = "expire", Expired, NEW c \in Class, 3 =< usedNum[c],
         NEW k \in Cells(c)
  PROVE  begin[reg] < end[active[c][k]]
<1>1. /\ Scanning /\ usedNum[c] \in Nat
      /\ \A m \in Cells(c) : active[c][m] \in Reg /\ end[active[c][m]] \in Nat
  BY ActiveEnds DEF Scanning
<1>2. PICK l \in Nat : l = usedNum[c] - 1 /\ l \in Cells(c) /\ 2 =< l /\ (k = l \/ k < l)
  BY <1>1 DEF Cells
<1>3. begin[reg] \in Nat
  BY Existing DEF Inv, ClassesOK, TypeOK, Pos
<1>4. begin[reg] < end[active[c][l]]
  <2>1. ~ Expirable(c) /\ Last(c) = active[c][l]
    BY <1>2 DEF Expired, Last
  <2> QED
    BY <1>1, <1>2, <1>3, <2>1 DEF Expirable
<1>5. k < l => NoLater(c, k, l)
  BY <1>1, <1>2 DEF SortedOK
<1>6. end[active[c][k]] \in Nat /\ end[active[c][l]] \in Nat
  BY <1>1, <1>2
<1>7. end[active[c][l]] =< end[active[c][k]]
  BY ONLY <1>2, <1>5, <1>6 DEF NoLater
<1> QED
  BY ONLY <1>3, <1>4, <1>6, <1>7

\* An unspillable register can always be placed: if all active registers were pieces
\* too, they and it would be more operands between two instructions than there are hard
\* registers no call needs.
LEMMA PieceFits ==
  ASSUME Inv, More, SortedOK, OperandsOK, SpillSelf PROVE ~ infinite[reg]
<1> SUFFICES ASSUME infinite[reg] PROVE FALSE
  OBVIOUS
<1>k. /\ pc = "expire" /\ Expired /\ ~ CanAlloc(regClass[reg]) /\ Victims(regClass[reg]) = {}
      /\ Scanning
  BY DEF SpillSelf, Scanning
<1>c. PICK c, t : c = regClass[reg] /\ t = begin[reg]
  OBVIOUS
<1>1. /\ c \in Class /\ Cardinality(Unneeded(c, fixed)) =< usedNum[c]
      /\ usedNum[c] \in Nat /\ Cardinality(Unneeded(c, fixed)) \in Nat
      /\ 3 =< Cardinality(Unneeded(c, fixed))
  <2>1. c \in Class /\ Cardinality(Unneeded(c, fixed)) =< usedNum[c]
    BY <1>c, <1>k, TakenWhenFull
  <2> QED
    BY <1>k, <2>1, UnneededFacts, ClassAssumption DEF Inv, TypeOK
<1>n. PICK n \in Nat : n = usedNum[c] /\ Cells(c) = 0..(n - 1) /\ 3 =< n
  BY <1>1 DEF Cells
<1>2. \A k \in Cells(c) : infinite[active[c][k]]
  BY <1>c, <1>k DEF Victims, Finite, Cells
<1>3. reg \in 1..count /\ t \in Nat
  BY <1>c, <1>k, Existing DEF Inv, ClassesOK, TypeOK, Pos
<1>4. \A r \in 1..count : infinite[r] => regClass[r] = rclass[r]
  <2>1. \A r \in 1..count : infinite[r] => ~ Listed(r)
    BY Existing, InputAssumption DEF Listed, More, KindOK, Inv, SpilledOK
  <2> QED
    BY <1>k, <2>1 DEF More, VisitedOK
<1>5. PICK op : op = [r \in 1..count |-> CHOOSE o \in Operand : ops[r] = {o}]
  OBVIOUS
<1>6. \A r \in 1..count : infinite[r] =>
        /\ ops[r] = {op[r]} /\ op[r] \in Operand
        /\ begin[r] = PieceBegin(op[r]) /\ end[r] = PieceBegin(op[r]) + 1
  <2> SUFFICES ASSUME NEW r \in 1..count, infinite[r]
               PROVE  /\ ops[r] = {op[r]} /\ op[r] \in Operand
                      /\ begin[r] = PieceBegin(op[r]) /\ end[r] = PieceBegin(op[r]) + 1
    OBVIOUS
  <2>1. PICK o \in Operand : ops[r] = {o} /\ begin[r] = PieceBegin(o) /\ end[r] = PieceBegin(o) + 1
    BY DEF OperandsOK
  <2>2. op[r] \in Operand /\ ops[r] = {op[r]}
    BY <1>5, <2>1
  <2>3. op[r] = o
    BY <2>1, <2>2
  <2> QED
    BY <2>1, <2>3
<1>7. \A k \in Cells(c) :
        /\ active[c][k] \in 1..count /\ regClass[active[c][k]] = c /\ active[c][k] # reg
        /\ begin[active[c][k]] = t
  <2> SUFFICES ASSUME NEW k \in Cells(c), NEW r, r = active[c][k]
               PROVE  r \in 1..count /\ regClass[r] = c /\ r # reg /\ begin[r] = t
    OBVIOUS
  <2>1. r \in Placed /\ regClass[r] = c
    BY <1>1, <1>k DEF Inv, ActiveOK
  <2>2. r \in 1..count /\ r # reg
    BY <1>k, <2>1 DEF Placed
  <2>3. begin[r] =< t
    BY <1>c, <1>k, <2>1 DEF More, OrderOK
  <2>4. t < end[r]
    BY <1>c, <1>k, <1>1, <1>n, ActiveLives
  <2>5. begin[r] \in Nat /\ end[r] = begin[r] + 1
    <3>1. end[r] = begin[r] + 1
      BY <1>2, <1>6, <2>2
    <3> QED
      BY <2>2, <3>1, Existing DEF Inv, TypeOK, Pos
  <2>6. begin[r] = t
    BY ONLY <1>3, <2>3, <2>4, <2>5
  <2> QED
    BY <2>1, <2>2, <2>6
<1>8. PICK who : who = [k \in 0..n |-> IF k = n THEN reg ELSE active[c][k]]
  OBVIOUS
<1>9. \A k \in 0..n : /\ who[k] \in 1..count /\ infinite[who[k]] /\ rclass[who[k]] = c
                      /\ begin[who[k]] = t
  <2> TAKE k \in 0..n
  <2>1. CASE k = n
    BY <1>c, <1>3, <1>4, <1>8, <2>1
  <2>2. CASE k # n
    <3>1. k \in Cells(c) /\ who[k] = active[c][k]
      BY <1>n, <1>8, <2>2
    <3> QED
      BY <1>2, <1>4, <1>7, <3>1
  <2> QED
    BY <2>1, <2>2
<1>10. \A k, l \in 0..n : k # l => who[k] # who[l]
  <2>1. \A k, l \in Cells(c) : k # l => active[c][k] # active[c][l]
    BY <1>1, <1>k DEF Inv, ActiveOK
  <2>2. \A k \in 0..n : k = n \/ k \in Cells(c)
    BY <1>n
  <2> QED
    BY <1>7, <1>8, <2>1, <2>2
<1>11. PICK o : o = op[reg]
  OBVIOUS
<1>12. o \in Operands(c) /\ PieceBegin(o) = t
  BY <1>c, <1>3, <1>4, <1>6, <1>11 DEF OperandsOK
<1>13. IsFiniteSet(Together(c, o)) /\ Cardinality(Together(c, o)) =< Cardinality(Unneeded(c, fixed))
  BY <1>1, <1>12, RoomAssumption DEF OperandsOK
<1>14. PICK F : F = [k \in 0..n |-> op[who[k]]]
  OBVIOUS
<1>15. \A k \in 0..n : F[k] \in Together(c, o) /\ ops[who[k]] = {F[k]}
  <2> TAKE k \in 0..n
  <2>1. /\ ops[who[k]] = {F[k]} /\ PieceBegin(F[k]) = t
        /\ ops[who[k]] \subseteq Operands(c)
    BY <1>6, <1>9, <1>14 DEF OperandsOK
  <2> QED
    BY <1>12, <2>1 DEF Together
<1>16. \A k, l \in 0..n : F[k] = F[l] => k = l
  <2>1. \A r, s \in 1..count : r # s => ops[r] \cap ops[s] = {}
    BY DEF OperandsOK
  <2> QED
    BY <1>9, <1>10, <1>15, <2>1
<1>17. F \in Injection(0..n, Together(c, o))
  <2>1. F \in [0..n -> Together(c, o)]
    BY <1>14, <1>15
  <2> QED
    BY <1>16, <2>1 DEF Injection, IsInjective
<1>18. Cardinality(0..n) =< Cardinality(Together(c, o))
  BY <1>13, <1>17, FS_Injection
<1>19. Cardinality(0..n) = n + 1
  <2>1. Cardinality(0..n) = IF 0 > n THEN 0 ELSE n - 0 + 1
    BY FS_Interval
  <2> QED
    BY <2>1
<1>20. Cardinality(Together(c, o)) \in Nat
  BY <1>13, FS_CardinalityType
<1> QED
  BY ONLY <1>1, <1>n, <1>13, <1>18, <1>19, <1>20

\* The order of the active registers and the operands of the pieces.
THEOREM RoomInvariance == Spec => [](SortedOK /\ PassOK /\ OperandsOK)
<1>1. Init => SortedOK /\ PassOK
  <2>1. Init => pc = "start"
    BY DEF Init
  <2> QED
    BY <2>1 DEF SortedOK, PassOK, Scanning
<1>2. /\ Inv /\ More /\ SortedOK /\ PassOK /\ OperandsOK /\ [Next]_vars
      => (SortedOK /\ PassOK /\ OperandsOK)'
  BY SortedStep, OperandsStep DEF More
<1> QED
  BY <1>1, <1>2, OperandsInit, MoreInvariance, PTL DEF Spec

\* spill_at_interval has not read behind the active registers.
Going == pc # "undefined"

\* The allocator never stops and never reads the cell behind the active registers:
\* spill_at_interval always finds a victim for an unspillable register.
THEOREM NeverStuckHolds == Spec => []NeverStuck
<1>1. Init => Going
  BY DEF Init, Going
<1>2. Inv /\ More /\ SortedOK /\ OperandsOK /\ Going /\ [Next]_vars => Going'
  <2> SUFFICES ASSUME Inv, More, SortedOK, OperandsOK, pc # "undefined", Next
               PROVE  pc' # "undefined"
    BY DEF vars, Going
  <2>1. CASE SpillSelf
    <3>1. ~ infinite[reg]
      BY <2>1, PieceFits
    <3> QED
      BY <2>1, <3>1 DEF SpillSelf
  <2>2. CASE ~ SpillSelf
    BY <2>2 DEF Next, StartRound, NextReg, ExpireOld, Allocate, Evict, EnterSort, SortStep,
                SortPass, FinishScan, RewriteFirst, RewriteOperand, RewriteDone
  <2> QED
    BY <2>1, <2>2
<1>3. Going /\ pc # "fatal" => NeverStuck
  BY DEF Going, NeverStuck
<1> QED
  BY <1>1, <1>2, <1>3, MoreInvariance, RoomInvariance, NeverFatal, PTL DEF Spec
-----------------------------------------------------------------------------
\* The third loop of spill_at_interval takes a register that may end first, but for
\* a piece, which lives at one point only, and one that has not ended covers that.
LEMMA VictimCovers ==
  ASSUME Inv, More, SortedOK, OperandsOK, Evict PROVE Covering(reg)
<1>k. pc = "expire" /\ Expired /\ ~ CanAlloc(regClass[reg]) /\ Scanning
  BY DEF Evict, Scanning
<1>c. PICK c : c = regClass[reg]
  OBVIOUS
<1>1. /\ c \in Class /\ 3 =< usedNum[c] /\ reg \in 1..count /\ reg \in Reg
  <2>1. /\ c \in Class
        /\ Cardinality(Unneeded(c, fixed)) =< usedNum[c]
    BY <1>c, <1>k, TakenWhenFull
  <2>2. Cardinality(Unneeded(c, fixed)) \in Nat /\ 3 =< Cardinality(Unneeded(c, fixed))
    BY <1>k, <2>1, UnneededFacts
  <2>3. usedNum[c] \in Nat
    BY <2>1, ClassAssumption DEF Inv, TypeOK
  <2>4. reg \in 1..count /\ reg \in Reg
    BY <1>k, Existing DEF Inv, ClassesOK
  <2> QED
    BY ONLY <2>1, <2>2, <2>3, <2>4
<1>2. CASE ~ infinite[reg]
  <2>1. Victims(c) \subseteq Outliving(c)
    BY <1>2, <1>c DEF Victims, Finite
  <2> QED
    BY <1>c, <1>k, <1>1, <2>1, OutlivingCovers
<1>3. CASE infinite[reg]
  <2> SUFFICES ASSUME NEW k \in Victims(c) PROVE end[reg] =< end[active[c][k]]
    BY <1>c DEF Covering
  <2>1. k \in Cells(c)
    BY <1>1, VictimsActive
  <2>2. begin[reg] < end[active[c][k]]
    BY <1>k, <1>1, <2>1, ActiveLives
  <2>3. begin[reg] \in Nat /\ end[reg] = begin[reg] + 1 /\ end[active[c][k]] \in Nat
    <3>1. end[reg] = begin[reg] + 1
      BY <1>1, <1>3 DEF OperandsOK
    <3>2. end[active[c][k]] \in Nat
      BY <1>k, <1>1, <2>1, ActiveEnds
    <3> QED
      BY <1>1, <3>1, <3>2 DEF Inv, TypeOK, Pos
  <2> QED
    BY ONLY <2>2, <2>3
<1> QED
  BY <1>2, <1>3

\* No register, piece or not, is ever in a hard register that a call or an explicit
\* operand needs meanwhile, although spill_at_interval hands hard registers on without
\* a look at their fixed intervals.
THEOREM FixedRespectedHolds == Spec => []FixedRespected
<1>1. Init => FixedRespected
  BY InputAssumption DEF Init, FixedRespected, Placed, Reg
<1>2. Inv /\ More /\ SortedOK /\ OperandsOK /\ FixedRespected /\ [Next]_vars => FixedRespected'
  <2> SUFFICES ASSUME Inv, More, SortedOK, OperandsOK, FixedRespected, [Next]_vars,
                      NEW r \in Placed'
               PROVE  ~ Blocked(hardNum[r], r)'
    BY DEF FixedRespected
  <2>1. fixed' = fixed
    BY PlacedStep DEF More
  <2>2. CASE Keeps(r)
    <3>1. ~ Blocked(hardNum[r], r)
      BY <2>2 DEF Keeps, FixedRespected
    <3> QED
      BY <2>1, <2>2, <3>1 DEF Keeps, Blocked
  <2>3. CASE r = reg /\ UNCHANGED <<begin, end, infinite>> /\ ~ Blocked(hardNum'[r], r)
    BY <2>1, <2>3 DEF Blocked
  <2>4. CASE Inherits(r)
    <3>1. r = reg /\ UNCHANGED <<begin, end, infinite>> /\ Evict
      BY <2>4 DEF Inherits
    <3>2. r \in Reg
      BY <3>1, Evicted DEF More
    <3>3. Covering(r)
      BY <3>1, VictimCovers
    <3>4. SpillableRespected
      BY DEF SpillableRespected, FixedRespected
    <3>5. ~ Blocked(hardNum'[r], r)
      BY <2>1, <2>4, <3>2, <3>3, <3>4, InheritedPlace
    <3> QED
      BY <2>1, <3>1, <3>5 DEF Blocked
  <2> QED
    BY <2>2, <2>3, <2>4, PlacedStep DEF More
<1> QED
  BY <1>1, <1>2, MoreInvariance, RoomInvariance, PTL DEF Spec
=============================================================================
