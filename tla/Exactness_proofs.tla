--------------------------- MODULE Exactness_proofs ---------------------------
(***************************************************************************)
(* For every control flow graph and every code: when the rounds stop, a    *)
(* register is in the live-in set of a numbered block exactly if some path *)
(* from there reads it before writing it (Exact).  The sets solve the flow *)
(* equations (Solution) and exceed no other solution (Least); the gaps     *)
(* LiveGaps collects are such a solution, and every solution has them.     *)
(***************************************************************************)
EXTENDS Liveness_proofs

AllGaps == {p \in Gaps : TRUE}

\* One step of the search: the gaps from which a gap of L is one step away.
Grow(L, r) == {p \in AllGaps : p \in L \/ (~ Writes(p, r) /\ After(p) \cap L # {})}

\* A set of gaps the search does not leave.
IsClosed(M, r) == M \subseteq AllGaps /\ Grow(M, r) \subseteq M

Starts(r) == {p \in AllGaps : Reads(p, r)}

ClosureDef(f, r) ==
  f = [L \in SUBSET AllGaps |-> LET K == Grow(L, r) IN IF K = L THEN L ELSE f[K]]

\* A step of the search adds gaps.
LEMMA GrowAdds ==
  ASSUME NEW r, NEW L, L \subseteq AllGaps
  PROVE  /\ Grow(L, r) \subseteq AllGaps /\ L \subseteq Grow(L, r)
         /\ \A M : L \subseteq M /\ IsClosed(M, r) => Grow(L, r) \subseteq M
<1>1. Grow(L, r) \subseteq AllGaps /\ L \subseteq Grow(L, r)
  BY DEF Grow
<1>2. ASSUME NEW M, L \subseteq M, IsClosed(M, r) PROVE Grow(L, r) \subseteq M
  <2>1. Grow(L, r) \subseteq Grow(M, r)
    BY <1>2 DEF Grow
  <2> QED
    BY <1>2, <2>1 DEF IsClosed
<1> QED
  BY <1>1, <1>2

\* The search can be written down without recursion: as an intersection.
LEMMA ClosureExists == ASSUME NEW r PROVE \E f : ClosureDef(f, r)
<1> DEFINE f == [L \in SUBSET AllGaps |->
                   {p \in AllGaps : \A M : L \subseteq M /\ IsClosed(M, r) => p \in M}]
           h == [L \in SUBSET AllGaps |->
                   LET K == Grow(L, r) IN IF K = L THEN L ELSE f[K]]
<1>1. ASSUME NEW L \in SUBSET AllGaps PROVE f[L] = h[L]
  <2>1. Grow(L, r) \in SUBSET AllGaps /\ L \subseteq Grow(L, r)
    BY GrowAdds
  <2>2. CASE Grow(L, r) = L
    <3>1. IsClosed(L, r)
      BY <2>2 DEF IsClosed
    <3> QED
      BY <2>2, <3>1
  <2>3. CASE Grow(L, r) # L
    <3>1. ASSUME NEW M, IsClosed(M, r) PROVE L \subseteq M <=> Grow(L, r) \subseteq M
      BY <2>1, <3>1, GrowAdds
    <3>2. f[L] = f[Grow(L, r)]
      BY <2>1, <3>1
    <3> QED
      BY <2>3, <3>2
  <2> QED
    BY <2>2, <2>3
<1>2. f = h
  <2>1. DOMAIN f = SUBSET AllGaps /\ DOMAIN h = SUBSET AllGaps
    OBVIOUS
  <2>2. f = [L \in SUBSET AllGaps |-> f[L]] /\ h = [L \in SUBSET AllGaps |-> h[L]]
    OBVIOUS
  <2> HIDE DEF f, h
  <2> QED
    BY <1>1, <2>2
<1> QED
  BY <1>2 DEF ClosureDef

\* LiveGaps(r) is the value of a closure function on the gaps that read r.
LEMMA LiveGapsUnfold ==
  ASSUME NEW r PROVE \E f : ClosureDef(f, r) /\ LiveGaps(r) = f[Starts(r)]
<1> DEFINE f == CHOOSE closure : ClosureDef(closure, r)
<1>1. LiveGaps(r) = f[Starts(r)]
  BY DEF LiveGaps, ClosureDef, Grow, AllGaps, Starts
<1>2. ClosureDef(f, r)
  BY ClosureExists
<1> QED
  BY <1>1, <1>2

\* There are finitely many gaps.
LEMMA GapsFinite == ASSUME TypeOK PROVE IsFiniteSet(AllGaps)
<1> DEFINE g == [b \in Block |-> {b} \X (1..(Len(code[b]) + 1))]
           S == {g[b] : b \in Block}
<1>1. \A b \in Block : Len(code[b]) \in Nat
  BY LenProperties DEF TypeOK
<1>2. \A T \in S : IsFiniteSet(T)
  <2> SUFFICES ASSUME NEW b \in Block PROVE IsFiniteSet(g[b])
    OBVIOUS
  <2>1. IsFiniteSet({b})
    BY FS_Singleton
  <2>2. IsFiniteSet(1..(Len(code[b]) + 1))
    BY <1>1, FS_Interval
  <2> QED
    BY <2>1, <2>2, FS_Product
<1>3. IsFiniteSet(S)
  <2>1. g \in Surjection(Block, S)
    BY DEF Surjection
  <2> HIDE DEF g, S
  <2> QED
    BY <2>1, FS_Surjection, BlockAssumption
<1>4. IsFiniteSet(UNION S)
  <2> HIDE DEF S
  <2> QED
    BY <1>2, <1>3, FS_UNION
<1>5. AllGaps = UNION S
  <2>1. S = {{b} \X (1..(Len(code[b]) + 1)) : b \in Block}
    OBVIOUS
  <2> QED
    BY <2>1, Zenon DEF AllGaps, Gaps
<1> QED
  BY <1>4, <1>5

\* The search ends with a closed set that contains its start and is contained in
\* every other such set.
LEMMA ClosureIsLeast ==
  ASSUME TypeOK, NEW r, NEW f, ClosureDef(f, r), NEW L \in SUBSET AllGaps
  PROVE  /\ L \subseteq f[L] /\ IsClosed(f[L], r)
         /\ \A M : L \subseteq M /\ IsClosed(M, r) => f[L] \subseteq M
<1> DEFINE Good(K) == /\ K \subseteq f[K] /\ IsClosed(f[K], r)
                      /\ \A M : K \subseteq M /\ IsClosed(M, r) => f[K] \subseteq M
           T == {n \in Nat : \E K \in SUBSET AllGaps : n = Cardinality(AllGaps \ K) /\ ~ Good(K)}
<1>0. \A K \in SUBSET AllGaps : IsFiniteSet(AllGaps \ K) /\ Cardinality(AllGaps \ K) \in Nat
  <2> SUFFICES ASSUME NEW K \in SUBSET AllGaps
               PROVE  IsFiniteSet(AllGaps \ K) /\ Cardinality(AllGaps \ K) \in Nat
    OBVIOUS
  <2>1. AllGaps \ K \in SUBSET AllGaps
    OBVIOUS
  <2>2. IsFiniteSet(AllGaps \ K)
    BY <2>1, GapsFinite, FS_Subset
  <2> QED
    BY <2>2, FS_CardinalityType
<1>1. SUFFICES ASSUME T # {} PROVE FALSE
  BY <1>0
<1>2. PICK n \in T : n \in Nat /\ \A m \in T : n =< m
  <2>1. T \subseteq Nat
    OBVIOUS
  <2> HIDE DEF T
  <2> QED
    BY <1>1, <2>1, Smallest
<1>3. PICK K \in SUBSET AllGaps : n = Cardinality(AllGaps \ K) /\ ~ Good(K)
  BY <1>2
<1>4. f[K] = IF Grow(K, r) = K THEN K ELSE f[Grow(K, r)]
  BY DEF ClosureDef
<1>5. CASE Grow(K, r) = K
  <2>1. f[K] = K /\ IsClosed(K, r)
    BY <1>4, <1>5 DEF IsClosed
  <2> QED
    BY <1>3, <2>1
<1>6. CASE Grow(K, r) # K
  <2>1. PICK G \in SUBSET AllGaps : G = Grow(K, r)
    BY GrowAdds
  <2>2. K \subseteq G /\ G # K /\ f[K] = f[G]
    BY <1>4, <1>6, <2>1, GrowAdds
  <2>3. Cardinality(AllGaps \ G) < n
    <3>1. AllGaps \ G \in SUBSET (AllGaps \ K) /\ AllGaps \ G # AllGaps \ K
      BY <2>2
    <3>2. /\ Cardinality(AllGaps \ G) =< Cardinality(AllGaps \ K)
          /\ Cardinality(AllGaps \ G) # Cardinality(AllGaps \ K)
      BY <1>0, <3>1, FS_Subset
    <3> QED
      BY <1>0, <1>3, <3>2
  <2>4. Good(G)
    <3>1. Cardinality(AllGaps \ G) \notin T
      <4> HIDE DEF T
      <4>1. Cardinality(AllGaps \ G) \in Nat
        BY <1>0
      <4> QED
        BY <1>2, <2>3, <4>1
    <3> QED
      BY <1>0, <3>1
  <2>5. Good(K)
    <3>1. ASSUME NEW M, K \subseteq M, IsClosed(M, r) PROVE f[K] \subseteq M
      <4>1. G \subseteq M
        BY <2>1, <3>1, GrowAdds
      <4> QED
        BY <2>2, <2>4, <3>1, <4>1
    <3> QED
      BY <2>2, <2>4, <3>1
  <2> QED
    BY <1>3, <2>5
<1> QED
  BY <1>5, <1>6

\* The gaps from which a path reads r before it writes it.
LEMMA LiveGapsIsLeast ==
  ASSUME TypeOK, NEW r
  PROVE  /\ Starts(r) \subseteq LiveGaps(r) /\ IsClosed(LiveGaps(r), r)
         /\ \A M : Starts(r) \subseteq M /\ IsClosed(M, r) => LiveGaps(r) \subseteq M
<1>1. PICK f : ClosureDef(f, r) /\ LiveGaps(r) = f[Starts(r)]
  BY LiveGapsUnfold
<1>2. Starts(r) \in SUBSET AllGaps
  BY DEF Starts
<1> QED
  BY <1>1, <1>2, ClosureIsLeast

-----------------------------------------------------------------------------
\* A gap is a block and a place in its code.
LEMMA GapsAre ==
  ASSUME NEW b, NEW n
  PROVE  <<b, n>> \in AllGaps <=> b \in Block /\ n \in 1..(Len(code[b]) + 1)
BY DEF AllGaps, Gaps

\* A gap is a block and a place in its code.
LEMMA GapParts ==
  ASSUME NEW p \in AllGaps
  PROVE  /\ p[1] \in Block /\ p[2] \in 1..(Len(code[p[1]]) + 1)
         /\ p = <<p[1], p[2]>>
BY DEF AllGaps, Gaps

\* When the rounds are over every numbered block satisfies the flow equations.
LEMMA DoneConsistent ==
  ASSUME Inv, pc = "done", NEW j \in DOMAIN rpo PROVE Consistent(rpo[j])
<1>1. at = 0 /\ ~ change /\ rpo \in Seq(Block)
  BY DEF Inv, PlaceOK, TypeOK, OrderTypeOK
<1>2. j \in (at + 1)..Len(rpo)
  BY <1>1, LenProperties
<1>3. rpo[j] \in Settled
  BY <1>2 DEF Settled
<1> QED
  BY <1>1, <1>3 DEF Inv, RoundOK

\* What the search finds is in the sets the rounds end with: those sets satisfy
\* the flow equations in every numbered block, and numbers follow the edges.
LEMMA FoundAtPoint ==
  ASSUME Inv, WalkInv, pc = "done", NEW r \in Reg, NEW j \in DOMAIN rpo, NEW i \in Nat,
         <<rpo[j], i>> \in LiveGaps(r)
  PROVE  r \in point[rpo[j]][i - 1]
<1>1. /\ TypeOK /\ succs \in [Block -> Seq(Block)] /\ rpo \in Seq(Block)
      /\ \A b \in Block : Len(code[b]) \in Nat
  BY LenProperties DEF Inv, TypeOK, OrderTypeOK
<1>2. \A b \in Block : IsNumbered(b) => Consistent(b)
  BY <1>1, DoneConsistent DEF IsNumbered
<1>3. ClosedOK
  BY DEF WalkInv
<1> DEFINE M == {p \in AllGaps : IsNumbered(p[1]) => r \in point[p[1]][p[2] - 1]}
<1>4. Starts(r) \subseteq M
  <2> SUFFICES ASSUME NEW p \in AllGaps, Reads(p, r), IsNumbered(p[1])
               PROVE  r \in point[p[1]][p[2] - 1]
    BY DEF Starts
  <2>1. p[1] \in Block /\ p[2] \in 1..Len(code[p[1]])
    BY <1>1, GapParts DEF Reads
  <2>2. point[p[1]][p[2] - 1] = Before(code[p[1]][p[2]], point[p[1]][p[2]])
    BY <1>2, <2>1 DEF Consistent
  <2> QED
    BY <2>2 DEF Reads, Before
<1>5. IsClosed(M, r)
  <2> SUFFICES ASSUME NEW p \in AllGaps, ~ Writes(p, r), NEW q \in After(p), q \in M,
                      IsNumbered(p[1])
               PROVE  r \in point[p[1]][p[2] - 1]
    BY DEF IsClosed, Grow
  <2>b. PICK b, n : b = p[1] /\ n = p[2]
    OBVIOUS
  <2>1. b \in Block /\ n \in 1..(Len(code[b]) + 1) /\ Consistent(b)
    BY <1>2, <2>b, GapParts
  <2>2. CASE n =< Len(code[b])
    <3>1. q = <<b, n + 1>>
      BY <2>2, <2>b DEF After
    <3>2. r \in point[b][n]
      <4>1. q[1] = b /\ q[2] - 1 = n
        BY <2>1, <3>1
      <4> QED
        BY <2>b, <4>1
    <3>3. r \notin code[b][n].out
      BY <2>2, <2>b DEF Writes
    <3>4. point[b][n - 1] = Before(code[b][n], point[b][n])
      BY <2>1, <2>2 DEF Consistent
    <3> QED
      BY <2>b, <3>2, <3>3, <3>4 DEF Before
  <2>3. CASE ~ (n =< Len(code[b]))
    <3>1. n - 1 = Len(code[b])
      BY <1>1, <2>1, <2>3
    <3>2. PICK m \in DOMAIN succs[b] : q = <<succs[b][m], 1>>
      BY <2>3, <2>b DEF After
    <3>3. PICK s \in Block : s = succs[b][m]
      BY <1>1, <2>1
    <3>4. IsNumbered(s)
      BY <1>3, <2>1, <2>b, <3>3 DEF ClosedOK
    <3>5. r \in point[s][0]
      <4>1. q[1] = s /\ q[2] - 1 = 0
        BY <3>2, <3>3
      <4> QED
        BY <3>4, <4>1
    <3>6. r \in livein[s]
      BY <1>2, <3>4, <3>5 DEF Consistent
    <3>7. r \in LiveAtEnd(b)
      BY <3>3, <3>6 DEF LiveAtEnd
    <3>8. r \in point[b][Len(code[b])]
      BY <2>1, <3>7 DEF Consistent
    <3> QED
      BY <2>b, <3>1, <3>8
  <2> QED
    BY <2>2, <2>3
<1>6. LiveGaps(r) \subseteq M
  <2> HIDE DEF M
  <2> QED
    BY <1>1, <1>4, <1>5, LiveGapsIsLeast
<1>7. rpo[j] \in Block /\ IsNumbered(rpo[j])
  BY <1>1, ElementOfSeq, LenProperties DEF IsNumbered
<1>8. PICK g : g = <<rpo[j], i>>
  OBVIOUS
<1>9. g \in M /\ g[1] = rpo[j] /\ g[2] = i
  BY <1>6, <1>8
<1> QED
  BY <1>7, <1>9

\* What some path from the start of a numbered block reads is in its live-in set.
LEMMA FoundIsLive ==
  ASSUME Inv, WalkInv, pc = "done", NEW r \in Reg, NEW i \in DOMAIN rpo,
         <<rpo[i], 1>> \in LiveGaps(r)
  PROVE  r \in livein[rpo[i]]
<1>1. r \in point[rpo[i]][1 - 1]
  BY FoundAtPoint
<1>2. Consistent(rpo[i])
  BY DoneConsistent
<1> QED
  BY <1>1, <1>2 DEF Consistent

-----------------------------------------------------------------------------
\* The registers the search finds at each gap: a solution of the flow equations.
Found == [b \in Block |-> [i \in 0..Len(code[b]) |-> {r \in Reg : <<b, i + 1>> \in LiveGaps(r)}]]

\* The sets that the rounds compute, seen as gaps, satisfy the equations of liveness.
LEMMA FoundSolves == ASSUME TypeOK PROVE Solves(Found)
<1>1. /\ succs \in [Block -> Seq(Block)] /\ code \in [Block -> Seq(Insn)]
      /\ \A b \in Block : Len(code[b]) \in Nat
  BY LenProperties DEF TypeOK, OrderTypeOK
<1>2. ASSUME NEW b \in Block, NEW i \in 0..Len(code[b])
      PROVE  Found[b][i] = {r \in Reg : <<b, i + 1>> \in LiveGaps(r)}
  BY DEF Found
<1>3. ASSUME NEW b \in Block, NEW i \in DOMAIN succs[b]
      PROVE  Found[succs[b][i]][0] \subseteq Found[b][Len(code[b])]
  <2>1. PICK s \in Block : s = succs[b][i]
    BY <1>1, <1>3
  <2>2. 0 \in 0..Len(code[s]) /\ Len(code[b]) \in 0..Len(code[b]) /\ 0 + 1 = 1
    BY <1>1
  <2> SUFFICES ASSUME NEW r \in Reg, <<s, 1>> \in LiveGaps(r)
               PROVE  <<b, Len(code[b]) + 1>> \in LiveGaps(r)
    BY <1>2, <2>1, <2>2
  <2>p. PICK p : p = <<b, Len(code[b]) + 1>>
    OBVIOUS
  <2>3. p[1] = b /\ p[2] = Len(code[b]) + 1 /\ ~ (p[2] =< Len(code[p[1]]))
    BY <1>1, <2>p
  <2>4. p \in AllGaps
    <3>1. Len(code[b]) + 1 \in 1..(Len(code[b]) + 1)
      BY <1>1
    <3> QED
      BY <2>p, <3>1, GapsAre
  <2>5. ~ Writes(p, r)
    BY <2>3 DEF Writes
  <2>6. <<s, 1>> \in After(p)
    BY <2>1, <2>3 DEF After
  <2>7. p \in Grow(LiveGaps(r), r)
    BY <2>4, <2>5, <2>6 DEF Grow
  <2> QED
    BY <2>7, <2>p, LiveGapsIsLeast DEF IsClosed
<1>4. ASSUME NEW b \in Block, NEW i \in 1..Len(code[b])
      PROVE  Before(code[b][i], Found[b][i]) \subseteq Found[b][i - 1]
  <2>1. i - 1 \in 0..Len(code[b]) /\ i \in 0..Len(code[b]) /\ i - 1 + 1 = i
    BY <1>1
  <2>2. code[b][i].in \subseteq Reg
    <3>1. code[b] \in Seq(Insn)
      BY <1>1
    <3>2. code[b][i] \in Insn
      BY <3>1, ElementOfSeq
    <3> QED
      BY <3>2 DEF Insn
  <2> SUFFICES ASSUME NEW r \in Reg,
                      r \in code[b][i].in \/ (<<b, i + 1>> \in LiveGaps(r) /\ r \notin code[b][i].out)
               PROVE  <<b, i>> \in LiveGaps(r)
    BY <1>2, <2>1, <2>2 DEF Before
  <2>p. PICK p : p = <<b, i>>
    OBVIOUS
  <2>3. p[1] = b /\ p[2] = i /\ p[2] =< Len(code[p[1]])
    BY <1>1, <2>p
  <2>4. p \in AllGaps
    BY <1>1, <2>p, GapsAre, SMTT(30)
  <2>5. CASE r \in code[b][i].in
    <3>1. p \in Starts(r)
      BY <2>3, <2>4, <2>5 DEF Starts, Reads
    <3> QED
      BY <2>p, <3>1, LiveGapsIsLeast
  <2>6. CASE <<b, i + 1>> \in LiveGaps(r) /\ r \notin code[b][i].out
    <3>1. ~ Writes(p, r)
      BY <2>3, <2>6 DEF Writes
    <3>2. <<b, i + 1>> \in After(p)
      BY <2>3 DEF After
    <3>3. p \in Grow(LiveGaps(r), r)
      BY <2>4, <2>6, <3>1, <3>2 DEF Grow
    <3> QED
      BY <2>p, <3>3, LiveGapsIsLeast DEF IsClosed
  <2> QED
    BY <2>5, <2>6
<1> QED
  BY <1>3, <1>4 DEF Solves

\* Neither the graph nor the code changes, so the search has the same result.
LEMMA FoundIsFixed == ASSUME succs' = succs, code' = code PROVE Found' = Found
<1>1. \A r : LiveGaps(r)' = LiveGaps(r)
  BY DEF LiveGaps, Gaps, After, Reads, Writes
<1> QED
  BY <1>1 DEF Found

\* No set exceeds what the search finds.
THEOREM BelowFound == Spec => []Below(Found)
<1>1. Init => Below(Found)
  BY DEF Init, OrderInit, Below
<1>2. Inv /\ Below(Found) /\ [Next]_vars => Below(Found)'
  <2> SUFFICES ASSUME Inv, Below(Found), [Next]_vars PROVE Below(Found)'
    OBVIOUS
  <2>1. PICK P : P = Found
    OBVIOUS
  <2>2. succs' = succs /\ code' = code
    BY DEF Next, Order, OrderNext, Visit, Advance, Ordered, StartRounds, EnterBlock,
           WalkInsn, LeaveBlock, EndRound, vars
  <2>3. Found' = P
    BY <2>1, <2>2, FoundIsFixed
  <2>4. Below(P)
    BY <2>1
  <2>5. Below(P)'
    BY <2>4, BelowStep
  <2> QED
    BY <2>3, <2>5 DEF Below, Solves
<1> QED
  BY <1>1, <1>2, Invariance, PTL DEF Spec

\* compute_global_live_sets: the live-in set of a numbered block has exactly the
\* registers some path from there reads before it writes them.
THEOREM ExactHolds == Spec => []Exact
<1>1. Inv /\ WalkInv /\ Below(Found) => Exact
  <2> SUFFICES ASSUME Inv, WalkInv, Below(Found), pc = "done", NEW r \in Reg, NEW i \in DOMAIN rpo
               PROVE  r \in livein[rpo[i]] <=> <<rpo[i], 1>> \in LiveGaps(r)
    BY DEF Exact
  <2>1. ASSUME r \in livein[rpo[i]] PROVE <<rpo[i], 1>> \in LiveGaps(r)
    <3>1. TypeOK /\ rpo \in Seq(Block) /\ \A b \in Block : Len(code[b]) \in Nat
      BY LenProperties DEF Inv, TypeOK, OrderTypeOK
    <3>2. PICK b \in Block : b = rpo[i]
      BY <3>1, ElementOfSeq, LenProperties
    <3>3. livein[b] \subseteq Found[b][0]
      BY <3>1, FoundSolves DEF Below
    <3>4. 0 \in 0..Len(code[b]) /\ 0 + 1 = 1
      BY <3>1
    <3>5. Found[b][0] = {s \in Reg : <<b, 0 + 1>> \in LiveGaps(s)}
      BY <3>4 DEF Found
    <3> QED
      BY <2>1, <3>2, <3>3, <3>4, <3>5
  <2> QED
    BY <2>1, FoundIsLive
<1> QED
  BY <1>1, BelowFound, WalkInvariance, PTL
=============================================================================
