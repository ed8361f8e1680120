----------------------------- MODULE Frame_proofs -----------------------------
(***************************************************************************)
(* The frame layout for every size, and the stack pointer in every run of  *)
(* every program: it is aligned wherever another function begins.  The     *)
(* words parameters are passed in are inside the frame of the caller and   *)
(* apart from each other.                                                  *)
(***************************************************************************)
EXTENDS Frame, TLAPS, FiniteSetTheorems, SequenceTheorems, WellFoundedInduction

\* SPILL_REG is not counted as saved once an instruction writes it, which the branch
\* at the end of the entry block does.
LEMMA SavedSizeWritten ==
  ASSUME NEW size, NEW saved
  PROVE  SavedSize(size, saved, TRUE) = saved
BY DEF SavedSize

\* update_frame_layout makes frame and saved registers together a multiple of eight,
\* with at most one word of padding: its second test for alignment changes nothing.
THEOREM FrameAligned ==
  ASSUME NEW size \in Nat, NEW saved \in Nat, size % 4 = 0, saved % 4 = 0
  PROVE  /\ (StackSize(size, saved, TRUE) + saved) % 8 = 0
         /\ StackSize(size, saved, TRUE) \in {size, size + UNITS_PER_WORD}
<1> DEFINE padded == size + PadSize(size, saved)
<1>1. padded \in Nat /\ (padded + saved) % 8 = 0 /\ padded \in {size, size + UNITS_PER_WORD}
  <2>1. CASE (size + saved) % 8 = 0
    BY <2>1 DEF PadSize
  <2>2. CASE (size + saved) % 8 # 0
    <3>1. PadSize(size, saved) = 4
      BY <2>2 DEF PadSize, UNITS_PER_WORD
    <3>2. (size + saved) % 4 = 0
      OBVIOUS
    <3>3. (size + saved) % 8 = 4
      BY <2>2, <3>2
    <3>4. (size + saved + 4) % 8 = 0
      BY <3>3
    <3> QED
      BY <3>1, <3>4 DEF UNITS_PER_WORD
  <2> QED
    BY <2>1, <2>2
<1>2. (padded + saved) % 4 = 0
  BY <1>1
<1>3. StackSize(size, saved, TRUE) = padded
  BY <1>2, SavedSizeWritten DEF StackSize
<1> QED
  BY <1>1, <1>3

\* A parameter on the stack is inside what stackAlloc sets aside for a call with so many
\* parameters, although it takes every float for one that needs a word.
THEOREM OutgoingFits ==
  ASSUME NEW n \in Nat, NEW kind \in {"int", "float"}, NEW icnt \in Nat, NEW fcnt \in Nat,
         icnt + fcnt < n, ~ InRegister(kind, icnt, fcnt)
  PROVE  /\ 0 =< OnStack(icnt, fcnt)
         /\ OnStack(icnt, fcnt) + UNITS_PER_WORD =< ArgSize(n)
<1>1. CASE kind = "int"
  BY <1>1 DEF InRegister, OnStack, ArgSize, Larger, UNITS_PER_WORD, NUM_ARG_REGS, NUM_VFP_ARG_REGS
<1>2. CASE kind = "float"
  BY <1>2 DEF InRegister, OnStack, ArgSize, Larger, UNITS_PER_WORD, NUM_ARG_REGS, NUM_VFP_ARG_REGS
<1> QED
  BY <1>1, <1>2

\* A parameter on the stack is below every parameter after it: translate_call and
\* translate_entry never give two of them the same word, whatever their kinds.
THEOREM ParametersApart ==
  ASSUME NEW kind \in {"int", "float"}, NEW icnt \in Nat, NEW fcnt \in Nat,
         NEW later_i \in Nat, NEW later_f \in Nat,
         ~ InRegister(kind, icnt, fcnt),
         later_i >= icnt + (IF kind = "int" THEN 1 ELSE 0),
         later_f >= fcnt + (IF kind = "float" THEN 1 ELSE 0)
  PROVE  OnStack(icnt, fcnt) + UNITS_PER_WORD =< OnStack(later_i, later_f)
<1>1. CASE kind = "int"
  BY <1>1 DEF InRegister, OnStack, Larger, UNITS_PER_WORD, NUM_ARG_REGS, NUM_VFP_ARG_REGS
<1>2. CASE kind = "float"
  BY <1>2 DEF InRegister, OnStack, Larger, UNITS_PER_WORD, NUM_ARG_REGS, NUM_VFP_ARG_REGS
<1> QED
  BY <1>1, <1>2

\* Registers for parameters of one kind differ, and are among those a call may change.
THEOREM RegistersApart ==
  ASSUME NEW kind \in {"int", "float"}, NEW icnt \in Nat, NEW fcnt \in Nat,
         NEW kind2 \in {"int", "float"}, NEW icnt2 \in Nat, NEW fcnt2 \in Nat,
         InRegister(kind, icnt, fcnt), InRegister(kind2, icnt2, fcnt2)
  PROVE  /\ Register(kind, icnt, fcnt) \in CallerSave
         /\ Register(kind, icnt, fcnt) = Register(kind2, icnt2, fcnt2) =>
              kind = kind2 /\ IF kind = "int" THEN icnt = icnt2 ELSE fcnt = fcnt2
<1>1. Register(kind, icnt, fcnt) \in CallerSave
  <2>1. CASE kind = "int"
    BY <2>1 DEF InRegister, Register, CallerSave, NUM_ARG_REGS
  <2>2. CASE kind = "float"
    <3>1. fcnt \in 0..15
      BY <2>2 DEF InRegister, NUM_VFP_ARG_REGS
    <3> QED
      BY <2>2, <3>1 DEF Register, CallerSave
  <2> QED
    BY <2>1, <2>2
<1>2. ASSUME Register(kind, icnt, fcnt) = Register(kind2, icnt2, fcnt2)
      PROVE  kind = kind2 /\ IF kind = "int" THEN icnt = icnt2 ELSE fcnt = fcnt2
  BY <1>2 DEF InRegister, Register, VREG, NUM_ARG_REGS, NUM_VFP_ARG_REGS
<1> QED
  BY <1>1, <1>2

-----------------------------------------------------------------------------
\* How far the stack pointer is from where it was when the activation began.
Offset(f, step) ==
  IF step \in {"push", "leave"} THEN 0
  ELSE IF step \in {"vpush", "pop"} THEN UNITS_PER_WORD * Len(f.general)
  ELSE UNITS_PER_WORD * (Len(f.general) + Len(f.vfp))
         + (IF step \in {"fp", "move", "vpop"} THEN 0 ELSE f.frame)

Steps == {"push", "vpush", "fp", "move", "take", "call", "place", "result", "recover", "vpop", "pop", "leave"}

\* With everything a function saves and its frame on the stack, the stack is aligned.
Balanced(f) ==
  /\ Len(f.general) \in Nat /\ Len(f.vfp) \in Nat /\ f.frame \in Nat
  /\ Offset(f, "call") % 8 = 0

ProgramOK ==
  /\ 1 \in DOMAIN program
  /\ \A n \in DOMAIN program :
       /\ Balanced(program[n])
       /\ \A k \in DOMAIN program[n].calls :
            program[n].calls[k].fn = 0 \/ program[n].calls[k].fn \in DOMAIN program

\* What is needed to know of an activation; those that wait have called another.
Activation(a) ==
  /\ {"fn", "step", "call"} \subseteq DOMAIN a /\ a.fn \in DOMAIN program /\ a.step \in Steps
  /\ a.step = "place" => a.call \in DOMAIN program[a.fn].calls
StackOK ==
  /\ \E S : stack \in Seq(S)
  /\ \A i \in DOMAIN stack : Activation(stack[i]) /\ (i < Len(stack) => stack[i].step = "result")

PointerOK == sp \in Int /\ (stack # <<>> => (sp + Offset(Fn, Top.step)) % 8 = 0)

AlignInv == ProgramOK /\ StackOK /\ PointerOK

-----------------------------------------------------------------------------
\* A non-empty set of natural numbers has a least element.
LEMMA Smallest ==
  ASSUME NEW T, T \subseteq Nat, T # {}
  PROVE  \E n \in T : n \in Nat /\ \A m \in T : n =< m
<1>1. PICK n \in T : \A m \in T : ~ (<<m, n>> \in OpToRel(<, Nat))
  BY WFMin, NatLessThanWellFounded, Zenon
<1>2. \A m \in T : m \in Nat /\ n \in Nat /\ ~ (m < n)
  BY <1>1 DEF OpToRel
<1> QED
  BY <1>2

\* Values computed one after the other.
Computes(g, N, D, a, F) ==
  g \in [0..N -> D] /\ g[0] = a /\ \A n \in 1..N : g[n] = F[<<n, g[n - 1]>>]

\* A function that goes on from each value to the next exists up to every number.
LEMMA Recursion ==
  ASSUME NEW D, NEW a \in D, NEW N \in Nat, NEW F \in [(1..N) \X D -> D]
  PROVE  \E g : Computes(g, N, D, a, F)
<1> DEFINE T == {n \in Nat : n =< N /\ ~ (\E g : Computes(g, n, D, a, F))}
<1>1. T = {}
  <2> SUFFICES ASSUME T # {} PROVE FALSE
    OBVIOUS
  <2>1. PICK n \in T : n \in Nat /\ \A m \in T : n =< m
    <3>1. T \subseteq Nat
      OBVIOUS
    <3> HIDE DEF T
    <3> QED
      BY <3>1, Smallest
  <2>2. CASE n = 0
    <3> DEFINE f == [j \in 0..0 |-> a]
    <3>1. Computes(f, 0, D, a, F)
      BY DEF Computes
    <3> QED
      BY <2>1, <2>2, <3>1
  <2>3. CASE n # 0
    <3>1. PICK o \in Nat : n = o + 1 /\ o =< N /\ ~ (n =< o) /\ n \in 1..N
      <4>1. n - 1 \in Nat /\ n = n - 1 + 1 /\ n - 1 =< N /\ ~ (n =< n - 1) /\ n \in 1..N
        BY <2>1, <2>3
      <4> QED
        BY <4>1
    <3>2. PICK g : Computes(g, o, D, a, F)
      <4>1. o \notin T
        <5> HIDE DEF T
        <5> QED
          BY <2>1, <3>1
      <4> QED
        BY <3>1, <4>1
    <3>3. /\ g \in [0..o -> D] /\ g[0] = a /\ g[o] \in D
          /\ \A j \in 1..o : g[j] = F[<<j, g[j - 1]>>]
      BY <3>1, <3>2 DEF Computes
    <3>c. PICK c \in D : c = F[<<n, g[o]>>]
      BY <3>1, <3>3
    <3> DEFINE f == [j \in 0..n |-> IF j = n THEN c ELSE g[j]]
    <3>4. f \in [0..n -> D] /\ f[0] = a
      BY <3>1, <3>3, <3>c
    <3>5. ASSUME NEW j \in 1..n PROVE f[j] = F[<<j, f[j - 1]>>]
      <4>1. CASE j = n
        <5>1. j - 1 = o /\ f[j] = c /\ f[o] = g[o]
          BY <3>1, <4>1
        <5> QED
          BY <3>c, <4>1, <5>1
      <4>2. CASE j # n
        <5>1. j \in 1..o /\ f[j] = g[j] /\ f[j - 1] = g[j - 1]
          BY <3>1, <4>2
        <5> QED
          BY <3>3, <5>1
      <4> QED
        BY <4>1, <4>2
    <3>6. Computes(f, n, D, a, F)
      <4> HIDE DEF f
      <4> QED
        BY <3>4, <3>5 DEF Computes
    <3> QED
      BY <2>1, <3>6
  <2> QED
    BY <2>2, <2>3
<1>2. N =< N /\ N \notin T
  BY <1>1
<1> QED
  BY <1>2

-----------------------------------------------------------------------------
\* What Collect computes on its way: the marked ones among the first n.
CollectDef(g, s, T) ==
  g = [n \in 0..Len(s) |->
         IF n = 0 THEN <<>> ELSE IF s[n] \in T THEN Append(g[n - 1], s[n]) ELSE g[n - 1]]

Unequal(s) == \A i, j \in 1..Len(s) : i # j => s[i] # s[j]

\* The function Collect is written with has a value.
LEMMA CollectExists ==
  ASSUME NEW S, NEW s \in Seq(S), NEW T
  PROVE  \E g : CollectDef(g, s, T) /\ g \in [0..Len(s) -> Seq(S)]
<1>1. Len(s) \in Nat /\ \A n \in 1..Len(s) : s[n] \in S
  OBVIOUS
<1> DEFINE F == [p \in (1..Len(s)) \X Seq(S) |-> IF s[p[1]] \in T THEN Append(p[2], s[p[1]]) ELSE p[2]]
<1>2. F \in [(1..Len(s)) \X Seq(S) -> Seq(S)]
  <2>1. ASSUME NEW p \in (1..Len(s)) \X Seq(S)
        PROVE  (IF s[p[1]] \in T THEN Append(p[2], s[p[1]]) ELSE p[2]) \in Seq(S)
    BY <1>1
  <2> QED
    BY <2>1
<1>3. <<>> \in Seq(S)
  OBVIOUS
<1>4. \A n \in 1..Len(s) : \A q \in Seq(S) :
        F[<<n, q>>] = IF s[n] \in T THEN Append(q, s[n]) ELSE q
  OBVIOUS
<1> HIDE DEF F
<1>5. PICK g : Computes(g, Len(s), Seq(S), <<>>, F)
  BY <1>1, <1>2, <1>3, Recursion
<1>6. g \in [0..Len(s) -> Seq(S)] /\ g[0] = <<>> /\ \A n \in 1..Len(s) : g[n] = F[<<n, g[n - 1]>>]
  BY <1>5 DEF Computes
<1>7. ASSUME NEW n \in 0..Len(s)
      PROVE  g[n] = IF n = 0 THEN <<>> ELSE IF s[n] \in T THEN Append(g[n - 1], s[n]) ELSE g[n - 1]
  <2>1. CASE n = 0
    BY <1>6, <2>1
  <2>2. CASE n # 0
    <3>1. n \in 1..Len(s) /\ n - 1 \in 0..Len(s)
      BY <1>1, <2>2
    <3>2. g[n - 1] \in Seq(S)
      BY <1>6, <3>1
    <3> QED
      BY <1>4, <1>6, <2>2, <3>1, <3>2
  <2> QED
    BY <2>1, <2>2
<1>8. CollectDef(g, s, T)
  <2> DEFINE h == [n \in 0..Len(s) |->
         IF n = 0 THEN <<>> ELSE IF s[n] \in T THEN Append(g[n - 1], s[n]) ELSE g[n - 1]]
  <2>1. g = [n \in 0..Len(s) |-> g[n]]
    BY <1>6
  <2>2. \A n \in 0..Len(s) : g[n] = h[n]
    BY <1>7
  <2>3. h = [n \in 0..Len(s) |-> h[n]]
    OBVIOUS
  <2>4. g = h
    <3> HIDE DEF h
    <3> QED
      BY <2>1, <2>2, <2>3
  <2> QED
    BY <2>4 DEF CollectDef
<1> QED
  BY <1>6, <1>8

\* Collect has exactly the marked elements, as often as the sequence has them.
LEMMA CollectFinds ==
  ASSUME NEW S, NEW s \in Seq(S), NEW T
  PROVE  /\ Collect(s, T) \in Seq(S)
         /\ \A x : Contains(Collect(s, T), x) <=> x \in T /\ Contains(s, x)
         /\ Unequal(s) => Unequal(Collect(s, T))
<1>1. Len(s) \in Nat /\ \A n \in 1..Len(s) : s[n] \in S
  OBVIOUS
<1> DEFINE f == CHOOSE g : CollectDef(g, s, T)
<1>2. Collect(s, T) = f[Len(s)]
  BY DEF Collect, CollectDef
<1>3. CollectDef(f, s, T)
  BY CollectExists
<1> HIDE DEF f
<1>4. /\ f[0] = <<>>
      /\ \A n \in 1..Len(s) : f[n] = IF s[n] \in T THEN Append(f[n - 1], s[n]) ELSE f[n - 1]
  <2>1. f = [n \in 0..Len(s) |->
              IF n = 0 THEN <<>> ELSE IF s[n] \in T THEN Append(f[n - 1], s[n]) ELSE f[n - 1]]
    BY <1>3 DEF CollectDef
  <2>2. 0 \in 0..Len(s) /\ \A n \in 1..Len(s) : n \in 0..Len(s) /\ n # 0
    BY <1>1
  <2>3. \A n \in 0..Len(s) :
          f[n] = IF n = 0 THEN <<>> ELSE IF s[n] \in T THEN Append(f[n - 1], s[n]) ELSE f[n - 1]
    BY <2>1, Zenon
  <2> QED
    BY <2>2, <2>3
<1> DEFINE P(n) == /\ f[n] \in Seq(S)
                   /\ \A x : Contains(f[n], x) <=> x \in T /\ \E i \in 1..n : s[i] = x
                   /\ (\A i, j \in 1..n : i # j => s[i] # s[j]) => Unequal(f[n])
           B == {n \in Nat : n =< Len(s) /\ ~ P(n)}
<1>5. P(0)
  <2>1. f[0] \in Seq(S) /\ Len(f[0]) = 0
    BY <1>4
  <2> QED
    BY <2>1 DEF Contains, Unequal
<1>6. ASSUME NEW o \in Nat, NEW n \in 1..Len(s), n = o + 1, P(o) PROVE P(n)
  <2>0. /\ f[o] \in Seq(S)
        /\ \A x : Contains(f[o], x) <=> x \in T /\ \E i \in 1..o : s[i] = x
        /\ (\A i, j \in 1..o : i # j => s[i] # s[j]) => Unequal(f[o])
    BY <1>6
  <2>e. PICK e \in S : e = s[n]
    BY <1>1
  <2>i. \A i : i \in 1..n <=> i \in 1..o \/ i = n
    BY <1>6
  <2>1. f[n] = IF e \in T THEN Append(f[o], e) ELSE f[o]
    <3>1. n - 1 = o
      BY <1>6
    <3> QED
      BY <1>4, <1>6, <2>e, <3>1
  <2>2. CASE e \notin T
    <3>1. f[n] = f[o]
      BY <2>1, <2>2
    <3> QED
      BY <2>0, <2>e, <2>i, <2>2, <3>1
  <2>3. CASE e \in T
    <3>1. PICK q \in Seq(S), t \in Seq(S) : q = f[o] /\ t = f[n] /\ t = Append(q, e)
      <4>1. f[n] = Append(f[o], e)
        BY <2>1, <2>3
      <4>2. Append(f[o], e) \in Seq(S)
        BY <2>0
      <4> QED
        BY <2>0, <4>1, <4>2
    <3>2. /\ Len(q) \in Nat /\ Len(t) = Len(q) + 1 /\ t[Len(q) + 1] = e
          /\ \A i \in 1..Len(q) : t[i] = q[i]
      BY <3>1
    <3>3. \A i : i \in 1..Len(t) <=> i \in 1..Len(q) \/ i = Len(q) + 1
      BY <3>2
    <3>4. \A x : Contains(t, x) <=> Contains(q, x) \/ x = e
      BY <3>2, <3>3 DEF Contains
    <3>5. \A x : Contains(t, x) <=> x \in T /\ \E i \in 1..n : s[i] = x
      BY <2>0, <2>e, <2>i, <2>3, <3>1, <3>4
    <3>6. ASSUME \A i, j \in 1..n : i # j => s[i] # s[j] PROVE Unequal(t)
      <4>1. Unequal(q)
        BY <2>0, <2>i, <3>1, <3>6
      <4>2. ~ Contains(q, e)
        <5>1. \A i \in 1..o : i # n
          BY <1>6
        <5> QED
          BY <2>0, <2>e, <2>i, <3>1, <3>6, <5>1
      <4> QED
        BY <3>2, <3>3, <4>1, <4>2 DEF Unequal, Contains
    <3> QED
      BY <3>1, <3>5, <3>6
  <2> QED
    BY <2>2, <2>3
<1>7. B = {}
  <2> SUFFICES ASSUME B # {} PROVE FALSE
    OBVIOUS
  <2>1. PICK n \in B : n \in Nat /\ \A m \in B : n =< m
    <3>1. B \subseteq Nat
      OBVIOUS
    <3> HIDE DEF B
    <3> QED
      BY <3>1, Smallest
  <2>2. n =< Len(s) /\ ~ P(n)
    BY <2>1
  <2>3. n # 0
    BY <1>5, <2>2
  <2>4. PICK o \in Nat : n = o + 1 /\ o =< Len(s) /\ ~ (n =< o) /\ n \in 1..Len(s)
    <3>1. n - 1 \in Nat /\ n = n - 1 + 1 /\ n - 1 =< Len(s) /\ ~ (n =< n - 1) /\ n \in 1..Len(s)
      BY <1>1, <2>1, <2>2, <2>3
    <3> QED
      BY <3>1
  <2>5. o \notin B
    <3> HIDE DEF B
    <3> QED
      BY <2>1, <2>4
  <2>6. P(o)
    <3> HIDE DEF P
    <3> QED
      BY <2>4, <2>5
  <2> HIDE DEF P, B
  <2> QED
    BY <1>6, <2>2, <2>4, <2>6
<1>8. P(Len(s))
  <2>1. Len(s) \in Nat /\ Len(s) =< Len(s)
    BY <1>1
  <2>2. Len(s) \notin B
    <3> HIDE DEF B
    <3> QED
      BY <1>7
  <2> HIDE DEF P
  <2> QED
    BY <2>1, <2>2
<1> QED
  BY <1>2, <1>8 DEF Contains, Unequal

-----------------------------------------------------------------------------
\* What holds at zero and goes on from each number to the next holds up to N.
LEMMA Upwards ==
  ASSUME NEW N \in Nat, NEW H, 0 \in H, \A n \in 0..N : n < N /\ n \in H => n + 1 \in H
  PROVE  \A n \in 0..N : n \in H
<1> DEFINE T == {n \in Nat : n =< N /\ n \notin H}
<1> SUFFICES ASSUME T # {} PROVE FALSE
  OBVIOUS
<1>1. PICK n \in T : n \in Nat /\ \A m \in T : n =< m
  <2>1. T \subseteq Nat
    OBVIOUS
  <2> HIDE DEF T
  <2> QED
    BY <2>1, Smallest
<1>2. n - 1 \in Nat /\ n - 1 < N /\ n - 1 + 1 = n /\ ~ (n =< n - 1) /\ n - 1 \in 0..N
  BY <1>1
<1>3. n - 1 \notin T
  BY <1>1, <1>2
<1>4. n - 1 \in H
  BY <1>2, <1>3
<1> QED
  BY <1>1, <1>2, <1>4

\* Finitely many numbers have a largest one.
LEMMA Largest ==
  ASSUME NEW N \in Nat, NEW v \in [1..N -> Nat]
  PROVE  \E m \in Nat : (m = 0 \/ \E k \in 1..N : v[k] = m) /\ \A k \in 1..N : v[k] =< m
<1> DEFINE P(n) == \E m \in Nat : (m = 0 \/ \E k \in 1..n : v[k] = m) /\ \A k \in 1..n : v[k] =< m
           H == {n \in Nat : P(n)}
<1>1. 0 \in H
  <2>1. P(0)
    OBVIOUS
  <2> QED
    BY <2>1
<1>2. ASSUME NEW n \in 0..N, n < N, n \in H PROVE n + 1 \in H
  <2>1. PICK m \in Nat : (m = 0 \/ \E k \in 1..n : v[k] = m) /\ \A k \in 1..n : v[k] =< m
    BY <1>2
  <2>2. /\ n + 1 \in Nat /\ n + 1 \in 1..N /\ v[n + 1] \in Nat /\ n + 1 \in 1..(n + 1)
        /\ \A k \in 1..(n + 1) : k = n + 1 \/ k \in 1..n
        /\ \A k \in 1..n : k \in 1..(n + 1) /\ k \in 1..N
    BY <1>2
  <2>3. P(n + 1)
    <3>1. CASE v[n + 1] =< m
      BY <2>1, <2>2, <3>1
    <3>2. CASE ~ (v[n + 1] =< m)
      <4>1. \A k \in 1..(n + 1) : v[k] =< v[n + 1]
        <5>1. m =< v[n + 1] /\ v[n + 1] =< v[n + 1]
          BY <2>2, <3>2
        <5>2. \A k \in 1..n : v[k] \in Nat
          BY <2>2
        <5> QED
          BY <2>1, <2>2, <5>1, <5>2
      <4> QED
        BY <2>2, <4>1
    <3> QED
      BY <3>1, <3>2
  <2> HIDE DEF P
  <2> QED
    BY <2>2, <2>3
<1>3. N \in H
  <2>1. N \in 0..N
    OBVIOUS
  <2> HIDE DEF H
  <2> QED
    BY <1>1, <1>2, <2>1, Upwards
<1> QED
  BY <1>3

-----------------------------------------------------------------------------
\* What the calls of a function need of its frame is enough for each of them.
LEMMA ArgSizes ==
  ASSUME NEW f, f.calls \in Seq(SourceCall)
  PROVE  /\ ArgSizeOf(f) \in Nat /\ ArgSizeOf(f) % 4 = 0
         /\ \A k \in DOMAIN f.calls : /\ Len(f.calls[k].args) \in Nat
                                      /\ ArgSize(Len(f.calls[k].args)) =< ArgSizeOf(f)
<1>1. Len(f.calls) \in Nat /\ DOMAIN f.calls = 1..Len(f.calls)
  OBVIOUS
<1>2. ASSUME NEW k \in 1..Len(f.calls)
      PROVE  /\ Len(f.calls[k].args) \in Nat /\ ArgSize(Len(f.calls[k].args)) \in Nat
             /\ ArgSize(Len(f.calls[k].args)) % 4 = 0
  <2>1. f.calls[k] \in SourceCall
    BY <1>1
  <2>2. PICK n \in Nat : n = Len(f.calls[k].args)
    BY <2>1 DEF SourceCall
  <2>3. ArgSize(n) \in Nat /\ ArgSize(n) % 4 = 0
    BY DEF ArgSize, Larger, NUM_ARG_REGS, UNITS_PER_WORD
  <2> QED
    BY <2>2, <2>3
<1> DEFINE v == [k \in 1..Len(f.calls) |-> ArgSize(Len(f.calls[k].args))]
           S == {0} \cup {ArgSize(Len(f.calls[k].args)) : k \in DOMAIN f.calls}
<1>3. v \in [1..Len(f.calls) -> Nat]
  BY <1>2
<1>4. PICK m \in Nat : /\ m = 0 \/ \E k \in 1..Len(f.calls) : v[k] = m
                       /\ \A k \in 1..Len(f.calls) : v[k] =< m
  <2> HIDE DEF v
  <2> QED
    BY <1>1, <1>3, Largest
<1>7. \A x \in S : x \in Nat /\ x % 4 = 0
  BY <1>1, <1>2
<1>5. m \in S /\ \A x \in S : m >= x
  <2>1. \A k \in 1..Len(f.calls) : v[k] = ArgSize(Len(f.calls[k].args))
    OBVIOUS
  <2>2. \A k \in 1..Len(f.calls) : ArgSize(Len(f.calls[k].args)) =< m
    BY <1>4, <2>1
  <2>3. m \in S
    <3> HIDE DEF v
    <3> QED
      BY <1>1, <1>4, <2>1
  <2>4. ASSUME NEW x \in S PROVE m >= x
    <3>1. CASE x = 0
      BY <3>1
    <3>2. CASE \E k \in 1..Len(f.calls) : x = ArgSize(Len(f.calls[k].args))
      <4>1. x =< m /\ x \in Nat
        BY <1>7, <2>2, <3>2
      <4> QED
        BY <4>1
    <3> QED
      BY <1>1, <3>1, <3>2
  <2> QED
    BY <2>3, <2>4
<1>6. ArgSizeOf(f) \in S /\ \A x \in S : ArgSizeOf(f) >= x
  <2>1. ArgSizeOf(f) = CHOOSE x \in S : \A y \in S : x >= y
    BY DEF ArgSizeOf, Max
  <2> HIDE DEF S
  <2> QED
    BY <1>5, <2>1
<1>8. \A k \in DOMAIN f.calls : ArgSize(Len(f.calls[k].args)) \in S
  OBVIOUS
<1> HIDE DEF S
<1>9. \A x \in S : x =< ArgSizeOf(f)
  BY <1>6, <1>7
<1> QED
  BY <1>1, <1>2, <1>6, <1>7, <1>8, <1>9

Sizes == {n \in Nat : n > 0 /\ n % UNITS_PER_WORD = 0}

\* An array begins where the one before it ends, the first one above the parameters.
LEMMA ArrayPlaces ==
  ASSUME NEW f, f.calls \in Seq(SourceCall), f.arrays \in Seq(Sizes)
  PROVE  /\ ArrayAt(f, 1) = ArgSizeOf(f)
         /\ \A i \in 1..Len(f.arrays) : ArrayAt(f, i + 1) = ArrayAt(f, i) + f.arrays[i]
<1>1. Len(f.arrays) \in Nat /\ \A n \in 1..Len(f.arrays) : f.arrays[n] \in Nat
  BY DEF Sizes
<1>2. ArgSizeOf(f) \in Nat
  BY ArgSizes
<1> DEFINE Def(g) == g = [n \in 0..Len(f.arrays) |->
                            IF n = 0 THEN ArgSizeOf(f) ELSE g[n - 1] + f.arrays[n]]
           F == [p \in (1..Len(f.arrays)) \X Nat |-> p[2] + f.arrays[p[1]]]
<1>3. F \in [(1..Len(f.arrays)) \X Nat -> Nat]
  BY <1>1
<1>4. \A n \in 1..Len(f.arrays) : \A x \in Nat : F[<<n, x>>] = x + f.arrays[n]
  OBVIOUS
<1> HIDE DEF F
<1>5. PICK g : Computes(g, Len(f.arrays), Nat, ArgSizeOf(f), F)
  BY <1>1, <1>2, <1>3, Recursion
<1>6. /\ g \in [0..Len(f.arrays) -> Nat] /\ g[0] = ArgSizeOf(f)
      /\ \A n \in 1..Len(f.arrays) : g[n] = F[<<n, g[n - 1]>>]
  BY <1>5 DEF Computes
<1>7. ASSUME NEW n \in 0..Len(f.arrays)
      PROVE  g[n] = IF n = 0 THEN ArgSizeOf(f) ELSE g[n - 1] + f.arrays[n]
  <2>1. CASE n = 0
    BY <1>6, <2>1
  <2>2. CASE n # 0
    <3>1. n \in 1..Len(f.arrays) /\ n - 1 \in 0..Len(f.arrays)
      BY <1>1, <2>2
    <3>2. g[n - 1] \in Nat
      BY <1>6, <3>1
    <3> QED
      BY <1>4, <1>6, <2>2, <3>1, <3>2
  <2> QED
    BY <2>1, <2>2
<1>8. Def(g)
  <2> DEFINE h == [n \in 0..Len(f.arrays) |->
                     IF n = 0 THEN ArgSizeOf(f) ELSE g[n - 1] + f.arrays[n]]
  <2>1. g = [n \in 0..Len(f.arrays) |-> g[n]]
    BY <1>6
  <2>2. \A n \in 0..Len(f.arrays) : g[n] = h[n]
    BY <1>7
  <2>3. h = [n \in 0..Len(f.arrays) |-> h[n]]
    OBVIOUS
  <2>4. g = h
    <3> HIDE DEF h
    <3> QED
      BY <2>1, <2>2, <2>3
  <2> QED
    BY <2>4
<1> DEFINE o == CHOOSE x : Def(x)
<1>9. Def(o)
  <2> HIDE DEF Def
  <2> QED
    BY <1>8
<1>10. \A i : ArrayAt(f, i) = o[i - 1]
  BY DEF ArrayAt
<1> HIDE DEF o
<1>11. \A n \in 0..Len(f.arrays) : o[n] = IF n = 0 THEN ArgSizeOf(f) ELSE o[n - 1] + f.arrays[n]
  BY <1>9, Zenon
<1>12. 0 \in 0..Len(f.arrays) /\ 1 - 1 = 0
       /\ \A i \in 1..Len(f.arrays) : i \in 0..Len(f.arrays) /\ i # 0 /\ i + 1 - 1 = i
  BY <1>1
<1> QED
  BY <1>10, <1>11, <1>12

\* Places of arrays and slots are whole words, between the parameters of calls and the
\* end of the frame.
LEMMA PlacesInFrame ==
  ASSUME NEW f, f.calls \in Seq(SourceCall), f.arrays \in Seq(Sizes), Len(f.slots) \in Nat
  PROVE  /\ Size(f) \in Nat /\ Size(f) % 4 = 0 /\ ArgSizeOf(f) =< Size(f)
         /\ \A i \in 1..Len(f.arrays) :
              /\ ArrayAt(f, i) \in Nat /\ ArrayAt(f, i) % 4 = 0
              /\ ArrayAt(f, i + 1) \in Nat /\ ArrayAt(f, i + 1) % 4 = 0
              /\ ArgSizeOf(f) =< ArrayAt(f, i)
              /\ ArrayAt(f, i) + 4 =< ArrayAt(f, i + 1) /\ ArrayAt(f, i + 1) =< Size(f)
         /\ \A i \in 1..Len(f.slots) :
              /\ SlotAt(f, i) \in Nat /\ SlotAt(f, i) % 4 = 0
              /\ ArgSizeOf(f) =< SlotAt(f, i) /\ SlotAt(f, i) + 4 =< Size(f)
<1> DEFINE N == Len(f.arrays)
           a == ArgSizeOf(f)
           at(n) == ArrayAt(f, n + 1)
<1>1. N \in Nat /\ \A n \in 1..N : f.arrays[n] \in Nat /\ f.arrays[n] > 0 /\ f.arrays[n] % 4 = 0
  BY DEF Sizes, UNITS_PER_WORD
<1>2. a \in Nat /\ a % 4 = 0
  BY ArgSizes
<1>3. at(0) = a /\ \A n \in 1..N : ArrayAt(f, n + 1) = ArrayAt(f, n) + f.arrays[n]
  BY ArrayPlaces
<1>4. ASSUME NEW x \in Nat, NEW y \in Nat, x % 4 = 0, y % 4 = 0 PROVE (x + y) % 4 = 0
  BY <1>4
<1> HIDE DEF a, N
<1> DEFINE H == {n \in Nat : n =< N => /\ at(n) \in Nat /\ at(n) % 4 = 0 /\ a =< at(n)}
<1>5. 0 \in H
  BY <1>2, <1>3
<1>6. ASSUME NEW n \in 0..N, n < N, n \in H PROVE n + 1 \in H
  <2>1. n + 1 \in 1..N /\ n \in Nat /\ n + 1 \in Nat /\ n =< N
    BY <1>1, <1>6
  <2>2. PICK x \in Nat, y \in Nat : x = at(n) /\ y = f.arrays[n + 1] /\ x % 4 = 0 /\ y % 4 = 0 /\ a =< x
    BY <1>1, <1>6, <2>1
  <2>3. at(n + 1) = x + y
    BY <1>3, <2>1, <2>2
  <2>4. (x + y) % 4 = 0 /\ x + y \in Nat /\ a =< x + y
    <3>1. (x + y) % 4 = 0
      BY <1>4, <2>2, Zenon
    <3>2. PICK c \in Nat : c = a
      BY <1>2
    <3>3. c =< x /\ x + y \in Nat /\ c =< x + y
      BY <2>2, <3>2
    <3> QED
      BY <3>1, <3>2, <3>3
  <2> QED
    BY <2>1, <2>3, <2>4
<1>7. \A n \in 0..N : n \in H
  <2> HIDE DEF H
  <2> QED
    BY <1>1, <1>5, <1>6, Upwards
<1>8. \A i \in 1..(N + 1) : ArrayAt(f, i) \in Nat /\ ArrayAt(f, i) % 4 = 0 /\ a =< ArrayAt(f, i)
  <2> SUFFICES ASSUME NEW i \in 1..(N + 1)
               PROVE  ArrayAt(f, i) \in Nat /\ ArrayAt(f, i) % 4 = 0 /\ a =< ArrayAt(f, i)
    OBVIOUS
  <2>1. i - 1 \in 0..N /\ i - 1 =< N /\ i - 1 + 1 = i
    BY <1>1
  <2>2. i - 1 \in H
    BY <1>7, <2>1
  <2> QED
    BY <2>1, <2>2
<1>9. \A i \in 1..N : ArrayAt(f, i) + 4 =< ArrayAt(f, i + 1)
  <2> SUFFICES ASSUME NEW i \in 1..N PROVE ArrayAt(f, i) + 4 =< ArrayAt(f, i + 1)
    OBVIOUS
  <2>1. PICK x \in Nat, y \in Nat : x = ArrayAt(f, i) /\ y = f.arrays[i] /\ y > 0 /\ y % 4 = 0
    BY <1>1, <1>8
  <2>2. y >= 4
    BY <2>1
  <2> QED
    BY <1>3, <2>1, <2>2
<1> DEFINE e == ArrayAt(f, N + 1)
<1>10. e \in Nat /\ e % 4 = 0 /\ a =< e
  BY <1>1, <1>8
<1>11. \A i \in 1..N : ArrayAt(f, i + 1) =< e
  <2> DEFINE G == {n \in Nat : n =< N => ArrayAt(f, N + 1 - n) =< e}
  <2>1. 0 \in G
    BY <1>1, <1>10
  <2>2. ASSUME NEW n \in 0..N, n < N, n \in G PROVE n + 1 \in G
    <3>1. PICK i \in 1..N : i = N - n
      BY <1>1, <2>2
    <3>2. N + 1 - n = i + 1 /\ N + 1 - (n + 1) = i /\ i + 1 \in 1..(N + 1) /\ i \in 1..(N + 1) /\ n =< N /\ n + 1 \in Nat
      BY <1>1, <2>2, <3>1
    <3>3. ArrayAt(f, i + 1) =< e
      BY <2>2, <3>2
    <3>4. ArrayAt(f, i) =< e
      <4>1. PICK x \in Nat, y \in Nat : x = ArrayAt(f, i) /\ y = ArrayAt(f, i + 1) /\ x + 4 =< y
        BY <1>8, <1>9, <3>1, <3>2
      <4> QED
        BY <1>10, <3>3, <4>1
    <3> QED
      BY <3>2, <3>4
  <2>3. \A n \in 0..N : n \in G
    <3> HIDE DEF G
    <3> QED
      BY <1>1, <2>1, <2>2, Upwards
  <2>4. ASSUME NEW i \in 1..N PROVE ArrayAt(f, i + 1) =< e
    <3>1. N - i \in 0..N /\ N - i =< N /\ N + 1 - (N - i) = i + 1
      BY <1>1
    <3>2. N - i \in G
      BY <2>3, <3>1
    <3> QED
      BY <3>1, <3>2
  <2> QED
    BY <2>4
<1>12. PICK s \in Nat : s = Len(f.slots)
  OBVIOUS
<1>13. PICK b \in Nat : b = e
  BY <1>10
<1>14. \A i : SlotAt(f, i) = b + 4 * (i - 1)
  BY <1>13 DEF SlotAt, UNITS_PER_WORD, N
<1>15. Size(f) = b + 4 * s
  <2>1. SlotAt(f, s + 1) = b + 4 * (s + 1 - 1)
    BY <1>14
  <2> QED
    BY <1>12, <2>1 DEF Size
<1>16. \A x \in Nat : 4 * x \in Nat /\ (4 * x) % 4 = 0
  OBVIOUS
<1>17. Size(f) \in Nat /\ Size(f) % 4 = 0 /\ b =< Size(f) /\ a =< Size(f)
  BY <1>2, <1>4, <1>10, <1>13, <1>15, <1>16
<1>18. ASSUME NEW i \in 1..s
       PROVE  /\ SlotAt(f, i) \in Nat /\ SlotAt(f, i) % 4 = 0
              /\ a =< SlotAt(f, i) /\ SlotAt(f, i) + 4 =< Size(f)
  <2>1. PICK j \in Nat : j = i - 1 /\ j + 1 =< s
    BY <1>12
  <2>2. SlotAt(f, i) = b + 4 * j /\ 4 * j \in Nat /\ (4 * j) % 4 = 0
    BY <1>14, <1>16, <2>1
  <2>3. (b + 4 * j) % 4 = 0
    BY <1>4, <1>10, <1>13, <2>2
  <2>4. PICK c \in Nat : c = a /\ c =< b
    BY <1>2, <1>10, <1>13
  <2>5. b + 4 * j \in Nat /\ c =< b + 4 * j /\ b + 4 * j + 4 =< b + 4 * s
    BY <1>12, <2>1, <2>4
  <2> QED
    BY <1>15, <2>2, <2>3, <2>4, <2>5
<1>19. ASSUME NEW i \in 1..N
       PROVE  /\ ArrayAt(f, i) \in Nat /\ ArrayAt(f, i) % 4 = 0
              /\ ArrayAt(f, i + 1) \in Nat /\ ArrayAt(f, i + 1) % 4 = 0
              /\ a =< ArrayAt(f, i)
              /\ ArrayAt(f, i) + 4 =< ArrayAt(f, i + 1) /\ ArrayAt(f, i + 1) =< Size(f)
  <2>1. i \in 1..(N + 1) /\ i + 1 \in 1..(N + 1)
    BY <1>1
  <2>2. PICK x \in Nat : x = ArrayAt(f, i + 1) /\ x =< b /\ b =< Size(f)
    BY <1>8, <1>11, <1>13, <1>17, <2>1
  <2>3. x =< Size(f)
    BY <1>17, <2>2
  <2> QED
    BY <1>8, <1>9, <2>1, <2>2, <2>3
<1> QED
  BY <1>12, <1>17, <1>18, <1>19 DEF N, a

-----------------------------------------------------------------------------
\* update_frame_layout leaves every function balanced.
LEMMA CompiledBalanced ==
  ASSUME NEW p \in Programs, NEW n \in DOMAIN p
  PROVE  Balanced(Compiled(p[n]))
<1> DEFINE f == p[n]
<1>0. f \in Source
  BY WellFormed
<1> HIDE DEF f
<1>1. Len(General(f)) \in Nat /\ Len(UsedVfp(f)) \in Nat
  <2>1. GeneralSave \in Seq(Int) /\ VfpSave \in Seq(Int)
    BY DEF GeneralSave, VfpSave, VREG, LR
  <2>2. General(f) \in Seq(Int)
    BY <2>1, CollectFinds, Zenon DEF General
  <2>3. UsedVfp(f) \in Seq(Int)
    BY <2>1, CollectFinds, Zenon DEF UsedVfp
  <2> QED
    BY <2>2, <2>3
<1>2. SPILL_REG \in Written(f)
  BY DEF Written, Outputs, SPILL_REG, IP
<1>3. FrameSize(f) = StackSize(Size(f), SavedBytes(f), TRUE)
  BY <1>2 DEF FrameSize
<1>4. SavedBytes(f) \in Nat /\ SavedBytes(f) % 4 = 0
  BY <1>1 DEF SavedBytes, Saved, UNITS_PER_WORD
<1>5. Size(f) \in Nat /\ Size(f) % 4 = 0
  <2>1. f.calls \in Seq(SourceCall) /\ f.arrays \in Seq(Sizes) /\ Len(f.slots) \in Nat
    BY <1>0 DEF Source, Sizes
  <2> QED
    BY <2>1, PlacesInFrame
<1>6. (FrameSize(f) + SavedBytes(f)) % 8 = 0 /\ FrameSize(f) \in Nat
  <2>1. /\ (StackSize(Size(f), SavedBytes(f), TRUE) + SavedBytes(f)) % 8 = 0
        /\ StackSize(Size(f), SavedBytes(f), TRUE) \in {Size(f), Size(f) + UNITS_PER_WORD}
    BY <1>4, <1>5, FrameAligned
  <2>2. Size(f) \in Nat /\ Size(f) + UNITS_PER_WORD \in Nat
    BY <1>5 DEF UNITS_PER_WORD
  <2>3. (FrameSize(f) + SavedBytes(f)) % 8 = 0
    BY <1>3, <2>1, Zenon
  <2> QED
    BY <1>3, <2>1, <2>2, <2>3, Zenon
<1>7. SavedBytes(f) = UNITS_PER_WORD * (Len(General(f)) + Len(Vfp(f)))
  BY <1>1, NoGaps DEF SavedBytes, Saved, f
<1>8. Len(General(f)) \in Nat /\ Len(Vfp(f)) \in Nat
  BY <1>1, NoGaps DEF f
<1> QED
  BY <1>8, <1>4, <1>6, <1>7 DEF Balanced, Offset, Compiled, UNITS_PER_WORD, f

-----------------------------------------------------------------------------
\* The program is what the back end made of one of Programs.
LEMMA ProgramInit == FrameInit => ProgramOK
<1> SUFFICES ASSUME FrameInit PROVE ProgramOK
  OBVIOUS
<1>1. PICK p \in Programs : program = [n \in DOMAIN p |-> Compiled(p[n])]
  BY DEF FrameInit
<1>2. ASSUME NEW n \in DOMAIN p PROVE program[n].calls = p[n].calls
  BY <1>1 DEF Compiled
<1> QED
  BY <1>1, <1>2, CompiledBalanced, WellFormed DEF ProgramOK

\* The invariant holds before main is called.
LEMMA AlignInit == FrameInit => AlignInv
<1> SUFFICES ASSUME FrameInit PROVE AlignInv
  OBVIOUS
<1> DEFINE a == [fn |-> 1, step |-> "push", call |-> 1, left |-> 0, args |-> <<>>, taken |-> <<>>,
                 top |-> Bottom, due |-> NoValue]
<1>1. ProgramOK
  BY ProgramInit
<1>2. stack = <<a>> /\ sp = Bottom
  BY DEF FrameInit
<1>3. Activation(a) /\ a.step = "push"
  BY <1>1 DEF Activation, Steps, ProgramOK
<1>4. stack \in Seq({a}) /\ Len(stack) = 1 /\ stack[1] = a
  BY <1>2
<1> HIDE DEF a
<1>5. StackOK
  <2>1. \E S : stack \in Seq(S)
    BY <1>4
  <2>2. \A i \in DOMAIN stack : i = 1
    BY <1>4
  <2> QED
    BY <1>3, <1>4, <2>1, <2>2 DEF StackOK
<1>6. Top = a
  BY <1>4 DEF Top, Last
<1>7. PointerOK
  <2>1. Offset(Fn, Top.step) = 0
    BY <1>3, <1>6 DEF Offset
  <2> QED
    BY <1>2, <2>1, BottomAligned DEF PointerOK
<1> QED
  BY <1>1, <1>5, <1>7 DEF AlignInv

-----------------------------------------------------------------------------
\* The last activation goes on as a; the others are as they were.
LEMMA TopChanges ==
  ASSUME StackOK, stack # <<>>, program' = program,
         NEW a, Activation(a), stack' = [stack EXCEPT ![Len(stack)] = a]
  PROVE  StackOK' /\ stack' # <<>> /\ Top' = a
<1>1. PICK S : stack \in Seq(S)
  BY DEF StackOK
<1>2. stack' \in Seq(S \cup {a}) /\ Len(stack') = Len(stack) /\ Len(stack) \in DOMAIN stack
  BY <1>1
<1>3. \A i \in DOMAIN stack' : i \in DOMAIN stack /\ stack'[i] = IF i = Len(stack) THEN a ELSE stack[i]
  BY <1>1, <1>2
<1>4. ASSUME NEW i \in DOMAIN stack'
      PROVE  Activation(stack[i])' /\ (i < Len(stack') => stack'[i].step = "result")
  <2>1. CASE i = Len(stack)
    BY <1>2, <1>3, <2>1 DEF Activation
  <2>2. CASE i # Len(stack)
    BY <1>2, <1>3, <2>2 DEF StackOK, Activation
  <2> QED
    BY <2>1, <2>2
<1>5. StackOK'
  BY <1>2, <1>4 DEF StackOK
<1> QED
  BY <1>2, <1>3, <1>5 DEF Top, Last

\* The innermost activation is a proper activation record.
LEMMA TopActivation ==
  ASSUME StackOK, stack # <<>>
  PROVE  Activation(Top)
<1>1. PICK S : stack \in Seq(S)
  BY DEF StackOK
<1> QED
  BY <1>1 DEF StackOK, Top, Last

\* Going on to the next step of the same function keeps the stack of activations.
LEMMA GoKeeps ==
  ASSUME StackOK, stack # <<>>, program' = program, NEW s \in Steps \ {"place"}, Go(s)
  PROVE  StackOK' /\ stack' # <<>> /\ Fn' = Fn /\ Top'.step = s
<1> DEFINE a == [Top EXCEPT !.step = s]
<1>1. stack' = [stack EXCEPT ![Len(stack)] = a]
  BY DEF Go, Top, Last
<1>2. Activation(a) /\ a.fn = Top.fn /\ a.step = s
  BY TopActivation DEF Activation
<1>3. StackOK' /\ stack' # <<>> /\ Top' = a
  BY <1>1, <1>2, TopChanges
<1> QED
  BY <1>2, <1>3 DEF Fn

\* A step in one activation that moves the stack pointer by what the offset changes.
LEMMA PointerMoves ==
  ASSUME AlignInv, stack # <<>>, program' = program, StackOK', stack' # <<>>, Fn' = Fn,
         sp' \in Int, sp' + Offset(Fn, Top'.step) = sp + Offset(Fn, Top.step)
  PROVE  AlignInv'
<1>1. ProgramOK'
  BY DEF AlignInv, ProgramOK, Balanced, Offset
<1>2. Offset(Fn, Top'.step) = Offset(Fn, Top.step)'
  BY DEF Offset
<1>3. (sp' + Offset(Fn, Top'.step)) % 8 = 0
  BY DEF AlignInv, PointerOK
<1> QED
  BY <1>1, <1>2, <1>3 DEF AlignInv, PointerOK

\* The registers the running function saves and its frame take a multiple of eight bytes.
LEMMA FnBalanced ==
  ASSUME AlignInv, stack # <<>>
  PROVE  Balanced(Fn)
BY TopActivation DEF AlignInv, ProgramOK, Activation, Fn

\* Sizes in words add up.
LEMMA WholeWords ==
  ASSUME NEW m \in Nat, NEW n \in Nat
  PROVE  /\ UNITS_PER_WORD * m \in Nat /\ UNITS_PER_WORD * n \in Nat
         /\ UNITS_PER_WORD * (m + n) = UNITS_PER_WORD * m + UNITS_PER_WORD * n
BY DEF UNITS_PER_WORD

\* Lowering sp by what the next step has pushed keeps the invariant.
LEMMA PointerDown ==
  ASSUME AlignInv, stack # <<>>, program' = program, StackOK', stack' # <<>>, Fn' = Fn,
         NEW d \in Nat, sp' = sp - d, Offset(Fn, Top.step) \in Nat,
         Offset(Fn, Top'.step) = Offset(Fn, Top.step) + d
  PROVE  AlignInv'
<1>1. sp' \in Int /\ sp' + Offset(Fn, Top'.step) = sp + Offset(Fn, Top.step)
  BY DEF AlignInv, PointerOK
<1> QED
  BY <1>1, PointerMoves

\* Raising sp by what the next step has popped keeps the invariant.
LEMMA PointerUp ==
  ASSUME AlignInv, stack # <<>>, program' = program, StackOK', stack' # <<>>, Fn' = Fn,
         NEW d \in Nat, sp' = sp + d, Offset(Fn, Top'.step) \in Nat,
         Offset(Fn, Top.step) = Offset(Fn, Top'.step) + d
  PROVE  AlignInv'
<1>1. sp' \in Int /\ sp' + Offset(Fn, Top'.step) = sp + Offset(Fn, Top.step)
  BY DEF AlignInv, PointerOK
<1> QED
  BY <1>1, PointerMoves

\* How the offset changes along the prologue, and back along the epilogue.
LEMMA Offsets ==
  ASSUME AlignInv, stack # <<>>
  PROVE  /\ sp \in Int /\ Fn.frame \in Nat
         /\ UNITS_PER_WORD * Len(Fn.general) \in Nat /\ UNITS_PER_WORD * Len(Fn.vfp) \in Nat
         /\ Offset(Fn, "push") \in Nat /\ Offset(Fn, "push") = Offset(Fn, "leave")
         /\ Offset(Fn, "vpush") = Offset(Fn, "push") + UNITS_PER_WORD * Len(Fn.general)
         /\ Offset(Fn, "vpush") \in Nat /\ Offset(Fn, "vpush") = Offset(Fn, "pop")
         /\ Offset(Fn, "fp") = Offset(Fn, "vpush") + UNITS_PER_WORD * Len(Fn.vfp)
         /\ Offset(Fn, "fp") \in Nat /\ Offset(Fn, "fp") = Offset(Fn, "move")
         /\ Offset(Fn, "vpop") = Offset(Fn, "fp")
         /\ Offset(Fn, "take") = Offset(Fn, "fp") + Fn.frame
         /\ Offset(Fn, "recover") = Offset(Fn, "take")
<1>1. sp \in Int /\ Len(Fn.general) \in Nat /\ Len(Fn.vfp) \in Nat /\ Fn.frame \in Nat
  BY FnBalanced DEF Balanced, AlignInv, PointerOK
<1> DEFINE g == UNITS_PER_WORD * Len(Fn.general)
           v == UNITS_PER_WORD * Len(Fn.vfp)
           both == UNITS_PER_WORD * (Len(Fn.general) + Len(Fn.vfp))
<1>2. g \in Nat /\ v \in Nat /\ both = g + v
  BY <1>1, WholeWords, Zenon
<1>3. Offset(Fn, "push") = 0 /\ Offset(Fn, "leave") = 0
  BY DEF Offset
<1>4. Offset(Fn, "vpush") = g /\ Offset(Fn, "pop") = g
  BY DEF Offset
<1>5. Offset(Fn, "fp") = both + 0 /\ Offset(Fn, "move") = both + 0 /\ Offset(Fn, "vpop") = both + 0
  BY DEF Offset
<1>6. Offset(Fn, "take") = both + Fn.frame /\ Offset(Fn, "recover") = both + Fn.frame
  BY DEF Offset
<1> HIDE DEF g, v, both
<1>7. both + 0 = g + v /\ g + v \in Nat /\ 0 + g = g
  BY <1>2
<1>8. Offset(Fn, "fp") = Offset(Fn, "vpush") + v /\ Offset(Fn, "vpush") = Offset(Fn, "push") + g
  BY <1>3, <1>4, <1>5, <1>7, Zenon
<1>9. Offset(Fn, "take") = Offset(Fn, "fp") + Fn.frame
  BY <1>1, <1>2, <1>5, <1>6
<1> QED
  BY <1>1, <1>2, <1>3, <1>4, <1>5, <1>6, <1>7, <1>8, <1>9 DEF g, v

\* push of the callee-saved registers.
LEMMA PushKeeps == AlignInv /\ Push => AlignInv'
<1> SUFFICES ASSUME AlignInv, Push PROVE AlignInv'
  OBVIOUS
<1>1. stack # <<>> /\ Top.step = "push" /\ program' = program /\ Go("vpush")
  BY DEF Push, At
<1>2. StackOK' /\ stack' # <<>> /\ Fn' = Fn /\ Top'.step = "vpush"
  BY <1>1, GoKeeps DEF AlignInv, Steps
<1>3. UNITS_PER_WORD * Len(Fn.general) \in Nat /\ sp' = sp - UNITS_PER_WORD * Len(Fn.general)
  BY <1>1, Offsets DEF Push
<1>4. Offset(Fn, "push") \in Nat /\ Offset(Fn, "vpush") = Offset(Fn, "push") + UNITS_PER_WORD * Len(Fn.general)
  BY <1>1, Offsets
<1> QED
  BY <1>1, <1>2, <1>3, <1>4, PointerDown


\* vpush of the callee-saved floating-point registers.
LEMMA VPushKeeps == AlignInv /\ VPush => AlignInv'
<1> SUFFICES ASSUME AlignInv, VPush PROVE AlignInv'
  OBVIOUS
<1> DEFINE s == IF Fn.fp THEN "fp" ELSE "move"
<1>1. stack # <<>> /\ Top.step = "vpush" /\ program' = program /\ Go(s) /\ s \in {"fp", "move"}
  BY DEF VPush, At
<1>2. StackOK' /\ stack' # <<>> /\ Fn' = Fn /\ Top'.step = s
  BY <1>1, GoKeeps DEF AlignInv, Steps
<1>3. Offset(Fn, s) = Offset(Fn, "fp")
  BY <1>1, Offsets
<1>4. UNITS_PER_WORD * Len(Fn.vfp) \in Nat /\ sp' = sp - UNITS_PER_WORD * Len(Fn.vfp)
  BY <1>1, Offsets DEF VPush
<1>5. Offset(Fn, "vpush") \in Nat /\ Offset(Fn, s) = Offset(Fn, "vpush") + UNITS_PER_WORD * Len(Fn.vfp)
  BY <1>1, <1>3, Offsets
<1> QED
  BY <1>1, <1>2, <1>4, <1>5, PointerDown


\* The frame pointer is set up.
LEMMA SetUpFpKeeps == AlignInv /\ SetUpFp => AlignInv'
<1> SUFFICES ASSUME AlignInv, SetUpFp PROVE AlignInv'
  OBVIOUS
<1>1. stack # <<>> /\ Top.step = "fp" /\ program' = program /\ Go("move") /\ sp' = sp
  BY DEF SetUpFp, At
<1>2. StackOK' /\ stack' # <<>> /\ Fn' = Fn /\ Top'.step = "move"
  BY <1>1, GoKeeps DEF AlignInv, Steps
<1> QED
  BY <1>1, <1>2, PointerMoves DEF Offset, AlignInv, PointerOK

\* sp is lowered by the size of the frame.
LEMMA DecrementSpKeeps == AlignInv /\ DecrementSp => AlignInv'
<1> SUFFICES ASSUME AlignInv, DecrementSp PROVE AlignInv'
  OBVIOUS
<1>1. stack # <<>> /\ Top.step = "move" /\ program' = program /\ Go("take")
  BY DEF DecrementSp, At
<1>2. StackOK' /\ stack' # <<>> /\ Fn' = Fn /\ Top'.step = "take"
  BY <1>1, GoKeeps DEF AlignInv, Steps
<1>3. Fn.frame \in Nat /\ sp' = sp - Fn.frame
  BY <1>1, Offsets DEF DecrementSp, MoveBy
<1>4. Offset(Fn, "move") \in Nat /\ Offset(Fn, "take") = Offset(Fn, "move") + Fn.frame
  BY <1>1, Offsets
<1> QED
  BY <1>1, <1>2, <1>3, <1>4, PointerDown


\* sp is recovered from the frame pointer.
LEMMA RecoverSpKeeps == AlignInv /\ RecoverSp => AlignInv'
<1> SUFFICES ASSUME AlignInv, RecoverSp PROVE AlignInv'
  OBVIOUS
<1>1. stack # <<>> /\ Top.step = "recover" /\ program' = program /\ Go("vpop")
  BY DEF RecoverSp, At
<1>2. StackOK' /\ stack' # <<>> /\ Fn' = Fn /\ Top'.step = "vpop"
  BY <1>1, GoKeeps DEF AlignInv, Steps
<1>3. Fn.frame \in Nat /\ sp' = sp + Fn.frame
  BY <1>1, Offsets DEF RecoverSp, MoveBy
<1>4. Offset(Fn, "vpop") \in Nat /\ Offset(Fn, "recover") = Offset(Fn, "vpop") + Fn.frame
  BY <1>1, Offsets
<1> QED
  BY <1>1, <1>2, <1>3, <1>4, PointerUp


\* vpop mirrors vpush.
LEMMA VPopKeeps == AlignInv /\ VPop => AlignInv'
<1> SUFFICES ASSUME AlignInv, VPop PROVE AlignInv'
  OBVIOUS
<1>1. stack # <<>> /\ Top.step = "vpop" /\ program' = program /\ Go("pop")
  BY DEF VPop, At
<1>2. StackOK' /\ stack' # <<>> /\ Fn' = Fn /\ Top'.step = "pop"
  BY <1>1, GoKeeps DEF AlignInv, Steps
<1>3. UNITS_PER_WORD * Len(Fn.vfp) \in Nat /\ sp' = sp + UNITS_PER_WORD * Len(Fn.vfp)
  BY <1>1, Offsets DEF VPop
<1>4. Offset(Fn, "pop") \in Nat /\ Offset(Fn, "vpop") = Offset(Fn, "pop") + UNITS_PER_WORD * Len(Fn.vfp)
  BY <1>1, Offsets
<1> QED
  BY <1>1, <1>2, <1>3, <1>4, PointerUp


\* pop mirrors push.
LEMMA PopKeeps == AlignInv /\ Pop => AlignInv'
<1> SUFFICES ASSUME AlignInv, Pop PROVE AlignInv'
  OBVIOUS
<1>1. stack # <<>> /\ Top.step = "pop" /\ program' = program /\ Go("leave")
  BY DEF Pop, At
<1>2. StackOK' /\ stack' # <<>> /\ Fn' = Fn /\ Top'.step = "leave"
  BY <1>1, GoKeeps DEF AlignInv, Steps
<1>3. UNITS_PER_WORD * Len(Fn.general) \in Nat /\ sp' = sp + UNITS_PER_WORD * Len(Fn.general)
  BY <1>1, Offsets DEF Pop
<1>4. Offset(Fn, "leave") \in Nat /\ Offset(Fn, "pop") = Offset(Fn, "leave") + UNITS_PER_WORD * Len(Fn.general)
  BY <1>1, Offsets
<1> QED
  BY <1>1, <1>2, <1>3, <1>4, PointerUp

-----------------------------------------------------------------------------
\* Between take and recover the stack pointer stays where it is.
Settled == {"take", "call", "place", "result", "recover"}

\* From one step with a finished frame to another: sp stays.
LEMMA SettledKeeps ==
  ASSUME AlignInv, stack # <<>>, program' = program, sp' = sp, NEW a,
         stack' = [stack EXCEPT ![Len(stack)] = a], {"fn", "step", "call"} \subseteq DOMAIN a,
         a.fn = Top.fn, Top.step \in Settled, a.step \in Settled,
         a.step = "place" => a.call \in DOMAIN Fn.calls
  PROVE  AlignInv'
<1>1. Activation(a)
  BY TopActivation DEF AlignInv, Activation, Settled, Steps, Fn
<1>2. StackOK' /\ stack' # <<>> /\ Top' = a
  BY <1>1, TopChanges DEF AlignInv
<1>3. Fn' = Fn
  BY <1>2 DEF Fn
<1> QED
  BY <1>2, <1>3, PointerMoves DEF Offset, Settled, AlignInv, PointerOK

\* The body and the start of a call move no pointer.
LEMMA WorkKeeps ==
  AlignInv /\ (TakeParameter \/ Work \/ BeginCall \/ SkipCall \/ PlaceParameter) => AlignInv'
<1> SUFFICES ASSUME AlignInv, TakeParameter \/ Work \/ BeginCall \/ SkipCall \/ PlaceParameter
             PROVE  AlignInv'
  OBVIOUS
<1>1. stack # <<>> /\ Activation(Top) /\ program' = program /\ sp' = sp /\ Top = stack[Len(stack)]
  BY TopActivation DEF AlignInv, TakeParameter, Work, BeginCall, SkipCall, PlaceParameter, At, Top, Last
<1>2. PICK S : stack \in Seq(S)
  BY DEF AlignInv, StackOK
<1>3. CASE TakeParameter
  <2>1. PICK value : stack' = [stack EXCEPT ![Len(stack)].taken = Append(@, value)] /\ Top.step = "take"
    BY <1>3 DEF TakeParameter, At
  <2> DEFINE a == [Top EXCEPT !.taken = Append(@, value)]
  <2>2. stack' = [stack EXCEPT ![Len(stack)] = a]
    BY <1>1, <2>1
  <2>3. {"fn", "step", "call"} \subseteq DOMAIN a /\ a.fn = Top.fn /\ a.step = Top.step
    BY <1>1 DEF Activation
  <2> QED
    BY <1>1, <2>1, <2>2, <2>3, SettledKeeps DEF Settled
<1>4. CASE Work
  <2>1. Go("call") /\ Top.step = "take"
    BY <1>4 DEF Work, At
  <2> DEFINE a == [Top EXCEPT !.step = "call"]
  <2>2. stack' = [stack EXCEPT ![Len(stack)] = a]
    BY <1>1, <2>1 DEF Go
  <2>3. {"fn", "step", "call"} \subseteq DOMAIN a /\ a.fn = Top.fn /\ a.step = "call"
    BY <1>1 DEF Activation
  <2> QED
    BY <1>1, <2>1, <2>2, <2>3, SettledKeeps DEF Settled
<1>5. CASE BeginCall
  <2>1. /\ stack' = [stack EXCEPT ![Len(stack)].step = "place", ![Len(stack)].left = Len(Placed)]
        /\ Top.step = "call" /\ Top.call \in DOMAIN Fn.calls
    BY <1>5 DEF BeginCall, At
  <2> DEFINE a == [Top EXCEPT !.step = "place", !.left = Len(Placed)]
  <2>2. stack' = [stack EXCEPT ![Len(stack)] = a]
    BY <1>1, <1>2, <2>1
  <2>3. {"fn", "step", "call"} \subseteq DOMAIN a /\ a.fn = Top.fn /\ a.step = "place" /\ a.call = Top.call
    BY <1>1 DEF Activation
  <2> QED
    BY <1>1, <2>1, <2>2, <2>3, SettledKeeps DEF Settled
<1>6. CASE SkipCall
  <2>1. stack' = [stack EXCEPT ![Len(stack)].call = @ + 1] /\ Top.step = "call"
    BY <1>6 DEF SkipCall, At
  <2> DEFINE a == [Top EXCEPT !.call = @ + 1]
  <2>2. stack' = [stack EXCEPT ![Len(stack)] = a]
    BY <1>1, <2>1
  <2>3. {"fn", "step", "call"} \subseteq DOMAIN a /\ a.fn = Top.fn /\ a.step = Top.step
    BY <1>1 DEF Activation
  <2> QED
    BY <1>1, <2>1, <2>2, <2>3, SettledKeeps DEF Settled
<1>7. CASE PlaceParameter
  <2>1. stack' = [stack EXCEPT ![Len(stack)].left = @ - 1] /\ Top.step = "place"
    BY <1>7 DEF PlaceParameter, At
  <2> DEFINE a == [Top EXCEPT !.left = @ - 1]
  <2>2. stack' = [stack EXCEPT ![Len(stack)] = a]
    BY <1>1, <2>1
  <2>3. {"fn", "step", "call"} \subseteq DOMAIN a /\ a.fn = Top.fn /\ a.step = Top.step
                            /\ a.call = Top.call
    BY <1>1 DEF Activation
  <2>4. Top.call \in DOMAIN Fn.calls
    BY <1>1, <2>1 DEF Activation, Fn
  <2> QED
    BY <1>1, <2>1, <2>2, <2>3, <2>4, SettledKeeps DEF Settled
<1> QED
  BY <1>3, <1>4, <1>5, <1>6, <1>7

\* A library call and the passing of results move no pointer.
LEMMA ReturnKeeps ==
  AlignInv /\ (CallExternal \/ TakeResult \/ SetResult) => AlignInv'
<1> SUFFICES ASSUME AlignInv, CallExternal \/ TakeResult \/ SetResult
             PROVE  AlignInv'
  OBVIOUS
<1>1. stack # <<>> /\ Activation(Top) /\ program' = program /\ sp' = sp /\ Top = stack[Len(stack)]
  BY TopActivation DEF AlignInv, CallExternal, TakeResult, SetResult, At, Top, Last
<1>2. PICK S : stack \in Seq(S)
  BY DEF AlignInv, StackOK
<1>3. CASE CallExternal
  <2>1. PICK value :
          /\ stack' = [stack EXCEPT ![Len(stack)].step = "result", ![Len(stack)].due = value]
          /\ Top.step = "place"
    BY <1>3 DEF CallExternal, At
  <2> DEFINE a == [Top EXCEPT !.step = "result", !.due = value]
  <2>2. stack' = [stack EXCEPT ![Len(stack)] = a]
    BY <1>1, <1>2, <2>1
  <2>3. {"fn", "step", "call"} \subseteq DOMAIN a /\ a.fn = Top.fn /\ a.step = "result"
    BY <1>1 DEF Activation
  <2> QED
    BY <1>1, <2>1, <2>2, <2>3, SettledKeeps DEF Settled
<1>4. CASE TakeResult
  <2>1. /\ stack' = [stack EXCEPT ![Len(stack)].step = "call", ![Len(stack)].call = @ + 1,
                                  ![Len(stack)].due = NoValue]
        /\ Top.step = "result"
    BY <1>4 DEF TakeResult, At
  <2> DEFINE a == [Top EXCEPT !.step = "call", !.call = @ + 1, !.due = NoValue]
  <2>2. stack' = [stack EXCEPT ![Len(stack)] = a]
    BY <1>1, <1>2, <2>1
  <2>3. {"fn", "step", "call"} \subseteq DOMAIN a /\ a.fn = Top.fn /\ a.step = "call"
    BY <1>1 DEF Activation
  <2> QED
    BY <1>1, <2>1, <2>2, <2>3, SettledKeeps DEF Settled
<1>5. CASE SetResult
  <2>1. PICK value :
          /\ stack' = [stack EXCEPT ![Len(stack)].step = "recover", ![Len(stack)].due = value]
          /\ Top.step = "call"
    BY <1>5 DEF SetResult, At
  <2> DEFINE a == [Top EXCEPT !.step = "recover", !.due = value]
  <2>2. stack' = [stack EXCEPT ![Len(stack)] = a]
    BY <1>1, <1>2, <2>1
  <2>3. {"fn", "step", "call"} \subseteq DOMAIN a /\ a.fn = Top.fn /\ a.step = "recover"
    BY <1>1 DEF Activation
  <2> QED
    BY <1>1, <2>1, <2>2, <2>3, SettledKeeps DEF Settled
<1> QED
  BY <1>3, <1>4, <1>5

-----------------------------------------------------------------------------
\* While parameters are placed and while a result is waited for, everything saved and
\* the frame are on the stack.
LEMMA BothAligned ==
  ASSUME NEW x \in Int, NEW o \in Nat, x % 8 = 0, o % 8 = 0
  PROVE  (x + o) % 8 = 0
OBVIOUS

\* A finished frame takes a multiple of eight bytes, the callee-saved registers included.
LEMMA SettledOffset ==
  ASSUME NEW f, Balanced(f), NEW step \in {"call", "place", "result"}
  PROVE  Offset(f, step) \in Nat /\ Offset(f, step) % 8 = 0
<1>1. Offset(f, step) = Offset(f, "call")
  BY DEF Offset
<1>2. Offset(f, "call") = UNITS_PER_WORD * (Len(f.general) + Len(f.vfp)) + f.frame
  BY DEF Offset
<1> DEFINE g == Len(f.general)
           v == Len(f.vfp)
<1>3. g \in Nat /\ v \in Nat /\ f.frame \in Nat
  BY Zenon DEF Balanced
<1>4. UNITS_PER_WORD * g \in Nat /\ UNITS_PER_WORD * v \in Nat
      /\ UNITS_PER_WORD * (g + v) = UNITS_PER_WORD * g + UNITS_PER_WORD * v
  BY <1>3, WholeWords, Zenon
<1>5. Offset(f, "call") = UNITS_PER_WORD * (g + v) + f.frame
  BY <1>2
<1> HIDE DEF g, v
<1>6. Offset(f, "call") \in Nat
  BY <1>3, <1>4, <1>5
<1>7. Offset(f, "call") % 8 = 0
  BY Zenon DEF Balanced
<1> QED
  BY <1>1, <1>6, <1>7, Zenon

\* A call starts a new activation with an aligned sp.
LEMMA CallFunctionKeeps == AlignInv /\ CallFunction => AlignInv'
<1> SUFFICES ASSUME AlignInv, CallFunction PROVE AlignInv'
  OBVIOUS
<1> DEFINE a == [Top EXCEPT !.step = "result"]
           b == [fn |-> Call.fn, step |-> "push", call |-> 1, left |-> 0, args |-> Args,
                 taken |-> <<>>, top |-> sp, due |-> NoValue]
<1>1. /\ stack # <<>> /\ Top.step = "place" /\ program' = program /\ sp' = sp
      /\ stack' = Append([stack EXCEPT ![Len(stack)].step = "result"], b)
      /\ Call.fn # 0 /\ Activation(Top) /\ Top = stack[Len(stack)]
  BY TopActivation DEF CallFunction, At, AlignInv, Top, Last
<1>2. PICK S : stack \in Seq(S)
  BY DEF AlignInv, StackOK
<1>3. stack' = Append([stack EXCEPT ![Len(stack)] = a], b)
  BY <1>1
<1>4. Activation(a) /\ a.step = "result"
  BY <1>1 DEF Activation, Steps
<1>5. b.fn \in DOMAIN program
  BY <1>1 DEF CallFunction, AlignInv, ProgramOK, Activation, Call, Fn
<1>6. Activation(b) /\ b.step = "push"
  BY <1>5 DEF Activation, Steps
<1> HIDE DEF a, b
<1>7. /\ stack' \in Seq(S \cup {a, b}) /\ Len(stack') = Len(stack) + 1 /\ Len(stack) \in Nat
      /\ stack'[Len(stack) + 1] = b
      /\ \A i \in DOMAIN stack' :
           \/ i = Len(stack) + 1 /\ stack'[i] = b
           \/ i \in DOMAIN stack /\ stack'[i] = IF i = Len(stack) THEN a ELSE stack[i]
  BY <1>1, <1>2, <1>3
<1>8. ASSUME NEW i \in DOMAIN stack'
      PROVE  Activation(stack[i])' /\ (i < Len(stack') => stack'[i].step = "result")
  <2>1. CASE i = Len(stack) + 1
    BY <1>1, <1>6, <1>7, <2>1 DEF Activation
  <2>2. CASE i = Len(stack)
    BY <1>1, <1>4, <1>7, <2>2 DEF Activation
  <2>3. CASE i \in DOMAIN stack /\ i # Len(stack)
    BY <1>1, <1>2, <1>7, <2>3 DEF AlignInv, StackOK, Activation
  <2> QED
    BY <1>7, <2>1, <2>2, <2>3
<1>9. StackOK'
  BY <1>7, <1>8 DEF StackOK
<1>10. Top' = b /\ stack' # <<>>
  BY <1>7 DEF Top, Last
<1>11. sp \in Int /\ sp % 8 = 0
  <2>1. Offset(Fn, "place") \in Nat /\ Offset(Fn, "place") % 8 = 0
    BY <1>1, FnBalanced, SettledOffset
  <2>2. sp \in Int /\ (sp + Offset(Fn, "place")) % 8 = 0
    BY <1>1 DEF AlignInv, PointerOK
  <2> QED
    BY <2>1, <2>2
<1>12. Offset(Fn, Top.step)' = 0
  BY <1>6, <1>10 DEF Offset
<1>13. PointerOK'
  BY <1>1, <1>11, <1>12 DEF PointerOK
<1>14. ProgramOK'
  BY <1>1 DEF AlignInv, ProgramOK, Balanced, Offset
<1> QED
  BY <1>9, <1>13, <1>14 DEF AlignInv

\* Wherever the return leads, that activation waits for a result with its frame on the
\* stack: what was aligned for it is aligned again.
LEMMA LeaveKeeps == AlignInv /\ Leave => AlignInv'
<1> SUFFICES ASSUME AlignInv, Leave PROVE AlignInv'
  OBVIOUS
<1>1. PICK depth \in 0..(Len(stack) - 1) :
        /\ stack # <<>> /\ Top.step = "leave" /\ program' = program /\ sp' = sp
        /\ stack' = IF depth = 0 THEN <<>> ELSE [SubSeq(stack, 1, depth) EXCEPT ![depth].due = Top.due]
  BY DEF Leave, At
<1>2. ProgramOK'
  BY <1>1 DEF AlignInv, ProgramOK, Balanced, Offset
<1>3. sp \in Int /\ sp % 8 = 0
  <2>1. Offset(Fn, Top.step) = 0
    BY <1>1 DEF Offset
  <2> QED
    BY <1>1, <2>1 DEF AlignInv, PointerOK
<1>4. CASE depth = 0
  <2>1. stack' = <<>>
    BY <1>1, <1>4
  <2>2. StackOK'
    BY <2>1 DEF StackOK
  <2>3. PointerOK'
    BY <1>1, <1>3, <2>1 DEF PointerOK
  <2> QED
    BY <1>2, <2>2, <2>3 DEF AlignInv
<1>5. CASE depth # 0
  <2>1. PICK S : stack \in Seq(S)
    BY DEF AlignInv, StackOK
  <2> DEFINE a == [stack[depth] EXCEPT !.due = Top.due]
  <2>2. depth \in DOMAIN stack /\ depth < Len(stack)
    BY <1>1, <1>5, <2>1
  <2>3. Activation(stack[depth]) /\ stack[depth].step = "result"
    BY <2>2 DEF AlignInv, StackOK
  <2>4. Activation(a) /\ a.step = "result" /\ a.fn = stack[depth].fn
    BY <2>3 DEF Activation
  <2> DEFINE rest == SubSeq(stack, 1, depth)
  <2>5. rest \in Seq(S) /\ Len(rest) = depth /\ \A i \in 1..depth : rest[i] = stack[i]
    BY <2>1, <2>2
  <2>6. stack' = [rest EXCEPT ![depth].due = Top.due] /\ rest[depth] = stack[depth]
    <3>1. stack' = [SubSeq(stack, 1, depth) EXCEPT ![depth].due = Top.due]
      BY <1>1, <1>5
    <3> QED
      BY <2>2, <2>5, <3>1
  <2>7. stack' = [rest EXCEPT ![depth] = a]
    BY <2>6
  <2> HIDE DEF a, rest
  <2>8. /\ stack' \in Seq(S \cup {a}) /\ Len(stack') = depth /\ stack'[depth] = a
        /\ \A i \in DOMAIN stack' : /\ i \in DOMAIN stack /\ i =< depth
                                    /\ stack'[i] = IF i = depth THEN a ELSE stack[i]
    BY <2>1, <2>2, <2>5, <2>7
  <2>9. ASSUME NEW i \in DOMAIN stack'
        PROVE  Activation(stack[i])' /\ (i < Len(stack') => stack'[i].step = "result")
    <3>1. CASE i = depth
      BY <1>1, <2>4, <2>8, <3>1 DEF Activation
    <3>2. CASE i # depth
      BY <1>1, <2>2, <2>8, <3>2 DEF AlignInv, StackOK, Activation
    <3> QED
      BY <3>1, <3>2
  <2>10. StackOK'
    BY <2>8, <2>9 DEF StackOK
  <2>11. Top' = a
    BY <2>8 DEF Top, Last
  <2>12. Offset(Fn, Top.step)' \in Nat /\ Offset(Fn, Top.step)' % 8 = 0
    <3>1. Offset(Fn, Top.step)' = Offset(program[a.fn], "result")
      BY <1>1, <2>4, <2>11 DEF Offset, Fn
    <3>2. Balanced(program[a.fn])
      BY <2>4 DEF AlignInv, ProgramOK, Activation
    <3> QED
      BY <3>1, <3>2, SettledOffset
  <2>13. PointerOK'
    <3>1. (sp' + Offset(Fn, Top.step)') % 8 = 0 /\ sp' \in Int
      BY <1>1, <1>3, <2>12, BothAligned, Zenon
    <3> QED
      BY <3>1 DEF PointerOK
  <2> QED
    BY <1>2, <2>10, <2>13 DEF AlignInv
<1> QED
  BY <1>4, <1>5

-----------------------------------------------------------------------------
\* No frame and no number of saved registers ever leaves the stack unaligned where
\* another function begins, whatever calls are made under whatever calls.
THEOREM StackIsAligned == FrameSpec => []StackAligned
<1>1. FrameInit => AlignInv
  BY AlignInit
<1>2. AlignInv /\ [FrameNext]_frameVars => AlignInv'
  <2>1. ASSUME AlignInv, UNCHANGED frameVars
        PROVE  AlignInv'
    BY <2>1 DEF frameVars, AlignInv, ProgramOK, StackOK, PointerOK, Activation, Top, Last, Fn, Offset, Balanced
  <2> QED
    BY <2>1, PushKeeps, VPushKeeps, SetUpFpKeeps, DecrementSpKeeps, WorkKeeps, CallFunctionKeeps, ReturnKeeps,
       RecoverSpKeeps, VPopKeeps, PopKeeps, LeaveKeeps DEF FrameNext, Returned
<1>3. AlignInv => StackAligned
  <2> SUFFICES ASSUME AlignInv, stack # <<>>, Top.step \in {"place", "push"}
               PROVE  sp % 8 = 0
    BY DEF StackAligned, At
  <2>1. sp \in Int /\ (sp + Offset(Fn, Top.step)) % 8 = 0
    BY DEF AlignInv, PointerOK
  <2>2. Offset(Fn, Top.step) \in Nat /\ Offset(Fn, Top.step) % 8 = 0
    <3>1. CASE Top.step = "place"
      BY <3>1, FnBalanced, SettledOffset
    <3>2. CASE Top.step = "push"
      BY <3>2 DEF Offset
    <3> QED
      BY <3>1, <3>2
  <2> QED
    BY <2>1, <2>2
<1> QED
  BY <1>1, <1>2, <1>3, PTL DEF FrameSpec
=============================================================================
