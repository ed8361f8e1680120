----------------------------- MODULE Calls_proofs -----------------------------
(***************************************************************************)
(* Calls keep what they promise, in every program: Frame implements        *)
(* Activations.  What a function has for itself is in callee-saved         *)
(* registers and in words of its frame.  The register is found where the   *)
(* next activation that writes it has saved it: above the frame of that    *)
(* activation and of all after it, where none of them stores.  So every    *)
(* step of the last activation keeps what the others hold, and the link    *)
(* register it leaves through is the one it was called with.               *)
(*                                                                         *)
(* The values of a call arrive as well: a parameter is placed where none   *)
(* that was placed before is, nothing the function called does until it    *)
(* takes it reaches there, and no register that is loaded again on the     *)
(* way back is one a result is in.                                         *)
(***************************************************************************)
EXTENDS Frame_proofs

\* Registers a function leaves as it found them.
CalleeSaved == (4..11) \cup {LR} \cup (32..47)

-----------------------------------------------------------------------------
\* The definitions of Frame that look registers up, for given values of the variables.
PlacedAt(rs, end) == {<<rs[i], end - UNITS_PER_WORD * (Len(rs) - i + 1)>> : i \in DOMAIN rs}
Saves(f, step, top) ==
  (IF step \in {"push", "leave"} THEN {} ELSE PlacedAt(f.general, top))
    \cup (IF step \in {"push", "vpush", "pop", "leave"} THEN {}
          ELSE PlacedAt(f.vfp, top - UNITS_PER_WORD * Len(f.general)))
SavesIn(p, s, j) == Saves(p[s[j].fn], s[j].step, s[j].top)
Names(places, r) == \E s \in places : s[1] = r
AddressOf(places, r) == (CHOOSE s \in places : s[1] = r)[2]
Lookup(p, s, rs, m, i, r) ==
  LET savers == {j \in (i + 1)..Len(s) : Names(SavesIn(p, s, j), r)} IN
  IF savers = {} THEN rs[r] ELSE Load(m, AddressOf(SavesIn(p, s, Min(savers)), r))

\* Frame's definition of what an activation has saved, where.
LEMMA SavedByIs == \A j : SavedBy(j) = SavesIn(program, stack, j)
BY DEF SavedBy, SavesIn, Saves, PlacedAt

\* Frame's definition of what a suspended activation finds in a register.
LEMMA RegisterOfIs == \A i, r : RegisterOf(i, r) = Lookup(program, stack, regs, mem, i, r)
<1> SUFFICES ASSUME NEW i, NEW r PROVE RegisterOf(i, r) = Lookup(program, stack, regs, mem, i, r)
  OBVIOUS
<1>1. \A j : SavedBy(j) = SavesIn(program, stack, j)
  BY SavedByIs
<1>2. {j \in (i + 1)..Len(stack) : \E s \in SavedBy(j) : s[1] = r}
        = {j \in (i + 1)..Len(stack) : Names(SavesIn(program, stack, j), r)}
  BY <1>1 DEF Names
<1>3. \A j : (CHOOSE s \in SavedBy(j) : s[1] = r)[2] = AddressOf(SavesIn(program, stack, j), r)
  BY <1>1 DEF AddressOf
<1> DEFINE A == {j \in (i + 1)..Len(stack) : \E s \in SavedBy(j) : s[1] = r}
           B == {j \in (i + 1)..Len(stack) : Names(SavesIn(program, stack, j), r)}
<1>4. RegisterOf(i, r) = IF A = {} THEN regs[r] ELSE Load(mem, (CHOOSE s \in SavedBy(Min(A)) : s[1] = r)[2])
  BY DEF RegisterOf
<1>5. Lookup(program, stack, regs, mem, i, r)
        = IF B = {} THEN regs[r] ELSE Load(mem, AddressOf(SavesIn(program, stack, Min(B)), r))
  BY DEF Lookup
<1>6. A = B
  BY <1>2
<1>7. PICK n : n = Min(A)
  OBVIOUS
<1>8. (CHOOSE s \in SavedBy(n) : s[1] = r)[2] = AddressOf(SavesIn(program, stack, n), r)
  BY <1>3
<1> HIDE DEF A, B
<1> QED
  BY <1>4, <1>5, <1>6, <1>7, <1>8

\* The first activation that saves a register has what the ones before it left there.
LEMMA FirstSaver ==
  ASSUME NEW p, NEW s, Len(s) \in Nat, NEW rs, NEW m, NEW i \in Nat, NEW r,
         NEW j \in (i + 1)..Len(s), Names(SavesIn(p, s, j), r),
         \A k \in (i + 1)..Len(s) : k < j => ~ Names(SavesIn(p, s, k), r)
  PROVE  Lookup(p, s, rs, m, i, r) = Load(m, AddressOf(SavesIn(p, s, j), r))
<1> DEFINE savers == {k \in (i + 1)..Len(s) : Names(SavesIn(p, s, k), r)}
<1>1. j \in savers /\ \A k \in savers : j =< k
  OBVIOUS
<1>2. Min(savers) = CHOOSE x \in savers : \A y \in savers : x =< y
  BY DEF Min
<1>3. savers \subseteq Int
  OBVIOUS
<1>4. Min(savers) = j
  <2> HIDE DEF savers
  <2>1. Min(savers) \in savers /\ \A y \in savers : Min(savers) =< y
    BY <1>1, <1>2
  <2>2. j \in Int /\ Min(savers) \in Int
    BY <1>1, <1>3, <2>1
  <2> QED
    BY <1>1, <2>1, <2>2
<1>5. savers # {}
  BY <1>1
<1> QED
  BY <1>4, <1>5 DEF Lookup

\* With nobody that saves it the register itself has it.
LEMMA NoSaver ==
  ASSUME NEW p, NEW s, NEW rs, NEW m, NEW i, NEW r,
         \A k \in (i + 1)..Len(s) : ~ Names(SavesIn(p, s, k), r)
  PROVE  Lookup(p, s, rs, m, i, r) = rs[r]
BY DEF Lookup

\* A register is looked up in the same place from the activations on that do not save it.
LEMMA PassOver ==
  ASSUME NEW p, NEW s, Len(s) \in Nat, NEW rs, NEW m, NEW i \in Nat, NEW n \in Nat, i =< n, NEW r,
         \A k \in (i + 1)..n : ~ Names(SavesIn(p, s, k), r)
  PROVE  Lookup(p, s, rs, m, i, r) = Lookup(p, s, rs, m, n, r)
<1>1. {j \in (i + 1)..Len(s) : Names(SavesIn(p, s, j), r)} = {j \in (n + 1)..Len(s) : Names(SavesIn(p, s, j), r)}
  <2>1. \A j \in (i + 1)..Len(s) : j \in (i + 1)..n \/ j \in (n + 1)..Len(s)
    OBVIOUS
  <2>2. \A j \in (n + 1)..Len(s) : j \in (i + 1)..Len(s)
    OBVIOUS
  <2> QED
    BY <2>1, <2>2
<1> QED
  BY <1>1 DEF Lookup

\* What a register is found to have in an activation depends on what it is found to have
\* further up and on what is saved in between.
LEMMA SameFound ==
  ASSUME NEW p, NEW r, NEW i \in Nat, NEW n \in Nat, i =< n,
         NEW s, Len(s) \in Nat, n =< Len(s), NEW rs, NEW m,
         NEW s2, Len(s2) \in Nat, n =< Len(s2), NEW rs2, NEW m2,
         \A k \in (i + 1)..n :
           /\ SavesIn(p, s2, k) = SavesIn(p, s, k)
           /\ Names(SavesIn(p, s, k), r) =>
                Load(m2, AddressOf(SavesIn(p, s, k), r)) = Load(m, AddressOf(SavesIn(p, s, k), r)),
         Lookup(p, s2, rs2, m2, n, r) = Lookup(p, s, rs, m, n, r)
  PROVE  Lookup(p, s2, rs2, m2, i, r) = Lookup(p, s, rs, m, i, r)
<1> DEFINE T == {k \in Nat : k \in (i + 1)..n /\ Names(SavesIn(p, s, k), r)}
<1>1. CASE T = {}
  <2>1. \A k \in (i + 1)..n : k \in Nat
    OBVIOUS
  <2>2. \A k \in (i + 1)..n : ~ Names(SavesIn(p, s, k), r) /\ ~ Names(SavesIn(p, s2, k), r)
    BY <1>1, <2>1
  <2>3. Lookup(p, s, rs, m, i, r) = Lookup(p, s, rs, m, n, r)
    BY <2>2, PassOver
  <2>4. Lookup(p, s2, rs2, m2, i, r) = Lookup(p, s2, rs2, m2, n, r)
    BY <2>2, PassOver
  <2> QED
    BY <2>3, <2>4
<1>2. CASE T # {}
  <2>1. PICK j \in T : j \in Nat /\ \A k \in T : j =< k
    <3>1. T \subseteq Nat
      OBVIOUS
    <3> HIDE DEF T
    <3> QED
      BY <1>2, <3>1, Smallest
  <2>2. j \in (i + 1)..n /\ Names(SavesIn(p, s, j), r)
    BY <2>1
  <2>3. \A k \in (i + 1)..n : k < j => ~ Names(SavesIn(p, s, k), r)
    BY <2>1
  <2>4. Lookup(p, s, rs, m, i, r) = Load(m, AddressOf(SavesIn(p, s, j), r))
    <3>1. j \in (i + 1)..Len(s) /\ \A k \in (i + 1)..Len(s) : k < j => k \in (i + 1)..n
      BY <2>2
    <3>2. \A k \in (i + 1)..Len(s) : k < j => ~ Names(SavesIn(p, s, k), r)
      BY <2>3, <3>1
    <3> QED
      BY <2>2, <3>1, <3>2, FirstSaver
  <2>5. Lookup(p, s2, rs2, m2, i, r) = Load(m2, AddressOf(SavesIn(p, s2, j), r))
    <3>1. j \in (i + 1)..Len(s2) /\ \A k \in (i + 1)..Len(s2) : k < j => k \in (i + 1)..n
      BY <2>2
    <3>2. \A k \in (i + 1)..Len(s2) : k < j => ~ Names(SavesIn(p, s2, k), r)
      BY <2>3, <3>1
    <3>3. Names(SavesIn(p, s2, j), r)
      BY <2>2
    <3> QED
      BY <3>1, <3>2, <3>3, FirstSaver
  <2> QED
    BY <2>2, <2>4, <2>5
<1> QED
  BY <1>1, <1>2

SavedApart(f) ==
  /\ f.general \in Seq((4..11) \cup {LR}) /\ Unequal(f.general)
  /\ f.vfp \in Seq(32..47) /\ \A i \in 1..Len(f.vfp) : f.vfp[i] = f.vfp[1] + (i - 1)

GeneralPlace(f, top, i) == top - UNITS_PER_WORD * (Len(f.general) - i + 1)
VfpPlace(f, top, i) == top - UNITS_PER_WORD * Len(f.general) - UNITS_PER_WORD * (Len(f.vfp) - i + 1)

Bare == {"push", "leave"}
Half == {"vpush", "pop"}

\* The address found for a register that is saved at one place.
LEMMA AddressFound ==
  ASSUME NEW T, NEW r, NEW x, <<r, x>> \in T, \A s \in T : s[1] = r => s = <<r, x>>
  PROVE  Names(T, r) /\ AddressOf(T, r) = x
<1>1. (CHOOSE s \in T : s[1] = r) = <<r, x>>
  OBVIOUS
<1> QED
  BY <1>1 DEF Names, AddressOf

\* A function that saves apart saves the registers of its two lists.
LEMMA SavedNames ==
  ASSUME NEW f, SavedApart(f), NEW step, NEW top
  PROVE  /\ \A s \in PlacedAt(f.general, top) : \E i \in 1..Len(f.general) : s = <<f.general[i], GeneralPlace(f, top, i)>>
         /\ \A i \in 1..Len(f.general) : <<f.general[i], GeneralPlace(f, top, i)>> \in PlacedAt(f.general, top)
         /\ \A s \in PlacedAt(f.vfp, top - UNITS_PER_WORD * Len(f.general)) :
              \E i \in 1..Len(f.vfp) : s = <<f.vfp[i], VfpPlace(f, top, i)>>
         /\ \A i \in 1..Len(f.vfp) : <<f.vfp[i], VfpPlace(f, top, i)>> \in PlacedAt(f.vfp, top - UNITS_PER_WORD * Len(f.general))
<1>1. DOMAIN f.general = 1..Len(f.general) /\ DOMAIN f.vfp = 1..Len(f.vfp)
  BY DEF SavedApart
<1> QED
  BY <1>1 DEF PlacedAt, GeneralPlace, VfpPlace

\* General registers are below 16, floating-point registers above.
LEMMA TwoFiles ==
  ASSUME NEW f, SavedApart(f)
  PROVE  /\ \A i, j \in 1..Len(f.general) : f.general[i] = f.general[j] => i = j
         /\ \A i, j \in 1..Len(f.vfp) : f.vfp[i] = f.vfp[j] => i = j
         /\ \A i \in 1..Len(f.general), j \in 1..Len(f.vfp) : f.general[i] # f.vfp[j]
<1>1. \A i \in 1..Len(f.general) : f.general[i] \in (4..11) \cup {LR}
  BY DEF SavedApart
<1>2. \A i \in 1..Len(f.vfp) : f.vfp[i] \in 32..47
  BY DEF SavedApart
<1>3. \A i, j \in 1..Len(f.general) : f.general[i] = f.general[j] => i = j
  BY DEF SavedApart, Unequal
<1>4. ASSUME NEW i \in 1..Len(f.vfp), NEW j \in 1..Len(f.vfp), f.vfp[i] = f.vfp[j] PROVE i = j
  <2>1. Len(f.vfp) \in Nat
    BY DEF SavedApart
  <2>2. PICK c \in Int : c = f.vfp[1]
    <3>1. 1 \in 1..Len(f.vfp)
      BY <2>1
    <3>2. f.vfp[1] \in 32..47
      BY <1>2, <3>1
    <3>3. \A q \in 32..47 : q \in Int
      OBVIOUS
    <3> QED
      BY <3>2, <3>3
  <2>3. c + (i - 1) = c + (j - 1)
    BY <1>4, <2>2 DEF SavedApart
  <2>4. PICK a \in Int, b \in Int : a = i /\ b = j
    BY <2>1
  <2>5. c + (a - 1) = c + (b - 1)
    BY <2>3, <2>4
  <2>6. a = b
    BY <2>2, <2>5
  <2> QED
    BY <2>4, <2>6
<1>5. \A i \in 1..Len(f.general), j \in 1..Len(f.vfp) : f.general[i] # f.vfp[j]
  <2>1. (4..11) \cup {LR} \subseteq 0..15 /\ \A x \in 0..15 : x \notin 32..47
    BY DEF LR
  <2> QED
    BY <1>1, <1>2, <2>1, Zenon
<1> QED
  BY <1>3, <1>4, <1>5

\* push keeps a register in its word until pop has loaded it.
LEMMA GeneralSaved ==
  ASSUME NEW f, SavedApart(f), NEW step, step \notin Bare, NEW top, NEW i \in 1..Len(f.general)
  PROVE  /\ Names(Saves(f, step, top), f.general[i])
         /\ AddressOf(Saves(f, step, top), f.general[i]) = GeneralPlace(f, top, i)
<1> DEFINE T == Saves(f, step, top)
           r == f.general[i]
           x == GeneralPlace(f, top, i)
<1>1. <<r, x>> \in T
  BY SavedNames DEF Saves, Bare
<1>2. ASSUME NEW s \in T, s[1] = r PROVE s = <<r, x>>
  <2>1. CASE s \in PlacedAt(f.general, top)
    <3>1. PICK j \in 1..Len(f.general) : s = <<f.general[j], GeneralPlace(f, top, j)>>
      BY <2>1, SavedNames
    <3>2. j = i
      BY <1>2, <3>1, TwoFiles
    <3> QED
      BY <3>1, <3>2
  <2>2. CASE s \in PlacedAt(f.vfp, top - UNITS_PER_WORD * Len(f.general))
    <3>1. PICK j \in 1..Len(f.vfp) : s = <<f.vfp[j], VfpPlace(f, top, j)>>
      BY <2>2, SavedNames
    <3> QED
      BY <1>2, <3>1, TwoFiles
  <2> QED
    BY <2>1, <2>2 DEF Saves
<1> HIDE DEF T, r, x
<1>3. Names(T, r) /\ AddressOf(T, r) = x
  BY <1>1, <1>2, AddressFound
<1> QED
  BY <1>3 DEF T, r, x

\* vpush does the same until vpop.
LEMMA VfpSaved ==
  ASSUME NEW f, SavedApart(f), NEW step, step \notin Bare \cup Half, NEW top, NEW i \in 1..Len(f.vfp)
  PROVE  /\ Names(Saves(f, step, top), f.vfp[i])
         /\ AddressOf(Saves(f, step, top), f.vfp[i]) = VfpPlace(f, top, i)
<1> DEFINE T == Saves(f, step, top)
           r == f.vfp[i]
           x == VfpPlace(f, top, i)
<1>1. <<r, x>> \in T
  BY SavedNames DEF Saves, Bare, Half
<1>2. ASSUME NEW s \in T, s[1] = r PROVE s = <<r, x>>
  <2>1. CASE s \in PlacedAt(f.general, top)
    <3>1. PICK j \in 1..Len(f.general) : s = <<f.general[j], GeneralPlace(f, top, j)>>
      BY <2>1, SavedNames
    <3> QED
      BY <1>2, <3>1, TwoFiles
  <2>2. CASE s \in PlacedAt(f.vfp, top - UNITS_PER_WORD * Len(f.general))
    <3>1. PICK j \in 1..Len(f.vfp) : s = <<f.vfp[j], VfpPlace(f, top, j)>>
      BY <2>2, SavedNames
    <3>2. j = i
      BY <1>2, <3>1, TwoFiles
    <3> QED
      BY <3>1, <3>2
  <2> QED
    BY <2>1, <2>2 DEF Saves
<1> HIDE DEF T, r, x
<1>3. Names(T, r) /\ AddressOf(T, r) = x
  BY <1>1, <1>2, AddressFound
<1> QED
  BY <1>3 DEF T, r, x

\* No other register is saved.
LEMMA NotSaved ==
  ASSUME NEW f, SavedApart(f), NEW step, NEW top, NEW r,
         step \in Bare \/ ~ Contains(f.general, r), step \in Bare \cup Half \/ ~ Contains(f.vfp, r)
  PROVE  ~ Names(Saves(f, step, top), r)
<1>1. ASSUME NEW s \in Saves(f, step, top), s[1] = r PROVE FALSE
  <2>1. CASE s \in PlacedAt(f.general, top) /\ step \notin Bare
    BY <1>1, <2>1, SavedNames DEF Contains
  <2>2. CASE s \in PlacedAt(f.vfp, top - UNITS_PER_WORD * Len(f.general)) /\ step \notin Bare \cup Half
    BY <1>1, <2>2, SavedNames DEF Contains
  <2> QED
    BY <2>1, <2>2 DEF Saves, Bare, Half
<1> QED
  BY <1>1 DEF Names

\* The i-th register push or vpush stores.
IsGeneral(f, i, r) == i \in 1..Len(f.general) /\ f.general[i] = r
IsVfp(f, i, r) == i \in 1..Len(f.vfp) /\ f.vfp[i] = r

\* A register is pushed by push, by vpush or not at all.
LEMMA KindsOfRegisters ==
  ASSUME NEW f, SavedApart(f), NEW r
  PROVE  \/ \E i : IsGeneral(f, i, r)
         \/ \E i : IsVfp(f, i, r)
         \/ ~ Contains(f.general, r) /\ ~ Contains(f.vfp, r)
BY DEF Contains, IsGeneral, IsVfp

\* What vpush stores push does not.
LEMMA VfpNotGeneral ==
  ASSUME NEW f, NEW i, NEW r, SavedApart(f), IsVfp(f, i, r)
  PROVE  ~ Contains(f.general, r)
BY TwoFiles DEF Contains, IsVfp

\* What is found in a register below an activation: where it saved it, or in the register.
View(f, step, top, rs, m, r) ==
  IF Names(Saves(f, step, top), r) THEN Load(m, AddressOf(Saves(f, step, top), r)) ELSE rs[r]

RightBelow(h, n) == n \in Nat \ {0} /\ h = n - 1
LastView(p, s, rs, m, r) == View(p[s[Len(s)].fn], s[Len(s)].step, s[Len(s)].top, rs, m, r)

\* What is looked up right below the last activation is what that one makes of it.
LEMMA ViewIs ==
  ASSUME NEW p, NEW s, NEW rs, NEW m, NEW r, NEW h, RightBelow(h, Len(s))
  PROVE  Lookup(p, s, rs, m, h, r) = LastView(p, s, rs, m, r)
<1>0. PICK n \in Nat \ {0} : n = Len(s) /\ h = n - 1
  BY DEF RightBelow
<1>1. n - 1 \in Nat /\ n - 1 + 1 = n /\ n \in (n - 1 + 1)..Len(s) /\ Len(s) \in Nat
  BY <1>0
<1>2. \A k \in (n - 1 + 1)..Len(s) : k = n
  BY <1>0
<1>3. SavesIn(p, s, n) = Saves(p[s[n].fn], s[n].step, s[n].top)
  BY DEF SavesIn
<1>4. CASE Names(SavesIn(p, s, n), r)
  <2>1. \A k \in (n - 1 + 1)..Len(s) : k < n => ~ Names(SavesIn(p, s, k), r)
    BY <1>2
  <2>2. Lookup(p, s, rs, m, n - 1, r) = Load(m, AddressOf(SavesIn(p, s, n), r))
    BY <1>0, <1>1, <1>4, <2>1, FirstSaver
  <2> QED
    BY <1>0, <1>3, <1>4, <2>2 DEF View, LastView
<1>5. CASE ~ Names(SavesIn(p, s, n), r)
  <2>1. Lookup(p, s, rs, m, n - 1, r) = rs[r]
    BY <1>2, <1>5, NoSaver
  <2> QED
    BY <1>0, <1>3, <1>5, <2>1 DEF View, LastView
<1> QED
  BY <1>4, <1>5

\* A general register is found where push put it until pop has loaded it.
LEMMA ViewGeneral ==
  ASSUME NEW f, NEW step, NEW top, NEW rs, NEW m, NEW r, NEW i,
         SavedApart(f), step \notin Bare, IsGeneral(f, i, r)
  PROVE  View(f, step, top, rs, m, r) = Load(m, GeneralPlace(f, top, i))
<1>1. i \in 1..Len(f.general) /\ f.general[i] = r
  BY DEF IsGeneral
<1>2. Names(Saves(f, step, top), r) /\ AddressOf(Saves(f, step, top), r) = GeneralPlace(f, top, i)
  BY <1>1, GeneralSaved
<1> QED
  BY <1>2 DEF View

\* A floating-point register is found where vpush put it until vpop has loaded it.
LEMMA ViewVfp ==
  ASSUME NEW f, NEW step, NEW top, NEW rs, NEW m, NEW r, NEW i,
         SavedApart(f), step \notin Bare \cup Half, IsVfp(f, i, r)
  PROVE  View(f, step, top, rs, m, r) = Load(m, VfpPlace(f, top, i))
<1>1. i \in 1..Len(f.vfp) /\ f.vfp[i] = r
  BY DEF IsVfp
<1>2. Names(Saves(f, step, top), r) /\ AddressOf(Saves(f, step, top), r) = VfpPlace(f, top, i)
  BY <1>1, VfpSaved
<1> QED
  BY <1>2 DEF View

\* Any other register is found in itself.
LEMMA ViewDirect ==
  ASSUME NEW f, NEW step, NEW top, NEW rs, NEW m, NEW r, SavedApart(f),
         step \in Bare \/ ~ Contains(f.general, r), step \in Bare \cup Half \/ ~ Contains(f.vfp, r)
  PROVE  View(f, step, top, rs, m, r) = rs[r]
BY NotSaved DEF View

-----------------------------------------------------------------------------
\* Words stored one after the other.
LEMMA Stored ==
  ASSUME NEW m, NEW at \in Int, NEW values, Len(values) \in Nat
  PROVE  /\ \A i \in 1..Len(values) : Load(Store(m, at, values), at + UNITS_PER_WORD * (i - 1)) = values[i]
         /\ \A x \in Int : x < at \/ x >= at + UNITS_PER_WORD * Len(values) =>
              Load(Store(m, at, values), x) = Load(m, x)
<1> DEFINE n == Len(values)
           m2 == Store(m, at, values)
           W == Words(at, n)
<1>1. W = {at + 4 * (i - 1) : i \in 1..n}
  BY DEF Words, UNITS_PER_WORD
<1>2. \A x : x \in DOMAIN m2 <=> x \in DOMAIN m \/ x \in W
  BY DEF Store
<1>3. \A x \in W : m2[x] = values[(x - at) \div 4 + 1]
  BY DEF Store, UNITS_PER_WORD
<1>4. \A x \in DOMAIN m \ W : m2[x] = m[x]
  BY DEF Store
<1> HIDE DEF m2, W
<1>5. ASSUME NEW i \in 1..n PROVE Load(m2, at + UNITS_PER_WORD * (i - 1)) = values[i]
  <2>1. PICK k \in Nat : k = i - 1 /\ k + 1 = i
    OBVIOUS
  <2>2. PICK x \in Int : x = at + 4 * (i - 1) /\ x = at + 4 * k
    BY <2>1
  <2>3. x \in W /\ x \in DOMAIN m2
    BY <1>1, <1>2, <2>2
  <2>4. (x - at) \div 4 + 1 = i
    <3>1. x - at = 4 * k
      BY <2>2
    <3>2. (4 * k) \div 4 = k
      OBVIOUS
    <3> QED
      BY <2>1, <3>1, <3>2
  <2>5. m2[x] = values[i]
    BY <1>3, <2>3, <2>4
  <2> QED
    BY <2>2, <2>3, <2>5 DEF Load, UNITS_PER_WORD
<1>6. ASSUME NEW x \in Int, x < at \/ x >= at + UNITS_PER_WORD * n PROVE Load(m2, x) = Load(m, x)
  <2>1. x \notin W
    <3>1. ASSUME NEW i \in 1..n, x = at + 4 * (i - 1) PROVE FALSE
      <4>1. PICK k \in Nat : k = i - 1 /\ k + 1 =< n
        OBVIOUS
      <4>2. x = at + 4 * k
        BY <3>1, <4>1
      <4> QED
        BY <1>6, <4>1, <4>2 DEF UNITS_PER_WORD
    <3> QED
      BY <1>1, <3>1
  <2> QED
    BY <1>2, <1>4, <2>1 DEF Load
<1> QED
  BY <1>5, <1>6 DEF m2

\* Where the words push and vpush store begin.
GeneralEnd(f, top) == top - UNITS_PER_WORD * Len(f.general)
VfpEnd(f, top) == GeneralEnd(f, top) - UNITS_PER_WORD * Len(f.vfp)

\* The saved registers are one list below the other, below where the activation began.
LEMMA Ends ==
  ASSUME NEW f, NEW top, SavedApart(f), top \in Int
  PROVE  /\ GeneralEnd(f, top) \in Int /\ VfpEnd(f, top) \in Int
         /\ VfpEnd(f, top) =< GeneralEnd(f, top) /\ GeneralEnd(f, top) =< top
<1>1. PICK g \in Nat, v \in Nat : g = Len(f.general) /\ v = Len(f.vfp)
  BY DEF SavedApart
<1> QED
  BY <1>1 DEF GeneralEnd, VfpEnd, UNITS_PER_WORD

\* The places push fills.
LEMMA GeneralPlaces ==
  ASSUME NEW f, NEW top, NEW i, NEW r, SavedApart(f), top \in Int, IsGeneral(f, i, r)
  PROVE  /\ GeneralPlace(f, top, i) \in Int
         /\ GeneralPlace(f, top, i) = GeneralEnd(f, top) + UNITS_PER_WORD * (i - 1)
         /\ GeneralEnd(f, top) =< GeneralPlace(f, top, i) /\ GeneralPlace(f, top, i) < top
<1>1. PICK g \in Nat : g = Len(f.general)
  BY DEF SavedApart
<1>2. PICK j \in Int : j = i /\ 1 =< j /\ j =< g
  BY <1>1 DEF IsGeneral
<1>3. /\ top - 4 * (g - j + 1) \in Int
      /\ top - 4 * (g - j + 1) = top - 4 * g + 4 * (j - 1)
      /\ top - 4 * g =< top - 4 * (g - j + 1) /\ top - 4 * (g - j + 1) < top
  BY <1>2
<1> QED
  BY <1>1, <1>2, <1>3 DEF GeneralPlace, GeneralEnd, UNITS_PER_WORD

\* The places vpush fills.
LEMMA VfpPlaces ==
  ASSUME NEW f, NEW top, NEW i, NEW r, SavedApart(f), top \in Int, IsVfp(f, i, r)
  PROVE  /\ VfpPlace(f, top, i) \in Int
         /\ VfpPlace(f, top, i) = VfpEnd(f, top) + UNITS_PER_WORD * (i - 1)
         /\ VfpEnd(f, top) =< VfpPlace(f, top, i) /\ VfpPlace(f, top, i) < GeneralEnd(f, top)
<1>1. PICK g \in Nat, v \in Nat : g = Len(f.general) /\ v = Len(f.vfp)
  BY DEF SavedApart
<1>2. PICK j \in Int : j = i /\ 1 =< j /\ j =< v
  BY <1>1 DEF IsVfp
<1>3. /\ top - 4 * g - 4 * (v - j + 1) \in Int
      /\ top - 4 * g - 4 * (v - j + 1) = top - 4 * g - 4 * v + 4 * (j - 1)
      /\ top - 4 * g - 4 * v =< top - 4 * g - 4 * (v - j + 1)
      /\ top - 4 * g - 4 * (v - j + 1) < top - 4 * g
  BY <1>2
<1> QED
  BY <1>1, <1>2, <1>3 DEF VfpPlace, GeneralEnd, VfpEnd, UNITS_PER_WORD

-----------------------------------------------------------------------------
\* As long as everything is saved, a step may change registers the function saved and
\* memory below.
LEMMA ViewKept ==
  ASSUME NEW f, NEW step, NEW step2, NEW top, NEW rs, NEW m, NEW rs2, NEW m2, NEW r,
         SavedApart(f), top \in Int, step \notin Bare \cup Half, step2 \notin Bare \cup Half,
         \A x \in Int : x >= VfpEnd(f, top) => Load(m2, x) = Load(m, x),
         Contains(f.general, r) \/ Contains(f.vfp, r) \/ rs2[r] = rs[r]
  PROVE  View(f, step2, top, rs2, m2, r) = View(f, step, top, rs, m, r)
<1>1. CASE \E i : IsGeneral(f, i, r)
  <2>1. PICK i : IsGeneral(f, i, r)
    BY <1>1
  <2>2. PICK x \in Int : x = GeneralPlace(f, top, i) /\ x >= VfpEnd(f, top)
    BY <2>1, GeneralPlaces, Ends
  <2>3. step \notin Bare /\ step2 \notin Bare
    OBVIOUS
  <2>4. View(f, step2, top, rs2, m2, r) = Load(m2, x)
    BY <2>1, <2>2, <2>3, ViewGeneral
  <2>5. View(f, step, top, rs, m, r) = Load(m, x)
    BY <2>1, <2>2, <2>3, ViewGeneral
  <2> QED
    BY <2>2, <2>4, <2>5
<1>2. CASE \E i : IsVfp(f, i, r)
  <2>1. PICK i : IsVfp(f, i, r)
    BY <1>2
  <2>2. PICK x \in Int : x = VfpPlace(f, top, i) /\ x >= VfpEnd(f, top)
    BY <2>1, VfpPlaces, Ends
  <2>4. View(f, step2, top, rs2, m2, r) = Load(m2, x)
    BY <2>1, <2>2, ViewVfp
  <2>5. View(f, step, top, rs, m, r) = Load(m, x)
    BY <2>1, <2>2, ViewVfp
  <2> QED
    BY <2>2, <2>4, <2>5
<1>3. CASE ~ Contains(f.general, r) /\ ~ Contains(f.vfp, r)
  <2>1. View(f, step2, top, rs2, m2, r) = rs2[r]
    BY <1>3, ViewDirect
  <2>2. View(f, step, top, rs, m, r) = rs[r]
    BY <1>3, ViewDirect
  <2> QED
    BY <1>3, <2>1, <2>2
<1> QED
  BY <1>1, <1>2, <1>3, KindsOfRegisters

\* What push and vpush store, and what vpop and pop make of the registers.
ValuesOf(rs, list) == [i \in DOMAIN list |-> rs[list[i]]]
Pushed(f, top, rs, m) == Store(m, GeneralEnd(f, top), ValuesOf(rs, f.general))
VPushed(f, top, rs, m) == Store(m, VfpEnd(f, top), ValuesOf(rs, f.vfp))
VPopped(f, rs, m, at) ==
  [x \in DOMAIN rs |-> IF x \in ToSet(f.vfp) THEN Load(m, at + UNITS_PER_WORD * (x - f.vfp[1])) ELSE rs[x]]
Popped(f, rs, m, at) ==
  [x \in DOMAIN rs |->
     IF x \in ToSet(f.general)
     THEN LET i == CHOOSE j \in DOMAIN f.general : f.general[j] = x IN Load(m, at + UNITS_PER_WORD * (i - 1))
     ELSE rs[x]]

\* The steps at which nothing, the first list or both lists are saved.
LEMMA StepClasses ==
  /\ "push" \in Bare /\ "leave" \in Bare /\ "vpush" \in Half /\ "pop" \in Half
  /\ "vpush" \notin Bare /\ "pop" \notin Bare /\ "vpop" \notin Bare \cup Half
  /\ \A x : x \notin Bare \cup Half => x \notin Bare /\ x \notin Half
  /\ \A x : x \in Bare => x \in Bare \cup Half
  /\ \A x : x \in Half => x \in Bare \cup Half
BY DEF Bare, Half

\* The words in which push leaves the registers.
LEMMA PushStores ==
  ASSUME NEW f, NEW top, NEW rs, NEW m, NEW i, NEW r, SavedApart(f), top \in Int, IsGeneral(f, i, r)
  PROVE  Load(Pushed(f, top, rs, m), GeneralPlace(f, top, i)) = rs[r]
<1>1. i \in 1..Len(f.general) /\ f.general[i] = r
  BY DEF IsGeneral
<1>2. PICK n \in Nat : n = Len(f.general) /\ DOMAIN f.general = 1..n
  BY DEF SavedApart
<1> DEFINE v == ValuesOf(rs, f.general)
<1>3. v = [j \in 1..n |-> rs[f.general[j]]]
  BY <1>2 DEF ValuesOf
<1>4. Len(v) = n
  BY <1>2, <1>3
<1>5. v[i] = rs[r]
  BY <1>1, <1>2, <1>3
<1> HIDE DEF v
<1>6. GeneralEnd(f, top) \in Int /\ GeneralPlace(f, top, i) = GeneralEnd(f, top) + UNITS_PER_WORD * (i - 1)
  BY Ends, GeneralPlaces
<1>7. i \in 1..Len(v) /\ Len(v) \in Nat
  BY <1>1, <1>2, <1>4
<1>8. Load(Store(m, GeneralEnd(f, top), v), GeneralEnd(f, top) + UNITS_PER_WORD * (i - 1)) = v[i]
  BY <1>6, <1>7, Stored
<1> QED
  BY <1>5, <1>6, <1>8 DEF v, Pushed, VPushed

\* The words in which vpush leaves the registers.
LEMMA VPushStores ==
  ASSUME NEW f, NEW top, NEW rs, NEW m, NEW i, NEW r, SavedApart(f), top \in Int, IsVfp(f, i, r)
  PROVE  Load(VPushed(f, top, rs, m), VfpPlace(f, top, i)) = rs[r]
<1>1. i \in 1..Len(f.vfp) /\ f.vfp[i] = r
  BY DEF IsVfp
<1>2. PICK n \in Nat : n = Len(f.vfp) /\ DOMAIN f.vfp = 1..n
  BY DEF SavedApart
<1> DEFINE v == ValuesOf(rs, f.vfp)
<1>3. v = [j \in 1..n |-> rs[f.vfp[j]]]
  BY <1>2 DEF ValuesOf
<1>4. Len(v) = n
  BY <1>2, <1>3
<1>5. v[i] = rs[r]
  BY <1>1, <1>2, <1>3
<1> HIDE DEF v
<1>6. VfpEnd(f, top) \in Int /\ VfpPlace(f, top, i) = VfpEnd(f, top) + UNITS_PER_WORD * (i - 1)
  BY Ends, VfpPlaces
<1>7. i \in 1..Len(v) /\ Len(v) \in Nat
  BY <1>1, <1>2, <1>4
<1>8. Load(Store(m, VfpEnd(f, top), v), VfpEnd(f, top) + UNITS_PER_WORD * (i - 1)) = v[i]
  BY <1>6, <1>7, Stored
<1> QED
  BY <1>5, <1>6, <1>8 DEF v, Pushed, VPushed

\* push and vpush store nothing above.
LEMMA PushBelow ==
  ASSUME NEW f, NEW top, NEW rs, NEW m, NEW x, SavedApart(f), top \in Int, x \in Int
  PROVE  /\ x >= top => Load(Pushed(f, top, rs, m), x) = Load(m, x)
         /\ x >= GeneralEnd(f, top) => Load(VPushed(f, top, rs, m), x) = Load(m, x)
<1>1. PICK g \in Nat, v \in Nat : g = Len(f.general) /\ v = Len(f.vfp) /\ DOMAIN f.general = 1..g /\ DOMAIN f.vfp = 1..v
  BY DEF SavedApart
<1>2. Len(ValuesOf(rs, f.general)) = g /\ Len(ValuesOf(rs, f.vfp)) = v
  BY <1>1 DEF ValuesOf
<1>3. /\ GeneralEnd(f, top) \in Int /\ VfpEnd(f, top) \in Int
      /\ GeneralEnd(f, top) + UNITS_PER_WORD * g = top
      /\ VfpEnd(f, top) + UNITS_PER_WORD * v = GeneralEnd(f, top)
  BY <1>1 DEF GeneralEnd, VfpEnd, UNITS_PER_WORD
<1>4. ASSUME x >= top PROVE Load(Pushed(f, top, rs, m), x) = Load(m, x)
  <2>1. x >= GeneralEnd(f, top) + UNITS_PER_WORD * Len(ValuesOf(rs, f.general))
    BY <1>2, <1>3, <1>4
  <2> QED
    BY <1>1, <1>2, <1>3, <2>1, Stored DEF Pushed, VPushed
<1>5. ASSUME x >= GeneralEnd(f, top) PROVE Load(VPushed(f, top, rs, m), x) = Load(m, x)
  <2>1. x >= VfpEnd(f, top) + UNITS_PER_WORD * Len(ValuesOf(rs, f.vfp))
    BY <1>2, <1>3, <1>5
  <2> QED
    BY <1>1, <1>2, <1>3, <2>1, Stored DEF Pushed, VPushed
<1> QED
  BY <1>4, <1>5

\* push: the registers are found in the words they were stored in.
LEMMA PushView ==
  ASSUME NEW f, NEW top, NEW rs, NEW m, NEW r, SavedApart(f), top \in Int
  PROVE  View(f, "vpush", top, rs, Pushed(f, top, rs, m), r)
           = View(f, "push", top, rs, m, r)
<1>0. PICK m2 : m2 = Pushed(f, top, rs, m)
  OBVIOUS
<1>1. View(f, "push", top, rs, m, r) = rs[r]
  BY ViewDirect, StepClasses
<1>2. CASE \E i : IsGeneral(f, i, r)
  <2>1. PICK i : IsGeneral(f, i, r)
    BY <1>2
  <2>2. Load(m2, GeneralPlace(f, top, i)) = rs[r]
    <3>1. Load(Pushed(f, top, rs, m), GeneralPlace(f, top, i)) = rs[r]
      BY <2>1, PushStores
    <3> QED
      BY <1>0, <3>1
  <2>3. View(f, "vpush", top, rs, m2, r) = Load(m2, GeneralPlace(f, top, i))
    BY <2>1, ViewGeneral, StepClasses
  <2> QED
    BY <1>0, <1>1, <2>2, <2>3
<1>3. CASE ~ Contains(f.general, r)
  <2> QED
    BY <1>0, <1>1, <1>3, ViewDirect, StepClasses
<1> QED
  BY <1>2, <1>3 DEF Contains, IsGeneral

\* vpush: the words pushed before stay as they are.
LEMMA VPushView ==
  ASSUME NEW f, NEW top, NEW rs, NEW m, NEW r, NEW step, SavedApart(f), top \in Int, step \notin Bare \cup Half
  PROVE  View(f, step, top, rs, VPushed(f, top, rs, m), r) = View(f, "vpush", top, rs, m, r)
<1>0. PICK m2 : m2 = VPushed(f, top, rs, m)
  OBVIOUS
<1>1. CASE \E i : IsGeneral(f, i, r)
  <2>1. PICK i : IsGeneral(f, i, r)
    BY <1>1
  <2>2. Load(m2, GeneralPlace(f, top, i)) = Load(m, GeneralPlace(f, top, i))
    <3>1. PICK x \in Int : x = GeneralPlace(f, top, i) /\ x >= GeneralEnd(f, top)
      BY <2>1, GeneralPlaces
    <3>2. Load(VPushed(f, top, rs, m), x) = Load(m, x)
      BY <3>1, PushBelow
    <3> QED
      BY <1>0, <3>1, <3>2
  <2>3. View(f, step, top, rs, m2, r) = Load(m2, GeneralPlace(f, top, i))
    BY <2>1, ViewGeneral, StepClasses
  <2>4. View(f, "vpush", top, rs, m, r) = Load(m, GeneralPlace(f, top, i))
    BY <2>1, ViewGeneral, StepClasses
  <2> QED
    BY <1>0, <2>2, <2>3, <2>4
<1>2. CASE \E i : IsVfp(f, i, r)
  <2>1. PICK i : IsVfp(f, i, r)
    BY <1>2
  <2>2. Load(m2, VfpPlace(f, top, i)) = rs[r]
    BY <1>0, <2>1, VPushStores
  <2>3. View(f, step, top, rs, m2, r) = Load(m2, VfpPlace(f, top, i))
    BY <2>1, ViewVfp
  <2>4. View(f, "vpush", top, rs, m, r) = rs[r]
    BY <2>1, VfpNotGeneral, ViewDirect, StepClasses
  <2> QED
    BY <1>0, <2>2, <2>3, <2>4
<1>3. CASE ~ Contains(f.general, r) /\ ~ Contains(f.vfp, r)
  <2>1. View(f, step, top, rs, m2, r) = rs[r]
    BY <1>3, ViewDirect
  <2>2. View(f, "vpush", top, rs, m, r) = rs[r]
    BY <1>3, ViewDirect
  <2> QED
    BY <1>0, <2>1, <2>2
<1> QED
  BY <1>1, <1>2, <1>3, KindsOfRegisters

\* vpop and pop load the registers they name and no other.
LEMMA VPoppedIs ==
  ASSUME NEW f, NEW top, NEW rs, NEW m, NEW r, NEW at, SavedApart(f), r \in DOMAIN rs
  PROVE  /\ \A i : IsVfp(f, i, r) => VPopped(f, rs, m, at)[r] = Load(m, at + UNITS_PER_WORD * (i - 1))
         /\ ~ Contains(f.vfp, r) => VPopped(f, rs, m, at)[r] = rs[r]
<1>1. DOMAIN f.vfp = 1..Len(f.vfp) /\ Len(f.vfp) \in Nat
  BY DEF SavedApart
<1>2. r \in ToSet(f.vfp) <=> \E i \in 1..Len(f.vfp) : f.vfp[i] = r
  BY <1>1 DEF ToSet
<1>3. ASSUME NEW i, IsVfp(f, i, r) PROVE VPopped(f, rs, m, at)[r] = Load(m, at + UNITS_PER_WORD * (i - 1))
  <2>0. i \in 1..Len(f.vfp) /\ f.vfp[i] = r
    BY <1>3 DEF IsVfp
  <2>1. PICK c \in Int : c = f.vfp[1]
    <3>1. 1 \in 1..Len(f.vfp) /\ \A j \in 1..Len(f.vfp) : f.vfp[j] \in 32..47
      <4>1. \A j \in 1..Len(f.vfp) : f.vfp[j] \in 32..47
        BY DEF SavedApart
      <4>2. 1 \in 1..Len(f.vfp)
        BY <1>1, <2>0
      <4> QED
        BY <4>1, <4>2
    <3>2. f.vfp[1] \in 32..47
      BY <3>1
    <3> QED
      BY <3>2
  <2>2. r = c + (i - 1)
    BY <2>0, <2>1 DEF SavedApart
  <2>3. r - f.vfp[1] = i - 1
    <3>1. PICK k \in Int : k = i
      BY <1>1, <2>0
    <3>2. c + (k - 1) - c = k - 1
      BY <2>1
    <3> QED
      BY <2>1, <2>2, <3>1, <3>2
  <2>4. VPopped(f, rs, m, at)[r] = Load(m, at + UNITS_PER_WORD * (r - f.vfp[1]))
    BY <1>2, <2>0 DEF VPopped
  <2> QED
    BY <2>3, <2>4
<1>4. ASSUME ~ Contains(f.vfp, r) PROVE VPopped(f, rs, m, at)[r] = rs[r]
  BY <1>2, <1>4 DEF VPopped, Contains
<1> QED
  BY <1>3, <1>4

\* What pop loads into a register, if it is one it loads.
LEMMA PoppedIs ==
  ASSUME NEW f, NEW top, NEW rs, NEW m, NEW r, NEW at, SavedApart(f), r \in DOMAIN rs
  PROVE  /\ \A i : IsGeneral(f, i, r) => Popped(f, rs, m, at)[r] = Load(m, at + UNITS_PER_WORD * (i - 1))
         /\ ~ Contains(f.general, r) => Popped(f, rs, m, at)[r] = rs[r]
<1>1. DOMAIN f.general = 1..Len(f.general) /\ Len(f.general) \in Nat
  BY DEF SavedApart
<1>2. r \in ToSet(f.general) <=> \E i \in 1..Len(f.general) : f.general[i] = r
  BY <1>1 DEF ToSet
<1>3. ASSUME NEW i, IsGeneral(f, i, r) PROVE Popped(f, rs, m, at)[r] = Load(m, at + UNITS_PER_WORD * (i - 1))
  <2>0. i \in 1..Len(f.general) /\ f.general[i] = r
    BY <1>3 DEF IsGeneral
  <2>1. (CHOOSE j \in DOMAIN f.general : f.general[j] = r) = i
    BY <1>1, <2>0, TwoFiles
  <2>2. Popped(f, rs, m, at)[r]
          = LET k == CHOOSE j \in DOMAIN f.general : f.general[j] = r IN Load(m, at + UNITS_PER_WORD * (k - 1))
    BY <1>2, <2>0 DEF Popped
  <2> QED
    BY <2>1, <2>2
<1>4. ASSUME ~ Contains(f.general, r) PROVE Popped(f, rs, m, at)[r] = rs[r]
  BY <1>2, <1>4 DEF Popped, Contains
<1> QED
  BY <1>3, <1>4

\* vpop loads every register from the word vpush stored it in.
LEMMA VPopView ==
  ASSUME NEW f, NEW top, NEW rs, NEW m, NEW r, SavedApart(f), top \in Int, r \in DOMAIN rs
  PROVE  View(f, "pop", top, VPopped(f, rs, m, VfpEnd(f, top)), m, r) = View(f, "vpop", top, rs, m, r)
<1>0. PICK rs2 : rs2 = VPopped(f, rs, m, VfpEnd(f, top))
  OBVIOUS
<1>1. CASE \E i : IsGeneral(f, i, r)
  <2>1. PICK i : IsGeneral(f, i, r)
    BY <1>1
  <2>3. View(f, "pop", top, rs2, m, r) = Load(m, GeneralPlace(f, top, i))
    BY <2>1, ViewGeneral, StepClasses
  <2>4. View(f, "vpop", top, rs, m, r) = Load(m, GeneralPlace(f, top, i))
    BY <2>1, ViewGeneral, StepClasses
  <2> QED
    BY <1>0, <2>3, <2>4
<1>2. CASE \E i : IsVfp(f, i, r)
  <2>1. PICK i : IsVfp(f, i, r)
    BY <1>2
  <2>2. rs2[r] = Load(m, VfpPlace(f, top, i))
    BY <1>0, <2>1, VPoppedIs, VfpPlaces
  <2>3. View(f, "vpop", top, rs, m, r) = Load(m, VfpPlace(f, top, i))
    BY <2>1, ViewVfp, StepClasses
  <2>4. View(f, "pop", top, rs2, m, r) = rs2[r]
    BY <2>1, VfpNotGeneral, ViewDirect, StepClasses
  <2> QED
    BY <1>0, <2>2, <2>3, <2>4
<1>3. CASE ~ Contains(f.general, r) /\ ~ Contains(f.vfp, r)
  <2>1. View(f, "pop", top, rs2, m, r) = rs2[r]
    BY <1>3, ViewDirect
  <2>2. View(f, "vpop", top, rs, m, r) = rs[r]
    BY <1>3, ViewDirect
  <2>3. rs2[r] = rs[r]
    BY <1>0, <1>3, VPoppedIs
  <2> QED
    BY <1>0, <2>1, <2>2, <2>3
<1> QED
  BY <1>1, <1>2, <1>3, KindsOfRegisters

\* pop does the same for the general registers.
LEMMA PopView ==
  ASSUME NEW f, NEW top, NEW rs, NEW m, NEW r, SavedApart(f), top \in Int, r \in DOMAIN rs
  PROVE  View(f, "leave", top, Popped(f, rs, m, GeneralEnd(f, top)), m, r) = View(f, "pop", top, rs, m, r)
<1>0. PICK rs2 : rs2 = Popped(f, rs, m, GeneralEnd(f, top))
  OBVIOUS
<1>1. View(f, "leave", top, rs2, m, r) = rs2[r]
  BY ViewDirect, StepClasses
<1>2. CASE \E i : IsGeneral(f, i, r)
  <2>1. PICK i : IsGeneral(f, i, r)
    BY <1>2
  <2>2. rs2[r] = Load(m, GeneralPlace(f, top, i))
    BY <1>0, <2>1, PoppedIs, GeneralPlaces
  <2>3. View(f, "pop", top, rs, m, r) = Load(m, GeneralPlace(f, top, i))
    BY <2>1, ViewGeneral, StepClasses
  <2> QED
    BY <1>0, <1>1, <2>2, <2>3
<1>3. CASE ~ Contains(f.general, r)
  <2>1. View(f, "pop", top, rs, m, r) = rs[r]
    BY <1>3, ViewDirect, StepClasses
  <2>2. rs2[r] = rs[r]
    BY <1>0, <1>3, PoppedIs
  <2> QED
    BY <1>0, <1>1, <2>1, <2>2
<1> QED
  BY <1>2, <1>3 DEF Contains, IsGeneral

\* What the back end makes of a function: it saves what it writes, its places are above
\* the parameters of its calls and below what it saved.
Sound(f) ==
  /\ SavedApart(f) /\ f.frame \in Nat /\ f.calls \in Seq(SourceCall)
  /\ f.fp => Contains(f.general, FP)
  /\ f.calls # <<>> => Contains(f.general, LR)
  /\ \A r \in f.writes : r \in CalleeSaved => Contains(f.general, r) \/ Contains(f.vfp, r)
  /\ \A k \in DOMAIN f.calls : ArgSize(Len(f.calls[k].args)) =< f.frame
  /\ \A l \in f.own :
       \/ l[1] = "reg" /\ l[2] \in CalleeSaved \ {LR}
       \/ /\ l[1] = "word" /\ l[2] \in Nat /\ l[2] + UNITS_PER_WORD =< f.frame
          /\ \A k \in DOMAIN f.calls : ArgSize(Len(f.calls[k].args)) =< l[2]

\* The registers that are candidates for push and for vpush.
LEMMA SaveLists ==
  /\ GeneralSave \in Seq((4..11) \cup {LR}) /\ Unequal(GeneralSave)
  /\ \A r \in (4..11) \cup {LR} : Contains(GeneralSave, r)
  /\ VfpSave \in Seq(32..47) /\ \A r \in 32..47 : Contains(VfpSave, r)
<1>1. GeneralSave = <<4, 5, 6, 7, 8, 9, 10, 11, 14>> /\ (4..11) \cup {LR} = {4, 5, 6, 7, 8, 9, 10, 11, 14}
  BY DEF GeneralSave, LR
<1>2. GeneralSave \in Seq((4..11) \cup {LR}) /\ Len(GeneralSave) = 9
  BY <1>1
<1>3. Unequal(GeneralSave)
  BY <1>1, <1>2 DEF Unequal
<1>4. ASSUME NEW r \in (4..11) \cup {LR} PROVE Contains(GeneralSave, r)
  <2>1. r \in 4..11 \/ r = 14
    BY DEF LR
  <2>2. CASE r = 14
    BY <1>1, <1>2, <2>2 DEF Contains
  <2>3. CASE r \in 4..11
    <3>1. r - 3 \in 1..9 /\ GeneralSave[r - 3] = r
      BY <1>1, <2>3
    <3> QED
      BY <1>2, <3>1 DEF Contains
  <2> QED
    BY <2>1, <2>2, <2>3
<1>5. VfpSave = [i \in 1..16 |-> 31 + i]
  BY DEF VfpSave, VREG
<1>6. VfpSave \in Seq(32..47) /\ Len(VfpSave) = 16
  BY <1>5
<1>7. ASSUME NEW r \in 32..47 PROVE Contains(VfpSave, r)
  <2>1. r - 31 \in 1..16 /\ VfpSave[r - 31] = r
    BY <1>5
  <2> QED
    BY <1>6, <2>1 DEF Contains
<1> QED
  BY <1>2, <1>3, <1>4, <1>6, <1>7

\* The callee-saved registers a function writes are in its lists: the loop over the
\* candidates leaves none out.
LEMMA SavesWhatItWrites ==
  ASSUME NEW f
  PROVE  /\ General(f) \in Seq((4..11) \cup {LR}) /\ Unequal(General(f)) /\ UsedVfp(f) \in Seq(32..47)
         /\ \A r \in Written(f) : r \in CalleeSaved => Contains(General(f), r) \/ Contains(UsedVfp(f), r)
<1> DEFINE g == (4..11) \cup {LR}
           v == 32..47
<1>1. GeneralSave \in Seq(g) /\ VfpSave \in Seq(v) /\ Unequal(GeneralSave)
  BY SaveLists
<1> HIDE DEF g, v
<1>2. General(f) \in Seq(g) /\ Unequal(General(f))
      /\ \A x : Contains(General(f), x) <=> x \in Written(f) /\ Contains(GeneralSave, x)
  BY <1>1, CollectFinds, Zenon DEF General
<1>3. UsedVfp(f) \in Seq(v) /\ \A x : Contains(UsedVfp(f), x) <=> x \in Written(f) /\ Contains(VfpSave, x)
  BY <1>1, CollectFinds, Zenon DEF UsedVfp
<1>4. \A r \in CalleeSaved : r \in g \/ r \in v
  BY DEF CalleeSaved, g, v
<1>5. \A r \in g : Contains(GeneralSave, r)
  BY SaveLists DEF g
<1>6. \A r \in v : Contains(VfpSave, r)
  BY SaveLists DEF v
<1>7. \A r \in Written(f) : r \in CalleeSaved => Contains(General(f), r) \/ Contains(UsedVfp(f), r)
  BY <1>2, <1>3, <1>4, <1>5, <1>6
<1> QED
  BY <1>2, <1>3, <1>7 DEF g, v

\* The words a function has for itself.
LEMMA OwnPlaces ==
  ASSUME NEW f, f \in Source, NEW l \in Own(f)
  PROVE  \/ l[1] = "reg" /\ l[2] \in CalleeSaved \ {LR}
         \/ l[1] = "word" /\ l[2] \in Nat /\ l[2] % 4 = 0 /\ ArgSizeOf(f) =< l[2] /\ l[2] + 4 =< Size(f)
<1>1. f.calls \in Seq(SourceCall) /\ f.arrays \in Seq(Sizes) /\ Len(f.slots) \in Nat
      /\ DOMAIN f.arrays = 1..Len(f.arrays) /\ DOMAIN f.slots = 1..Len(f.slots)
  BY DEF Source, Sizes
<1>2. CASE \E r \in (f.writes \cap ToSet(CalleeSaveRegisters)) \ Outputs("BL") : l = <<"reg", r>>
  <2>1. PICK r \in (f.writes \cap ToSet(CalleeSaveRegisters)) \ Outputs("BL") : l = <<"reg", r>>
    BY <1>2
  <2>2. r # LR
    BY DEF Outputs
  <2>3. PICK i \in DOMAIN CalleeSaveRegisters : CalleeSaveRegisters[i] = r
    BY DEF ToSet
  <2>4. CalleeSaveRegisters \in Seq(CalleeSaved)
    <3>1. GeneralSave \in Seq(CalleeSaved) /\ VfpSave \in Seq(CalleeSaved)
      <4>1. (4..11) \cup {LR} \subseteq CalleeSaved /\ 32..47 \subseteq CalleeSaved
        BY DEF CalleeSaved
      <4>2. \A A, B, s : A \subseteq B /\ s \in Seq(A) => s \in Seq(B)
        OBVIOUS
      <4> QED
        BY <4>1, <4>2, SaveLists, Zenon
    <3> QED
      BY <3>1 DEF CalleeSaveRegisters
  <2>5. r \in CalleeSaved
    BY <2>3, <2>4
  <2> QED
    BY <2>1, <2>2, <2>5
<1>3. CASE \E i \in DOMAIN f.arrays : l = <<"word", ArrayAt(f, i)>> \/ l = <<"word", ArrayAt(f, i + 1) - UNITS_PER_WORD>>
  <2>1. PICK i \in 1..Len(f.arrays) : l = <<"word", ArrayAt(f, i)>> \/ l = <<"word", ArrayAt(f, i + 1) - UNITS_PER_WORD>>
    BY <1>1, <1>3
  <2>2. PICK a \in Nat, b \in Nat, c \in Nat, s \in Nat :
          /\ a = ArrayAt(f, i) /\ b = ArrayAt(f, i + 1) /\ c = ArgSizeOf(f) /\ s = Size(f)
          /\ c =< a /\ a + 4 =< b /\ b =< s /\ a % 4 = 0 /\ b % 4 = 0
    BY <1>1, ArgSizes, PlacesInFrame
  <2>3. PICK x \in Nat : l = <<"word", x>> /\ c =< x /\ x + 4 =< s /\ x % 4 = 0
    <3>1. l = <<"word", a>> \/ l = <<"word", b - 4>>
      BY <2>1, <2>2 DEF UNITS_PER_WORD
    <3>2. b - 4 \in Nat /\ c =< b - 4 /\ (b - 4) + 4 =< s /\ a + 4 =< s /\ (b - 4) % 4 = 0
      BY <2>2
    <3> QED
      BY <2>2, <3>1, <3>2
  <2> QED
    BY <2>2, <2>3
<1>4. CASE \E i \in DOMAIN f.slots : l = <<"word", SlotAt(f, i)>>
  <2>1. PICK i \in 1..Len(f.slots) : l = <<"word", SlotAt(f, i)>>
    BY <1>1, <1>4
  <2>2. SlotAt(f, i) \in Nat /\ SlotAt(f, i) % 4 = 0 /\ ArgSizeOf(f) =< SlotAt(f, i) /\ SlotAt(f, i) + 4 =< Size(f)
    BY <1>1, PlacesInFrame
  <2> QED
    BY <2>1, <2>2
<1>5. \/ \E r \in (f.writes \cap ToSet(CalleeSaveRegisters)) \ Outputs("BL") : l = <<"reg", r>>
      \/ \E i \in DOMAIN f.arrays : l = <<"word", ArrayAt(f, i)>>
      \/ \E i \in DOMAIN f.arrays : l = <<"word", ArrayAt(f, i + 1) - UNITS_PER_WORD>>
      \/ \E i \in DOMAIN f.slots : l = <<"word", SlotAt(f, i)>>
  <2> DEFINE s1 == {<<"reg", r>> : r \in (f.writes \cap ToSet(CalleeSaveRegisters)) \ Outputs("BL")}
             s2 == {<<"word", ArrayAt(f, i)>> : i \in DOMAIN f.arrays}
             s3 == {<<"word", ArrayAt(f, i + 1) - UNITS_PER_WORD>> : i \in DOMAIN f.arrays}
             s4 == {<<"word", SlotAt(f, i)>> : i \in {j \in DOMAIN f.slots : f.slots[j] # "const"}}
  <2>1. l \in s1 \/ l \in s2 \/ l \in s3 \/ l \in s4
    BY DEF Own
  <2>2. l \in s1 => \E r \in (f.writes \cap ToSet(CalleeSaveRegisters)) \ Outputs("BL") : l = <<"reg", r>>
    OBVIOUS
  <2>3. l \in s2 => \E i \in DOMAIN f.arrays : l = <<"word", ArrayAt(f, i)>>
    OBVIOUS
  <2>4. l \in s3 => \E i \in DOMAIN f.arrays : l = <<"word", ArrayAt(f, i + 1) - UNITS_PER_WORD>>
    OBVIOUS
  <2>5. l \in s4 => \E i \in DOMAIN f.slots : l = <<"word", SlotAt(f, i)>>
    OBVIOUS
  <2> QED
    BY <2>1, <2>2, <2>3, <2>4, <2>5
<1> QED
  BY <1>2, <1>3, <1>4, <1>5

\* vpush and vpop name a range of registers.
LEMMA VfpRange ==
  ASSUME NEW f, Vfp(f) \in Seq(32..47), UsedVfp(f) \in Seq(32..47)
  PROVE  \A i \in 1..Len(Vfp(f)) : Vfp(f)[i] = Vfp(f)[1] + (i - 1)
<1>0. PICK used, w : used = UsedVfp(f) /\ w = Vfp(f) /\ w \in Seq(32..47)
  OBVIOUS
<1>1. CASE used = <<>>
  BY <1>0, <1>1 DEF Vfp
<1>2. CASE used # <<>>
  <2>1. PICK n, c : n = Last(used) - used[1] + 1 /\ c = used[1]
    OBVIOUS
  <2>2. w = [i \in 1..n |-> c + i - 1]
    BY <1>0, <1>2, <2>1 DEF Vfp
  <2>3. DOMAIN w = 1..n
    BY <2>2
  <2>4. DOMAIN w = 1..Len(w) /\ Len(w) \in Nat /\ \A i \in 1..Len(w) : w[i] \in 32..47
    BY <1>0
  <2>5. \A i \in 1..Len(w) : w[i] = c + i - 1
    BY <2>2, <2>3, <2>4
  <2>6. c \in Int
    <3>1. used \in Seq(32..47) /\ 1 \in 1..Len(used)
      BY <1>0, <1>2
    <3>2. used[1] \in 32..47
      BY <3>1
    <3>3. \A q \in 32..47 : q \in Int
      OBVIOUS
    <3> QED
      BY <2>1, <3>2, <3>3
  <2>7. ASSUME NEW i \in 1..Len(w) PROVE w[i] = w[1] + (i - 1)
    <3>1. 1 \in 1..Len(w) /\ i \in Int /\ c \in Int
      BY <2>4, <2>6
    <3>2. w[1] = c + 1 - 1 /\ w[i] = c + i - 1
      BY <2>5, <3>1
    <3> QED
      BY <3>1, <3>2
  <2> QED
    BY <1>0, <2>7
<1> QED
  BY <1>0, <1>1, <1>2

\* Every function the back end makes is sound.
LEMMA CompiledSound ==
  ASSUME NEW p \in Programs, NEW n \in DOMAIN p
  PROVE  Sound(Compiled(p[n]))
<1>0. PICK f : f = p[n]
  OBVIOUS
<1>1. f \in Source /\ Vfp(f) = UsedVfp(f)
  BY <1>0, WellFormed, NoGaps
<1>2. PICK c : c = Compiled(f)
  OBVIOUS
<1>3. /\ c.general = General(f) /\ c.vfp = Vfp(f) /\ c.frame = FrameSize(f) /\ c.calls = f.calls
      /\ c.writes = f.writes /\ c.own = Own(f) /\ c.fp = NeedsFp(f)
  BY <1>2 DEF Compiled
<1>4. /\ General(f) \in Seq((4..11) \cup {LR}) /\ Unequal(General(f)) /\ Vfp(f) \in Seq(32..47)
      /\ \A r \in Written(f) : r \in CalleeSaved => Contains(General(f), r) \/ Contains(Vfp(f), r)
  BY <1>1, SavesWhatItWrites
<1>5. SavedApart(c)
  BY <1>1, <1>3, <1>4, VfpRange DEF SavedApart
<1>19. \A i \in 1..Len(c.vfp) : c.vfp[i] \in 32..47
  <2>1. PICK v : v = c.vfp
    OBVIOUS
  <2>2. v \in Seq(32..47)
    BY <1>3, <1>4, <2>1
  <2>3. \A i \in 1..Len(v) : v[i] \in 32..47
    BY <2>2
  <2> QED
    BY <2>1, <2>3
<1>6. f.calls \in Seq(SourceCall) /\ f.arrays \in Seq(Sizes) /\ Len(f.slots) \in Nat
  BY <1>1 DEF Source, Sizes
<1>7. /\ ArgSizeOf(f) \in Nat /\ Size(f) \in Nat /\ ArgSizeOf(f) =< Size(f)
      /\ \A k \in DOMAIN f.calls : ArgSize(Len(f.calls[k].args)) =< ArgSizeOf(f)
  BY <1>6, ArgSizes, PlacesInFrame
<1>8. FrameSize(f) \in Nat /\ Size(f) =< FrameSize(f)
  <2>1. SPILL_REG \in Written(f)
    BY DEF Written, Outputs, SPILL_REG, IP
  <2>2. FrameSize(f) = StackSize(Size(f), SavedBytes(f), TRUE)
    BY <2>1 DEF FrameSize
  <2>3. SavedBytes(f) \in Nat /\ SavedBytes(f) % 4 = 0
    <3>1. PICK g \in Nat, v \in Nat : g = Len(General(f)) /\ v = Len(UsedVfp(f)) /\ Len(Saved(f)) = g + v
      BY <1>1, <1>4 DEF Saved
    <3> QED
      BY <3>1 DEF SavedBytes, UNITS_PER_WORD
  <2>4. Size(f) % 4 = 0
    BY <1>6, PlacesInFrame
  <2>5. FrameSize(f) \in {Size(f), Size(f) + UNITS_PER_WORD}
    BY <1>7, <2>2, <2>3, <2>4, FrameAligned, Zenon
  <2> QED
    BY <1>7, <2>5 DEF UNITS_PER_WORD
<1>9. ASSUME NEW r, r \in Written(f), r \in CalleeSaved PROVE Contains(c.general, r) \/ Contains(c.vfp, r)
  BY <1>3, <1>4, <1>9
<1>10. c.fp => Contains(c.general, FP)
  <2> SUFFICES ASSUME c.fp PROVE Contains(c.general, FP)
    OBVIOUS
  <2>1. FP \in Written(f) /\ FP \in CalleeSaved
    BY <1>3 DEF Written, CalleeSaved, FP
  <2>2. ~ Contains(c.vfp, FP)
    <3>1. \A i \in 1..Len(c.vfp) : c.vfp[i] \in 32..47
      BY <1>19
    <3>2. FP \notin 32..47
      BY DEF FP
    <3> QED
      BY <3>1, <3>2 DEF Contains
  <2> QED
    BY <1>9, <2>1, <2>2
<1>11. c.calls # <<>> => Contains(c.general, LR)
  <2> SUFFICES ASSUME c.calls # <<>> PROVE Contains(c.general, LR)
    OBVIOUS
  <2>1. LR \in Written(f) /\ LR \in CalleeSaved
    BY <1>3 DEF Written, CalleeSaved, Outputs
  <2>2. ~ Contains(c.vfp, LR)
    <3>1. \A i \in 1..Len(c.vfp) : c.vfp[i] \in 32..47
      BY <1>19
    <3>2. LR \notin 32..47
      BY DEF LR
    <3> QED
      BY <3>1, <3>2 DEF Contains
  <2> QED
    BY <1>9, <2>1, <2>2
<1>12. \A r \in c.writes : r \in CalleeSaved => Contains(c.general, r) \/ Contains(c.vfp, r)
  <2>1. c.writes \subseteq Written(f)
    BY <1>3 DEF Written
  <2> QED
    BY <1>9, <2>1
<1>13. PICK a \in Nat, z \in Nat, fr \in Nat :
         a = ArgSizeOf(f) /\ z = Size(f) /\ fr = FrameSize(f) /\ a =< z /\ z =< fr
  BY <1>7, <1>8
<1>14. ASSUME NEW k \in DOMAIN c.calls
       PROVE  ArgSize(Len(c.calls[k].args)) \in Int /\ ArgSize(Len(c.calls[k].args)) =< a
  <2>1. Len(f.calls[k].args) \in Nat
    BY <1>3, <1>6, <1>14, ArgSizes
  <2>2. ArgSize(Len(c.calls[k].args)) \in Int
    BY <1>3, <2>1 DEF ArgSize, Larger, UNITS_PER_WORD, NUM_ARG_REGS
  <2> QED
    BY <1>3, <1>7, <1>13, <1>14, <2>2
<1>15. \A k \in DOMAIN c.calls : ArgSize(Len(c.calls[k].args)) =< c.frame
  <2> SUFFICES ASSUME NEW k \in DOMAIN c.calls PROVE ArgSize(Len(c.calls[k].args)) =< c.frame
    OBVIOUS
  <2>1. PICK b \in Int : b = ArgSize(Len(c.calls[k].args)) /\ b =< a
    BY <1>14
  <2> QED
    BY <1>3, <1>13, <2>1
<1>16. ASSUME NEW l \in c.own
       PROVE  \/ l[1] = "reg" /\ l[2] \in CalleeSaved \ {LR}
              \/ /\ l[1] = "word" /\ l[2] \in Nat /\ l[2] + UNITS_PER_WORD =< c.frame
                 /\ \A k \in DOMAIN c.calls : ArgSize(Len(c.calls[k].args)) =< l[2]
  <2>1. l \in Own(f)
    BY <1>3
  <2>2. CASE l[1] = "reg" /\ l[2] \in CalleeSaved \ {LR}
    BY <2>2
  <2>3. CASE l[1] = "word" /\ l[2] \in Nat /\ l[2] % 4 = 0 /\ ArgSizeOf(f) =< l[2] /\ l[2] + 4 =< Size(f)
    <3>1. PICK b \in Nat : b = l[2] /\ a =< b /\ b + 4 =< z
      BY <1>13, <2>3
    <3>2. b + 4 =< fr
      BY <1>13, <3>1
    <3>3. ASSUME NEW k \in DOMAIN c.calls PROVE ArgSize(Len(c.calls[k].args)) =< b
      <4>1. PICK d \in Int : d = ArgSize(Len(c.calls[k].args)) /\ d =< a
        BY <1>14
      <4> QED
        BY <1>13, <3>1, <4>1
    <3> QED
      BY <1>3, <1>13, <2>3, <3>1, <3>2, <3>3 DEF UNITS_PER_WORD
  <2> QED
    BY <1>1, <2>1, <2>2, <2>3, OwnPlaces
<1>17. c.frame \in Nat /\ c.calls \in Seq(SourceCall)
  BY <1>3, <1>6, <1>8
<1>18. Sound(c)
  BY <1>5, <1>10, <1>11, <1>12, <1>15, <1>16, <1>17 DEF Sound
<1> QED
  BY <1>0, <1>2, <1>18

-----------------------------------------------------------------------------
\* The rest of Frame's definitions of where things are, for given values of the variables.
SpIn(s, x, i) == IF i = Len(s) THEN x ELSE s[i + 1].top
HoldsIn(p, s, rs, m, x, i) ==
  IF s[i].step \notin {"call", "place", "result"} THEN NoValue
  ELSE [l \in p[s[i].fn].own |-> IF l[1] = "reg" THEN Lookup(p, s, rs, m, i, l[2]) ELSE Load(m, SpIn(s, x, i) + l[2])]
EarlierOf(f, call) == {k \in 1..(call - 1) : f.calls[k].args # <<>> /\ ~ f.calls[call].alone}
PlacedOf(f, call) ==
  IF f.calls[call].args = <<>> /\ EarlierOf(f, call) # {} THEN <<Last(f.calls[Max(EarlierOf(f, call))].args)>>
  ELSE f.calls[call].args

\* An activation of a function, whose frame ends at y.
Frame1(p, a, y) ==
  /\ {"fn", "step", "call", "left", "top"} \subseteq DOMAIN a /\ a.fn \in DOMAIN p /\ a.top \in Int
  /\ a.step = "fp" => p[a.fn].fp
  /\ a.step = "place" => a.call \in DOMAIN p[a.fn].calls /\ a.left \in 0..Len(PlacedOf(p[a.fn], a.call))
  /\ y = a.top - Offset(p[a.fn], a.step)

\* The frames are one below the other.
Framed(p, s, x) ==
  /\ Len(s) \in Nat /\ DOMAIN s = 1..Len(s)
  /\ \A i \in 1..Len(s) : Frame1(p, s[i], SpIn(s, x, i)) /\ (i < Len(s) => s[i].step = "result")
  /\ \A j \in 1..Len(s) : \A i \in 1..j : s[j].top =< s[i].top

AllSound(p) == \A n \in DOMAIN p : Sound(p[n])

\* Frame's definition of what an activation holds.
LEMMA HoldsIs == \A i : Holds(i) = HoldsIn(program, stack, regs, mem, sp, i)
<1> SUFFICES ASSUME NEW i PROVE Holds(i) = HoldsIn(program, stack, regs, mem, sp, i)
  OBVIOUS
<1>1. \A r : RegisterOf(i, r) = Lookup(program, stack, regs, mem, i, r)
  BY RegisterOfIs
<1>2. StackPointer(i) = SpIn(stack, sp, i)
  BY DEF StackPointer, SpIn
<1> QED
  BY <1>1, <1>2 DEF Holds, HoldsIn

-----------------------------------------------------------------------------
\* How far below where it began the frame of an activation ends.
LEMMA FrameEnds ==
  ASSUME NEW f, NEW top, SavedApart(f), top \in Int, f.frame \in Nat
  PROVE  /\ top - Offset(f, "push") = top /\ top - Offset(f, "leave") = top
         /\ top - Offset(f, "vpush") = GeneralEnd(f, top) /\ top - Offset(f, "pop") = GeneralEnd(f, top)
         /\ \A step \in {"fp", "move", "vpop"} : top - Offset(f, step) = VfpEnd(f, top)
         /\ \A step \in Settled : top - Offset(f, step) = VfpEnd(f, top) - f.frame
<1>1. PICK g \in Nat, v \in Nat, fr \in Nat : g = Len(f.general) /\ v = Len(f.vfp) /\ fr = f.frame
  BY DEF SavedApart
<1>2. VfpEnd(f, top) = top - 4 * g - 4 * v /\ GeneralEnd(f, top) = top - 4 * g
  BY <1>1 DEF VfpEnd, GeneralEnd, UNITS_PER_WORD
<1>3. top - (4 * (g + v) + fr) = top - 4 * g - 4 * v - fr /\ top - (4 * (g + v) + 0) = top - 4 * g - 4 * v /\ top - 0 = top
  <2>1. PICK t \in Int : t = top
    OBVIOUS
  <2>2. g \in Int /\ v \in Int /\ fr \in Int
    BY <1>1
  <2>3. t - (4 * (g + v) + fr) = t - 4 * g - 4 * v - fr
    BY <2>2
  <2>4. t - (4 * (g + v) + 0) = t - 4 * g - 4 * v /\ t - 0 = t
    BY <2>2
  <2> QED
    BY <2>1, <2>3, <2>4
<1>4. Offset(f, "push") = 0 /\ Offset(f, "leave") = 0 /\ Offset(f, "vpush") = 4 * g /\ Offset(f, "pop") = 4 * g
  BY <1>1 DEF Offset, UNITS_PER_WORD
<1>5. \A step \in {"fp", "move", "vpop"} : Offset(f, step) = 4 * (g + v) + 0
  BY <1>1 DEF Offset, UNITS_PER_WORD
<1>6. \A step \in Settled : Offset(f, step) = 4 * (g + v) + fr
  BY <1>1 DEF Offset, UNITS_PER_WORD, Settled
<1> QED
  BY <1>1, <1>2, <1>3, <1>4, <1>5, <1>6

\* A register is saved above the frame.
LEMMA SavedAbove ==
  ASSUME NEW f, NEW step, NEW top, NEW r, SavedApart(f), top \in Int, step \notin Bare \cup Half,
         Names(Saves(f, step, top), r)
  PROVE  AddressOf(Saves(f, step, top), r) \in Int /\ AddressOf(Saves(f, step, top), r) >= VfpEnd(f, top)
<1>1. CASE \E i : IsGeneral(f, i, r)
  <2>1. PICK i : IsGeneral(f, i, r)
    BY <1>1
  <2>2. i \in 1..Len(f.general) /\ f.general[i] = r
    BY <2>1 DEF IsGeneral
  <2>3. AddressOf(Saves(f, step, top), r) = GeneralPlace(f, top, i)
    BY <2>2, GeneralSaved, StepClasses
  <2>4. PICK x \in Int, y \in Int, z \in Int : x = GeneralPlace(f, top, i) /\ y = GeneralEnd(f, top) /\ z = VfpEnd(f, top) /\ x >= y /\ y >= z
    BY <2>1, GeneralPlaces, Ends
  <2> QED
    BY <2>3, <2>4
<1>2. CASE \E i : IsVfp(f, i, r)
  <2>1. PICK i : IsVfp(f, i, r)
    BY <1>2
  <2>2. i \in 1..Len(f.vfp) /\ f.vfp[i] = r
    BY <2>1 DEF IsVfp
  <2>3. AddressOf(Saves(f, step, top), r) = VfpPlace(f, top, i)
    BY <2>2, VfpSaved
  <2>4. VfpPlace(f, top, i) \in Int /\ VfpPlace(f, top, i) >= VfpEnd(f, top)
    BY <2>1, VfpPlaces, Ends
  <2> QED
    BY <2>3, <2>4
<1>3. CASE ~ Contains(f.general, r) /\ ~ Contains(f.vfp, r)
  BY <1>3, NotSaved
<1> QED
  BY <1>1, <1>2, <1>3, KindsOfRegisters

\* An activation that waits saved its registers above where the next one began.
LEMMA SavedBelow ==
  ASSUME NEW p, NEW s, NEW x, NEW k, NEW r, AllSound(p), Framed(p, s, x), k \in 1..Len(s), k < Len(s),
         Names(SavesIn(p, s, k), r)
  PROVE  AddressOf(SavesIn(p, s, k), r) \in Int /\ AddressOf(SavesIn(p, s, k), r) >= s[Len(s)].top
<1>1. Len(s) \in Nat /\ k + 1 \in 1..Len(s) /\ Len(s) \in 1..Len(s) /\ k # Len(s) /\ k + 1 \in 1..Len(s)
  BY DEF Framed
<1>2. PICK f : f = p[s[k].fn]
  OBVIOUS
<1>3. PICK t \in Int : t = s[k].top
  BY DEF Framed, Frame1
<1>4. s[k].step = "result" /\ s[k].fn \in DOMAIN p
  BY DEF Framed, Frame1
<1>5. SavedApart(f) /\ f.frame \in Nat
  BY <1>2, <1>4 DEF AllSound, Sound
<1>6. PICK y \in Int, z \in Int, fr \in Nat : y = s[k + 1].top /\ z = VfpEnd(f, t) /\ fr = f.frame /\ y = z - fr
  <2>1. s[k + 1].top = t - Offset(f, "result") /\ s[k + 1].top \in Int
    BY <1>1, <1>2, <1>3, <1>4 DEF Framed, Frame1, SpIn
  <2> QED
    BY <1>3, <1>5, <2>1, FrameEnds, Ends DEF Settled
<1>7. SavesIn(p, s, k) = Saves(f, "result", t) /\ "result" \notin Bare \cup Half
  BY <1>2, <1>3, <1>4 DEF SavesIn, Bare, Half
<1>8. PICK a \in Int : a = AddressOf(SavesIn(p, s, k), r) /\ a >= z
  BY <1>3, <1>5, <1>6, <1>7, SavedAbove
<1>9. s[Len(s)].top =< y /\ s[Len(s)].top \in Int
  BY <1>1, <1>6 DEF Framed, Frame1
<1> QED
  BY <1>6, <1>8, <1>9

\* A step of the last activation: the others, where it began and which function it runs stay.
SameBelow(s, s2) ==
  /\ Len(s2) = Len(s) /\ DOMAIN s2 = DOMAIN s
  /\ \A i \in 1..Len(s) : i < Len(s) => s2[i] = s[i]
  /\ s2[Len(s)].fn = s[Len(s)].fn /\ s2[Len(s)].top = s[Len(s)].top
SameAbove(m, m2, top) == \A y \in Int : y >= top => Load(m2, y) = Load(m, y)
SameView(f, step, step2, top, rs, m, rs2, m2) ==
  \A r \in CalleeSaved : View(f, step2, top, rs2, m2, r) = View(f, step, top, rs, m, r)
LastMoves(p, s, rs, m, x, s2, rs2, m2) ==
  LET n == Len(s) IN
  /\ AllSound(p) /\ Framed(p, s, x) /\ n # 0 /\ SameBelow(s, s2) /\ SameAbove(m, m2, s[n].top)
  /\ SameView(p[s[n].fn], s[n].step, s2[n].step, s[n].top, rs, m, rs2, m2)

\* A callee-saved register is found as it was.
LEMMA FoundAgain ==
  ASSUME NEW p, NEW s, NEW rs, NEW m, NEW x, NEW s2, NEW rs2, NEW m2, NEW r, NEW i,
         LastMoves(p, s, rs, m, x, s2, rs2, m2), r \in CalleeSaved, i \in 0..(Len(s) - 1)
  PROVE  Lookup(p, s2, rs2, m2, i, r) = Lookup(p, s, rs, m, i, r)
<1>10. PICK n : n = Len(s)
  OBVIOUS
<1>9. /\ AllSound(p) /\ Framed(p, s, x) /\ n # 0 /\ SameBelow(s, s2) /\ SameAbove(m, m2, s[n].top)
      /\ SameView(p[s[n].fn], s[n].step, s2[n].step, s[n].top, rs, m, rs2, m2)
  BY <1>10 DEF LastMoves
<1>0. n \in Nat \ {0} /\ Len(s) = n /\ Len(s2) = n
  BY <1>9, <1>10 DEF Framed, SameBelow
<1>1. n \in Nat \ {0} /\ Len(s) = n /\ Len(s2) = n /\ n - 1 \in Nat /\ i \in Nat /\ i =< n - 1
  BY <1>0
<1>8. PICK h \in Nat : h = n - 1 /\ RightBelow(h, n)
  BY <1>1 DEF RightBelow
<1>2. Lookup(p, s, rs, m, h, r) = View(p[s[n].fn], s[n].step, s[n].top, rs, m, r)
  <2>1. Len(s) = n /\ RightBelow(h, Len(s))
    BY <1>0, <1>8
  <2>2. Lookup(p, s, rs, m, h, r) = LastView(p, s, rs, m, r)
    BY <2>1, ViewIs
  <2> QED
    BY <2>1, <2>2 DEF LastView
<1>3. Lookup(p, s2, rs2, m2, h, r) = View(p[s2[n].fn], s2[n].step, s2[n].top, rs2, m2, r)
  <2>1. Len(s2) = n /\ RightBelow(h, Len(s2))
    BY <1>0, <1>8
  <2>2. Lookup(p, s2, rs2, m2, h, r) = LastView(p, s2, rs2, m2, r)
    BY <2>1, ViewIs
  <2> QED
    BY <2>1, <2>2 DEF LastView
<1>4. s2[n].fn = s[n].fn /\ s2[n].top = s[n].top
  BY <1>1, <1>9 DEF SameBelow
<1>5. Lookup(p, s2, rs2, m2, h, r) = Lookup(p, s, rs, m, h, r)
  BY <1>2, <1>3, <1>4, <1>9 DEF SameView
<1>6. ASSUME NEW k \in (i + 1)..(n - 1)
      PROVE  /\ SavesIn(p, s2, k) = SavesIn(p, s, k)
             /\ Names(SavesIn(p, s, k), r) =>
                  Load(m2, AddressOf(SavesIn(p, s, k), r)) = Load(m, AddressOf(SavesIn(p, s, k), r))
  <2>1. k \in 1..Len(s) /\ k < Len(s)
    BY <1>1
  <2>2. s2[k] = s[k]
    BY <1>9, <2>1 DEF SameBelow
  <2>3. SavesIn(p, s2, k) = SavesIn(p, s, k)
    BY <2>2 DEF SavesIn
  <2>4. ASSUME Names(SavesIn(p, s, k), r)
        PROVE  Load(m2, AddressOf(SavesIn(p, s, k), r)) = Load(m, AddressOf(SavesIn(p, s, k), r))
    <3>1. AddressOf(SavesIn(p, s, k), r) \in Int /\ AddressOf(SavesIn(p, s, k), r) >= s[n].top
      BY <1>1, <2>1, <2>4, <1>9, SavedBelow
    <3> QED
      BY <1>9, <3>1 DEF SameAbove
  <2> QED
    BY <2>3, <2>4
<1>7. i \in Nat /\ n - 1 \in Nat /\ i =< n - 1 /\ n - 1 =< Len(s) /\ n - 1 =< Len(s2) /\ Len(s) \in Nat /\ Len(s2) \in Nat
  BY <1>1
<1> QED
  BY <1>5, <1>6, <1>7, <1>8, SameFound

\* What suspended activations hold is found again.
LEMMA HeldAgain ==
  ASSUME NEW p, NEW s, NEW rs, NEW m, NEW x, NEW s2, NEW rs2, NEW m2, NEW x2, NEW i,
         LastMoves(p, s, rs, m, x, s2, rs2, m2), i \in 1..Len(s), i < Len(s)
  PROVE  HoldsIn(p, s2, rs2, m2, x2, i) = HoldsIn(p, s, rs, m, x, i)
<1>11. PICK n : n = Len(s)
  OBVIOUS
<1>10. /\ AllSound(p) /\ Framed(p, s, x) /\ n # 0 /\ SameBelow(s, s2) /\ SameAbove(m, m2, s[n].top)
       /\ i \in 1..n /\ i < n
  BY <1>11 DEF LastMoves
<1>1. n \in Nat \ {0} /\ Len(s) = n /\ Len(s2) = n /\ i \in Nat /\ i \in 1..Len(s) /\ i < Len(s) /\ i \in 0..(n - 1)
      /\ i + 1 \in 1..Len(s) /\ n \in 1..n /\ i + 1 \in 1..n
  BY <1>10, <1>11 DEF Framed, SameBelow
<1>2. s2[i] = s[i] /\ s[i].step = "result" /\ s[i].fn \in DOMAIN p
  BY <1>1, <1>10 DEF SameBelow, Framed, Frame1
<1>3. s2[i + 1].top = s[i + 1].top
  <2>1. CASE i + 1 = n
    BY <1>1, <2>1, <1>10 DEF SameBelow
  <2>2. CASE i + 1 # n
    BY <1>1, <2>2, <1>10 DEF SameBelow
  <2> QED
    BY <2>1, <2>2
<1>4. PICK t \in Int : t = s[i + 1].top /\ t >= s[n].top
  BY <1>1, <1>10 DEF Framed, Frame1
<1>5. SpIn(s, x, i) = t /\ SpIn(s2, x2, i) = t
  BY <1>1, <1>3, <1>4 DEF SpIn
<1>6. PICK f : f = p[s[i].fn] /\ Sound(f)
  BY <1>2, <1>10 DEF AllSound
<1> DEFINE at(q, v, u) == [l \in f.own |-> IF l[1] = "reg" THEN Lookup(p, q, v, u, i, l[2]) ELSE Load(u, t + l[2])]
<1>7. HoldsIn(p, s, rs, m, x, i) = at(s, rs, m)
  BY <1>2, <1>5, <1>6 DEF HoldsIn
<1>8. HoldsIn(p, s2, rs2, m2, x2, i) = at(s2, rs2, m2)
  BY <1>2, <1>5, <1>6 DEF HoldsIn
<1>9. ASSUME NEW l \in f.own
      PROVE  (IF l[1] = "reg" THEN Lookup(p, s2, rs2, m2, i, l[2]) ELSE Load(m2, t + l[2]))
               = (IF l[1] = "reg" THEN Lookup(p, s, rs, m, i, l[2]) ELSE Load(m, t + l[2]))
  <2>1. CASE l[1] = "reg" /\ l[2] \in CalleeSaved \ {LR}
    <3>1. PICK r \in CalleeSaved : r = l[2]
      BY <2>1
    <3>2. Lookup(p, s2, rs2, m2, i, r) = Lookup(p, s, rs, m, i, r)
      BY <1>1, FoundAgain
    <3> QED
      BY <2>1, <3>1, <3>2
  <2>2. CASE l[1] = "word" /\ l[2] \in Nat
    <3>1. PICK y \in Int : y = t + l[2] /\ y >= t
      BY <1>4, <2>2
    <3>2. y >= s[n].top
      <4>1. s[n].top \in Int
        BY <1>1, <1>10 DEF Framed, Frame1
      <4> QED
        BY <1>4, <3>1, <4>1
    <3>3. Load(m2, y) = Load(m, y)
      BY <1>10, <3>2 DEF SameAbove
    <3> QED
      BY <2>2, <3>1, <3>3
  <2> QED
    BY <1>6, <2>1, <2>2 DEF Sound
<1> QED
  BY <1>7, <1>8, <1>9

\* After a step of the last activation the frames are still one below the other.
LEMMA FramedAgain ==
  ASSUME NEW p, NEW s, NEW x, NEW s2, NEW x2, NEW n, Framed(p, s, x), n = Len(s), n # 0, SameBelow(s, s2),
         Frame1(p, s2[n], x2)
  PROVE  Framed(p, s2, x2)
<1>1. n \in Nat \ {0} /\ Len(s2) = n /\ DOMAIN s2 = 1..n /\ Len(s) = n
  BY DEF Framed, SameBelow
<1>2. \A i \in 1..n : s2[i].top = s[i].top
  <2> SUFFICES ASSUME NEW i \in 1..n PROVE s2[i].top = s[i].top
    OBVIOUS
  <2>1. i < n \/ i = n
    BY <1>1
  <2> QED
    BY <1>1, <2>1 DEF SameBelow
<1>3. ASSUME NEW i \in 1..n PROVE Frame1(p, s2[i], SpIn(s2, x2, i)) /\ (i < n => s2[i].step = "result")
  <2>1. CASE i = n
    BY <1>1, <2>1 DEF SpIn
  <2>2. CASE i < n
    <3>1. s2[i] = s[i] /\ i + 1 \in 1..n /\ i # n
      BY <1>1, <2>2 DEF SameBelow
    <3>2. SpIn(s2, x2, i) = SpIn(s, x, i)
      BY <1>1, <1>2, <3>1 DEF SpIn
    <3> QED
      BY <1>1, <2>2, <3>1, <3>2 DEF Framed
  <2> QED
    BY <1>1, <2>1, <2>2
<1>4. ASSUME NEW j \in 1..n, NEW i \in 1..j PROVE s2[j].top =< s2[i].top
  <2>1. i \in 1..n
    BY <1>1
  <2> QED
    BY <1>1, <1>2, <1>4, <2>1 DEF Framed
<1> QED
  BY <1>1, <1>3, <1>4 DEF Framed

-----------------------------------------------------------------------------
\* Every activation finds the return address it was called with.
Returning(p, s, rs, m) ==
  \A i \in 0..(Len(s) - 1) : Lookup(p, s, rs, m, i, LR)[1] = "ra" /\ Lookup(p, s, rs, m, i, LR)[2] = i

CallInv ==
  /\ AlignInv /\ AllSound(program) /\ DOMAIN regs = 0..47
  /\ Framed(program, stack, sp) /\ Returning(program, stack, regs, mem)

Acts == [i \in DOMAIN stack |-> Holds(i)]
Keeping == UNCHANGED Acts \/ Promise!Next

\* The same in the next state.
LEMMA HoldsIsNext == \A i : Holds(i)' = HoldsIn(program', stack', regs', mem', sp', i)
<1>1. (\A i : Holds(i) = HoldsIn(program, stack, regs, mem, sp, i))'
  BY HoldsIs, PTL
<1> QED
  BY <1>1

\* What the activations hold in the next state.
LEMMA ActsNext == Acts' = [i \in DOMAIN stack' |-> HoldsIn(program', stack', regs', mem', sp', i)]
<1> SUFFICES Acts' = [i \in DOMAIN stack' |-> Holds(i)']
  BY HoldsIsNext
<1> QED
  BY DEF Acts

\* What the activations hold.
LEMMA ActsAre == Acts = [i \in DOMAIN stack |-> HoldsIn(program, stack, regs, mem, sp, i)]
BY HoldsIs DEF Acts

\* The last activation, which had set nothing, sets what it has for itself.
LEMMA Settles == ASSUME Acts # <<>>, Len(Acts') = Len(Acts), Front(Acts') = Front(Acts), Last(Acts) = NoValue PROVE Keeping
BY DEF Keeping, Promise!Next, Promise!Settle, Promise!Front, Promise!Last, Front, Last, Acts

\* The last activation leaves.
LEMMA Leaves == ASSUME Acts # <<>>, Last(Acts) = NoValue, Acts' = Front(Acts) PROVE Keeping
BY DEF Keeping, Promise!Next, Promise!Leave, Promise!Front, Promise!Last, Front, Last, Acts

\* A new activation begins with nothing set.
LEMMA Invokes == ASSUME Len(Acts') = Len(Acts) + 1, Front(Acts') = Acts, Last(Acts') = NoValue PROVE Keeping
BY DEF Keeping, Promise!Next, Promise!Invoke, Promise!Front, Promise!Last, Front, Last, Acts

\* The last activation gives up what it has set.
LEMMA Finishes == ASSUME Acts # <<>>, Acts' = [Acts EXCEPT ![Len(Acts)] = NoValue] PROVE Keeping
BY DEF Keeping, Promise!Next, Promise!Finish, Promise!Front, Promise!Last, Front, Last, Acts

-----------------------------------------------------------------------------
\* Lists of a known length.
LEMMA FrontIs ==
  ASSUME NEW n, NEW v, n \in Nat, n # 0, DOMAIN v = 1..n, v = [i \in 1..n |-> v[i]]
  PROVE  Len(v) = n /\ v # <<>> /\ Last(v) = v[n] /\ Front(v) = [i \in 1..(n - 1) |-> v[i]]
<1>1. v \in Seq({v[i] : i \in 1..n}) /\ Len(v) = n
  OBVIOUS
<1>2. Last(v) = v[n]
  BY <1>1 DEF Last
<1>3. Front(v) = SubSeq(v, 1, n - 1)
  BY <1>1 DEF Front
<1>4. SubSeq(v, 1, n - 1) = [i \in 1..(n - 1) |-> v[i]]
  <2>1. SubSeq(v, 1, n - 1) = [i \in 1..(n - 1 - 1 + 1) |-> v[1 + i - 1]]
    BY <1>1
  <2>2. n - 1 - 1 + 1 = n - 1 /\ \A i \in 1..(n - 1) : 1 + i - 1 = i
    OBVIOUS
  <2> QED
    BY <2>1, <2>2
<1>5. v # <<>>
  BY <1>1
<1> QED
  BY <1>1, <1>2, <1>3, <1>4, <1>5

Step1 == LastMoves(program, stack, regs, mem, sp, stack', regs', mem')
HeldLast == HoldsIn(program, stack, regs, mem, sp, Len(stack))
HeldLastNext == HoldsIn(program, stack', regs', mem', sp', Len(stack))

\* The activations a step of the last one leaves alone.
LEMMA ActsOfStep ==
  ASSUME CallInv, stack # <<>>, program' = program, Step1, NEW n, n = Len(stack)
  PROVE  /\ n \in Nat \ {0}
         /\ DOMAIN Acts = 1..n /\ DOMAIN Acts' = 1..n
         /\ Acts[n] = HeldLast /\ Acts'[n] = HeldLastNext
         /\ \A i \in 1..n : i < n => Acts'[i] = Acts[i]
         /\ Acts = [i \in 1..n |-> Acts[i]] /\ Acts' = [i \in 1..n |-> Acts'[i]]
<1>1. n \in Nat \ {0} /\ DOMAIN stack = 1..n /\ DOMAIN stack' = 1..n /\ n \in 1..n
  BY DEF CallInv, Framed, Step1, LastMoves, SameBelow
<1>2. Acts = [i \in 1..n |-> HoldsIn(program, stack, regs, mem, sp, i)]
  BY <1>1, ActsAre
<1>3. Acts' = [i \in 1..n |-> HoldsIn(program, stack', regs', mem', sp', i)]
  BY <1>1, ActsNext
<1>4. \A i \in 1..n : i < n => Acts'[i] = Acts[i]
  <2> SUFFICES ASSUME NEW i \in 1..n, i < n PROVE Acts'[i] = Acts[i]
    OBVIOUS
  <2>1. HoldsIn(program, stack', regs', mem', sp', i) = HoldsIn(program, stack, regs, mem, sp, i)
    BY HeldAgain DEF Step1
  <2> QED
    BY <1>2, <1>3, <2>1
<1>5. Acts[n] = HeldLast /\ Acts'[n] = HeldLastNext
  BY <1>1, <1>2, <1>3 DEF HeldLast, HeldLastNext
<1>6. DOMAIN Acts = 1..n /\ DOMAIN Acts' = 1..n
  BY <1>2, <1>3
<1>7. Acts = [i \in 1..n |-> Acts[i]] /\ Acts' = [i \in 1..n |-> Acts'[i]]
  BY <1>2, <1>3
<1> QED
  BY <1>1, <1>4, <1>5, <1>6, <1>7

\* A step of the last activation is one that calls may take when what it holds stays, was
\* not set or is not set any more.
LEMMA StepKeeps ==
  ASSUME CallInv, stack # <<>>, program' = program, Step1,
         HeldLastNext = HeldLast \/ HeldLast = NoValue \/ HeldLastNext = NoValue
  PROVE  Keeping
<1>1. PICK n : n = Len(stack)
  OBVIOUS
<1>2. PICK v, w : v = Acts /\ w = Acts'
  OBVIOUS
<1>3. /\ n \in Nat \ {0} /\ DOMAIN v = 1..n /\ DOMAIN w = 1..n
      /\ v[n] = HeldLast /\ w[n] = HeldLastNext
      /\ \A i \in 1..n : i < n => w[i] = v[i]
      /\ v = [i \in 1..n |-> v[i]] /\ w = [i \in 1..n |-> w[i]]
  BY <1>1, <1>2, ActsOfStep
<1>7. n \in Nat /\ n # 0
  BY <1>3
<1>4. CASE HeldLastNext = HeldLast
  <2>1. \A i \in 1..n : w[i] = v[i]
    <3> SUFFICES ASSUME NEW i \in 1..n PROVE w[i] = v[i]
      OBVIOUS
    <3>1. i < n \/ i = n
      BY <1>3
    <3> QED
      BY <1>3, <1>4, <3>1
  <2>2. w = v
    BY <1>3, <2>1
  <2> QED
    BY <1>2, <2>2 DEF Keeping
<1>5. CASE HeldLast = NoValue
  <2>1. Len(v) = n /\ v # <<>> /\ Last(v) = v[n] /\ Front(v) = [i \in 1..(n - 1) |-> v[i]]
    BY <1>3, <1>7, FrontIs
  <2>2. Len(w) = n /\ Front(w) = [i \in 1..(n - 1) |-> w[i]]
    BY <1>3, <1>7, FrontIs
  <2>3. \A i \in 1..(n - 1) : w[i] = v[i]
    <3> SUFFICES ASSUME NEW i \in 1..(n - 1) PROVE w[i] = v[i]
      OBVIOUS
    <3>1. i \in 1..n /\ i < n
      BY <1>3
    <3> QED
      BY <1>3, <3>1
  <2>4. Front(w) = Front(v)
    BY <2>1, <2>2, <2>3
  <2> QED
    BY <1>2, <1>3, <1>5, <2>1, <2>2, <2>4, Settles
<1>6. CASE HeldLastNext = NoValue
  <2>1. Len(v) = n /\ v # <<>>
    BY <1>3, <1>7, FrontIs
  <2>2. w = [v EXCEPT ![n] = NoValue]
    <3>1. \A i \in 1..n : w[i] = IF i = n THEN NoValue ELSE v[i]
      <4> SUFFICES ASSUME NEW i \in 1..n PROVE w[i] = IF i = n THEN NoValue ELSE v[i]
        OBVIOUS
      <4>1. i < n \/ i = n
        BY <1>3
      <4> QED
        BY <1>3, <1>6, <4>1
    <3> QED
      BY <1>3, <3>1
  <2> QED
    BY <1>2, <2>1, <2>2, Finishes
<1> QED
  BY <1>4, <1>5, <1>6

\* The invariant after a step of the last activation.
LEMMA StepInv ==
  ASSUME CallInv, stack # <<>>, program' = program, Step1, AlignInv', DOMAIN regs' = 0..47,
         Frame1(program, stack'[Len(stack)], sp')
  PROVE  CallInv'
<1>1. AllSound(program')
  BY DEF CallInv
<1>2. Framed(program', stack', sp')
  <2>1. Framed(program, stack, sp) /\ SameBelow(stack, stack') /\ Len(stack) # 0
    BY DEF CallInv, Step1, LastMoves
  <2>2. Framed(program, stack', sp')
    BY <2>1, FramedAgain
  <2> QED
    BY <2>2
<1>3. Returning(program, stack', regs', mem')
  <2>1. Len(stack') = Len(stack) /\ LR \in CalleeSaved
    BY DEF Step1, LastMoves, SameBelow, CalleeSaved
  <2>2. \A i \in 0..(Len(stack) - 1) :
          Lookup(program, stack', regs', mem', i, LR) = Lookup(program, stack, regs, mem, i, LR)
    <3> SUFFICES ASSUME NEW i \in 0..(Len(stack) - 1)
                 PROVE  Lookup(program, stack', regs', mem', i, LR) = Lookup(program, stack, regs, mem, i, LR)
      OBVIOUS
    <3>1. PICK r : r = LR
      OBVIOUS
    <3> QED
      BY <2>1, <3>1, FoundAgain DEF Step1
  <2> QED
    BY <2>1, <2>2 DEF CallInv, Returning
<1> QED
  BY <1>1, <1>2, <1>3 DEF CallInv

Waiting == {"call", "place", "result"}
\* What a function has for itself, in registers and above x.
OwnAt(f, rs, m, x) == [l \in f.own |-> IF l[1] = "reg" THEN rs[l[2]] ELSE Load(m, x + l[2])]
\* What a function has for itself is where it was.
OwnKept(f, rs, m, x, rs2, m2, x2) ==
  \A l \in f.own : IF l[1] = "reg" THEN rs2[l[2]] = rs[l[2]] ELSE Load(m2, x2 + l[2]) = Load(m, x + l[2])

\* What the invariant says of the last activation.
LEMMA TopIs ==
  ASSUME CallInv, stack # <<>>
  PROVE  /\ Top = stack[Len(stack)] /\ Len(stack) \in Nat \ {0} /\ Frame1(program, Top, sp) /\ Sound(Fn)
         /\ SavedApart(Fn) /\ Fn.frame \in Nat
         /\ Top.top \in Int /\ sp \in Int /\ sp = Top.top - Offset(Fn, Top.step) /\ Fn = program[Top.fn]
         /\ {"fn", "step", "call", "left", "top"} \subseteq DOMAIN Top /\ \E S : stack \in Seq(S)
<1>1. PICK S : stack \in Seq(S)
  BY DEF CallInv, AlignInv, StackOK
<1>2. Len(stack) \in Nat \ {0} /\ Top = stack[Len(stack)] /\ Len(stack) \in 1..Len(stack)
  BY <1>1 DEF Top, Last
<1>3. Frame1(program, Top, sp)
  BY <1>2 DEF CallInv, Framed, SpIn
<1>4. Top.fn \in DOMAIN program /\ Fn = program[Top.fn]
  BY <1>3 DEF Frame1, Fn
<1>5. Sound(Fn)
  BY <1>4 DEF CallInv, AllSound
<1>6. SavedApart(Fn) /\ Fn.frame \in Nat
  BY <1>5 DEF Sound
<1>7. Top.top \in Int /\ sp = Top.top - Offset(Fn, Top.step)
      /\ {"fn", "step", "call", "left", "top"} \subseteq DOMAIN Top
  BY <1>3, <1>4 DEF Frame1
<1>8. sp \in Int
  BY DEF CallInv, AlignInv, PointerOK
<1> QED
  BY <1>1, <1>2, <1>3, <1>4, <1>5, <1>6, <1>7, <1>8

\* The function that runs has its own where it has put it.
LEMMA LastHolds ==
  ASSUME NEW p, NEW s, NEW rs, NEW m, NEW x, NEW n, n = Len(s), n \in Nat, s[n].step \in Waiting
  PROVE  HoldsIn(p, s, rs, m, x, n) = OwnAt(p[s[n].fn], rs, m, x)
<1>1. SpIn(s, x, n) = x
  BY DEF SpIn
<1>2. ASSUME NEW r PROVE Lookup(p, s, rs, m, n, r) = rs[r]
  <2>1. \A k \in (n + 1)..Len(s) : ~ Names(SavesIn(p, s, k), r)
    OBVIOUS
  <2> QED
    BY <2>1, NoSaver
<1>3. HoldsIn(p, s, rs, m, x, n)
        = [l \in p[s[n].fn].own |-> IF l[1] = "reg" THEN Lookup(p, s, rs, m, n, l[2]) ELSE Load(m, SpIn(s, x, n) + l[2])]
  BY DEF HoldsIn, Waiting
<1> QED
  BY <1>1, <1>2, <1>3 DEF OwnAt

\* The same in the next state.
LEMMA LastHoldsNext ==
  ASSUME NEW n, n = Len(stack'), n \in Nat, stack'[n].step \in Waiting
  PROVE  HoldsIn(program, stack', regs', mem', sp', n) = OwnAt(program[stack'[n].fn], regs', mem', sp')
<1>1. PICK p, s2, rs2, m2, x2 : p = program /\ s2 = stack' /\ rs2 = regs' /\ m2 = mem' /\ x2 = sp'
  OBVIOUS
<1>2. HoldsIn(p, s2, rs2, m2, x2, n) = OwnAt(p[s2[n].fn], rs2, m2, x2)
  BY <1>1, LastHolds
<1> QED
  BY <1>1, <1>2

\* What a step of the last activation has to keep.
LEMMA LastStep ==
  ASSUME CallInv, stack # <<>>, program' = program, AlignInv', NEW a, stack' = [stack EXCEPT ![Len(stack)] = a],
         a.fn = Top.fn, a.top = Top.top, Frame1(program, a, sp'), DOMAIN regs' = 0..47,
         SameAbove(mem, mem', Top.top), SameView(Fn, Top.step, a.step, Top.top, regs, mem, regs', mem'),
         Top.step \in Waiting /\ a.step \in Waiting => OwnKept(Fn, regs, mem, sp, regs', mem', sp')
  PROVE  CallInv' /\ Keeping
<1>1. PICK n : n = Len(stack)
  OBVIOUS
<1>2. PICK S : stack \in Seq(S)
  BY TopIs
<1>3. n \in Nat \ {0} /\ n \in 1..n /\ Top = stack[n] /\ n \in DOMAIN stack /\ Fn = program[stack[n].fn]
  BY <1>1, <1>2, TopIs
<1>4. /\ Len(stack') = n /\ DOMAIN stack' = DOMAIN stack /\ stack'[n] = a
      /\ \A i \in 1..n : i < n => stack'[i] = stack[i]
  BY <1>1, <1>2, <1>3
<1>5. SameBelow(stack, stack')
  BY <1>1, <1>3, <1>4 DEF SameBelow
<1>6. Step1
  <2>1. AllSound(program) /\ Framed(program, stack, sp)
    BY DEF CallInv
  <2>2. Len(stack) # 0
    BY <1>1, <1>3
  <2> QED
    BY <1>1, <1>3, <1>4, <1>5, <2>1, <2>2 DEF Step1, LastMoves
<1>7. HeldLastNext = HeldLast \/ HeldLast = NoValue \/ HeldLastNext = NoValue
  <2>1. CASE Top.step \notin Waiting
    BY <1>1, <1>3, <2>1 DEF HeldLast, HoldsIn, Waiting
  <2>2. CASE a.step \notin Waiting
    BY <1>1, <1>4, <2>2 DEF HeldLastNext, HoldsIn, Waiting
  <2>3. CASE Top.step \in Waiting /\ a.step \in Waiting
    <3>1. HeldLast = OwnAt(Fn, regs, mem, sp)
      BY <1>1, <1>3, <2>3, LastHolds DEF HeldLast
    <3>2. HeldLastNext = OwnAt(Fn, regs', mem', sp')
      <4>1. stack'[n].step \in Waiting /\ Fn = program[stack'[n].fn] /\ n = Len(stack')
        BY <1>3, <1>4, <2>3
      <4>2. HoldsIn(program, stack', regs', mem', sp', n) = OwnAt(program[stack'[n].fn], regs', mem', sp')
        BY <1>3, <4>1, LastHoldsNext
      <4> QED
        BY <1>1, <4>1, <4>2 DEF HeldLastNext
    <3>3. \A l \in Fn.own : (IF l[1] = "reg" THEN regs'[l[2]] ELSE Load(mem', sp' + l[2]))
                              = (IF l[1] = "reg" THEN regs[l[2]] ELSE Load(mem, sp + l[2]))
      BY <2>3 DEF OwnKept
    <3> QED
      BY <3>1, <3>2, <3>3 DEF OwnAt
  <2> QED
    BY <2>1, <2>2, <2>3
<1>8. Keeping
  BY <1>6, <1>7, StepKeeps
<1>9. CallInv'
  BY <1>1, <1>4, <1>6, StepInv
<1> QED
  BY <1>8, <1>9

\* A step that only goes on to another one.
LEMMA GoStep ==
  ASSUME CallInv, stack # <<>>, program' = program, AlignInv', NEW step, Go(step), step # "place",
         step = "fp" => Fn.fp, Top.step \notin Waiting, sp' = Top.top - Offset(Fn, step), DOMAIN regs' = 0..47,
         SameAbove(mem, mem', Top.top), SameView(Fn, Top.step, step, Top.top, regs, mem, regs', mem')
  PROVE  CallInv' /\ Keeping
<1>1. PICK a : a = [Top EXCEPT !.step = step]
  OBVIOUS
<1>2. stack' = [stack EXCEPT ![Len(stack)] = a]
  BY <1>1, TopIs DEF Go
<1>3. a.fn = Top.fn /\ a.top = Top.top /\ a.step = step /\ DOMAIN a = DOMAIN Top
  BY <1>1, TopIs
<1>4. Frame1(program, a, sp')
  <2>1. Fn = program[a.fn] /\ a.fn \in DOMAIN program /\ a.top \in Int
        /\ {"fn", "step", "call", "left", "top"} \subseteq DOMAIN a
    BY <1>3, TopIs DEF Frame1
  <2> QED
    BY <1>3, <2>1 DEF Frame1
<1> QED
  BY <1>2, <1>3, <1>4, LastStep

\* Registers that are not callee-saved may change while everything is saved.
LEMMA SameViewKept ==
  ASSUME NEW f, NEW step, NEW step2, NEW top, NEW rs, NEW m, NEW rs2, NEW m2,
         SavedApart(f), top \in Int, step \notin Bare \cup Half, step2 \notin Bare \cup Half,
         SameAbove(m, m2, VfpEnd(f, top)),
         \A r \in CalleeSaved : Contains(f.general, r) \/ Contains(f.vfp, r) \/ rs2[r] = rs[r]
  PROVE  SameView(f, step, step2, top, rs, m, rs2, m2) /\ SameAbove(m, m2, top)
<1>1. ASSUME NEW r \in CalleeSaved PROVE View(f, step2, top, rs2, m2, r) = View(f, step, top, rs, m, r)
  <2>1. \A x \in Int : x >= VfpEnd(f, top) => Load(m2, x) = Load(m, x)
    BY DEF SameAbove
  <2>2. Contains(f.general, r) \/ Contains(f.vfp, r) \/ rs2[r] = rs[r]
    BY <1>1
  <2> QED
    BY <2>1, <2>2, ViewKept
<1>2. ASSUME NEW y \in Int, y >= top PROVE Load(m2, y) = Load(m, y)
  <2>1. PICK e \in Int, t \in Int : e = VfpEnd(f, top) /\ t = top /\ e =< t
    <3>1. PICK e \in Int, g \in Int : e = VfpEnd(f, top) /\ g = GeneralEnd(f, top) /\ e =< g /\ g =< top
      BY Ends
    <3> QED
      BY <3>1
  <2> QED
    BY <1>2, <2>1 DEF SameAbove
<1> QED
  BY <1>1, <1>2 DEF SameView, SameAbove

\* push stores general registers below where the activation began.
LEMMA PushCalls == CallInv /\ Push => CallInv' /\ Keeping
<1> SUFFICES ASSUME CallInv, Push PROVE CallInv' /\ Keeping
  OBVIOUS
<1>1. /\ stack # <<>> /\ Top.step = "push" /\ program' = program /\ regs' = regs /\ Go("vpush")
      /\ sp' = sp - UNITS_PER_WORD * Len(Fn.general) /\ mem' = Store(mem, sp', Values(Fn.general))
  BY DEF Push, At
<1>2. PICK f, t : f = Fn /\ t = Top.top /\ t \in Int /\ SavedApart(f) /\ f.frame \in Nat
  BY <1>1, TopIs
<1>3. sp = t
  BY <1>1, <1>2, TopIs, FrameEnds
<1>4. sp' = GeneralEnd(f, t)
  BY <1>1, <1>2, <1>3 DEF GeneralEnd
<1>5. Values(f.general) = ValuesOf(regs, f.general)
  BY DEF Values, ValuesOf
<1>6. mem' = Pushed(f, t, regs, mem)
  BY <1>1, <1>2, <1>4, <1>5 DEF Pushed
<1>7. SameView(f, "push", "vpush", t, regs, mem, regs', mem')
  BY <1>1, <1>2, <1>6, PushView DEF SameView
<1>8. SameAbove(mem, mem', t)
  BY <1>2, <1>6, PushBelow DEF SameAbove
<1>9. AlignInv'
  BY PushKeeps DEF CallInv
<1>10. sp' = Top.top - Offset(Fn, "vpush")
  BY <1>2, <1>4, FrameEnds
<1>11. DOMAIN regs' = 0..47
  BY <1>1 DEF CallInv
<1> QED
  BY <1>1, <1>2, <1>7, <1>8, <1>9, <1>10, <1>11, GoStep DEF Waiting

\* vpush stores floating point registers below those.
LEMMA VPushCalls == CallInv /\ VPush => CallInv' /\ Keeping
<1> SUFFICES ASSUME CallInv, VPush PROVE CallInv' /\ Keeping
  OBVIOUS
<1>0. PICK step : step = IF Fn.fp THEN "fp" ELSE "move"
  OBVIOUS
<1>1. /\ stack # <<>> /\ Top.step = "vpush" /\ program' = program /\ regs' = regs /\ Go(step)
      /\ sp' = sp - UNITS_PER_WORD * Len(Fn.vfp) /\ mem' = Store(mem, sp', Values(Fn.vfp))
  BY <1>0 DEF VPush, At
<1>2. PICK f, t : f = Fn /\ t = Top.top /\ t \in Int /\ SavedApart(f) /\ f.frame \in Nat
  BY <1>1, TopIs
<1>3. sp = GeneralEnd(f, t)
  BY <1>1, <1>2, TopIs, FrameEnds
<1>4. sp' = VfpEnd(f, t)
  BY <1>1, <1>2, <1>3 DEF VfpEnd
<1>5. Values(f.vfp) = ValuesOf(regs, f.vfp)
  BY DEF Values, ValuesOf
<1>6. mem' = VPushed(f, t, regs, mem)
  BY <1>1, <1>2, <1>4, <1>5 DEF VPushed
<1>12. step \in {"fp", "move"} /\ step \notin Bare \cup Half
  BY <1>0 DEF Bare, Half
<1>7. SameView(f, "vpush", step, t, regs, mem, regs', mem')
  BY <1>1, <1>2, <1>6, <1>12, VPushView DEF SameView
<1>8. SameAbove(mem, mem', t)
  <2>1. GeneralEnd(f, t) \in Int /\ GeneralEnd(f, t) =< t
    BY <1>2, Ends
  <2>2. \A x \in Int : x >= GeneralEnd(f, t) => Load(mem', x) = Load(mem, x)
    BY <1>2, <1>6, PushBelow
  <2> QED
    BY <1>2, <2>1, <2>2 DEF SameAbove
<1>9. AlignInv'
  BY VPushKeeps DEF CallInv
<1>10. sp' = Top.top - Offset(Fn, step)
  BY <1>2, <1>4, <1>12, FrameEnds
<1>11. DOMAIN regs' = 0..47
  BY <1>1 DEF CallInv
<1>13. step # "place" /\ (step = "fp" => Fn.fp)
  BY <1>0
<1> QED
  BY <1>1, <1>2, <1>7, <1>8, <1>9, <1>10, <1>11, <1>13, GoStep DEF Waiting

\* The frame pointer is set up when the old one has been saved.
LEMMA SetUpFpCalls == CallInv /\ SetUpFp => CallInv' /\ Keeping
<1> SUFFICES ASSUME CallInv, SetUpFp PROVE CallInv' /\ Keeping
  OBVIOUS
<1>1. /\ stack # <<>> /\ Top.step = "fp" /\ program' = program /\ mem' = mem /\ sp' = sp /\ Go("move")
      /\ regs' = [regs EXCEPT ![FP] = <<"address", sp + Fn.saved, 0, 0>>]
  BY DEF SetUpFp, At
<1>2. PICK f, t : f = Fn /\ t = Top.top /\ t \in Int /\ SavedApart(f) /\ f.frame \in Nat /\ Sound(f)
  BY <1>1, TopIs
<1>3. Contains(f.general, FP)
  BY <1>1, <1>2, TopIs DEF Frame1, Sound
<1>4. DOMAIN regs' = 0..47 /\ \A r \in CalleeSaved : Contains(f.general, r) \/ Contains(f.vfp, r) \/ regs'[r] = regs[r]
  <2>1. \A r \in CalleeSaved : r # FP => regs'[r] = regs[r]
    <3>1. CalleeSaved \subseteq DOMAIN regs
      BY DEF CalleeSaved, LR, CallInv
    <3> QED
      BY <1>1, <3>1
  <2>2. DOMAIN regs' = DOMAIN regs
    BY <1>1
  <2> QED
    BY <1>3, <2>1, <2>2 DEF CallInv
<1>5. SameView(f, "fp", "move", t, regs, mem, regs', mem') /\ SameAbove(mem, mem', t)
  <2>1. SameAbove(mem, mem', VfpEnd(f, t))
    BY <1>1 DEF SameAbove
  <2>2. "fp" \notin Bare \cup Half /\ "move" \notin Bare \cup Half
    BY DEF Bare, Half
  <2> QED
    BY <1>2, <1>4, <2>1, <2>2, SameViewKept
<1>6. AlignInv'
  BY SetUpFpKeeps DEF CallInv
<1>7. sp' = Top.top - Offset(Fn, "move")
  BY <1>1, <1>2, TopIs, FrameEnds
<1> QED
  BY <1>1, <1>2, <1>4, <1>5, <1>6, <1>7, GoStep DEF Waiting

\* An instruction that moves the stack pointer may write SPILL_REG, which nobody counts on.
LEMMA MovedRegisters ==
  ASSUME CallInv, NEW n, MoveBy(n)
  PROVE  DOMAIN regs' = 0..47 /\ \A r \in CalleeSaved : regs'[r] = regs[r]
<1>1. regs' = regs \/ regs' = [regs EXCEPT ![SPILL_REG] = <<"address", Fn.frame, 0, 0>>]
  BY DEF MoveBy
<1>2. \A r \in CalleeSaved : r # SPILL_REG
  BY DEF CalleeSaved, SPILL_REG, IP, LR
<1>3. DOMAIN regs' = DOMAIN regs /\ \A r \in DOMAIN regs : r # SPILL_REG => regs'[r] = regs[r]
  BY <1>1
<1>4. CalleeSaved \subseteq DOMAIN regs
  BY DEF CalleeSaved, LR, CallInv
<1> QED
  BY <1>2, <1>3, <1>4 DEF CallInv

\* The frame is made; with a large one SPILL_REG is written, which no caller counts on.
LEMMA DecrementSpCalls == CallInv /\ DecrementSp => CallInv' /\ Keeping
<1> SUFFICES ASSUME CallInv, DecrementSp PROVE CallInv' /\ Keeping
  OBVIOUS
<1>1. /\ stack # <<>> /\ Top.step = "move" /\ program' = program /\ mem' = mem /\ Go("take")
      /\ sp' = sp + (- Fn.frame) /\ MoveBy(- Fn.frame)
  BY DEF DecrementSp, At, MoveBy
<1>2. PICK f, t : f = Fn /\ t = Top.top /\ t \in Int /\ SavedApart(f) /\ f.frame \in Nat
  BY <1>1, TopIs
<1>4. DOMAIN regs' = 0..47 /\ \A r \in CalleeSaved : Contains(f.general, r) \/ Contains(f.vfp, r) \/ regs'[r] = regs[r]
  BY <1>1, MovedRegisters
<1>5. SameView(f, "move", "take", t, regs, mem, regs', mem') /\ SameAbove(mem, mem', t)
  <2>1. SameAbove(mem, mem', VfpEnd(f, t))
    BY <1>1 DEF SameAbove
  <2>2. "move" \notin Bare \cup Half /\ "take" \notin Bare \cup Half
    BY DEF Bare, Half
  <2> QED
    BY <1>2, <1>4, <2>1, <2>2, SameViewKept
<1>6. AlignInv'
  BY DecrementSpKeeps DEF CallInv
<1>7. sp' = Top.top - Offset(Fn, "take")
  <2>1. PICK e \in Int, fr \in Nat : e = VfpEnd(f, t) /\ fr = f.frame
    BY <1>2, Ends
  <2>2. sp = e
    BY <1>1, <1>2, <2>1, TopIs, FrameEnds
  <2>3. t - Offset(f, "take") = e - fr
    BY <1>2, <2>1, FrameEnds DEF Settled
  <2> QED
    BY <1>1, <1>2, <2>1, <2>2, <2>3
<1> QED
  BY <1>1, <1>2, <1>4, <1>5, <1>6, <1>7, GoStep DEF Waiting

\* The frame is given up.
LEMMA RecoverSpCalls == CallInv /\ RecoverSp => CallInv' /\ Keeping
<1> SUFFICES ASSUME CallInv, RecoverSp PROVE CallInv' /\ Keeping
  OBVIOUS
<1>1. /\ stack # <<>> /\ Top.step = "recover" /\ program' = program /\ mem' = mem /\ Go("vpop")
      /\ sp' = sp + Fn.frame /\ MoveBy(Fn.frame)
  BY DEF RecoverSp, At, MoveBy
<1>2. PICK f, t : f = Fn /\ t = Top.top /\ t \in Int /\ SavedApart(f) /\ f.frame \in Nat
  BY <1>1, TopIs
<1>4. DOMAIN regs' = 0..47 /\ \A r \in CalleeSaved : Contains(f.general, r) \/ Contains(f.vfp, r) \/ regs'[r] = regs[r]
  BY <1>1, MovedRegisters
<1>5. SameView(f, "recover", "vpop", t, regs, mem, regs', mem') /\ SameAbove(mem, mem', t)
  <2>1. SameAbove(mem, mem', VfpEnd(f, t))
    BY <1>1 DEF SameAbove
  <2>2. "recover" \notin Bare \cup Half /\ "vpop" \notin Bare \cup Half
    BY DEF Bare, Half
  <2> QED
    BY <1>2, <1>4, <2>1, <2>2, SameViewKept
<1>6. AlignInv'
  BY RecoverSpKeeps DEF CallInv
<1>7. sp' = Top.top - Offset(Fn, "vpop")
  <2>1. PICK e \in Int, fr \in Nat : e = VfpEnd(f, t) /\ fr = f.frame
    BY <1>2, Ends
  <2>2. sp = e - fr
    BY <1>1, <1>2, <2>1, TopIs, FrameEnds DEF Settled
  <2>3. t - Offset(f, "vpop") = e
    BY <1>2, <2>1, FrameEnds
  <2> QED
    BY <1>1, <1>2, <2>1, <2>2, <2>3
<1> QED
  BY <1>1, <1>2, <1>4, <1>5, <1>6, <1>7, GoStep DEF Waiting

\* vpop loads what vpush has stored.
LEMMA VPopCalls == CallInv /\ VPop => CallInv' /\ Keeping
<1> SUFFICES ASSUME CallInv, VPop PROVE CallInv' /\ Keeping
  OBVIOUS
<1>1. /\ stack # <<>> /\ Top.step = "vpop" /\ program' = program /\ mem' = mem /\ Go("pop")
      /\ sp' = sp + UNITS_PER_WORD * Len(Fn.vfp) /\ regs' = Loaded(Fn.vfp)
  BY DEF VPop, At
<1>2. PICK f, t : f = Fn /\ t = Top.top /\ t \in Int /\ SavedApart(f) /\ f.frame \in Nat
  BY <1>1, TopIs
<1>3. sp = VfpEnd(f, t)
  BY <1>1, <1>2, TopIs, FrameEnds
<1>4. regs' = VPopped(f, regs, mem, VfpEnd(f, t))
  BY <1>1, <1>2, <1>3 DEF Loaded, VPopped
<1>5. DOMAIN regs' = 0..47 /\ DOMAIN regs = 0..47
  BY <1>4 DEF VPopped, CallInv
<1>6. SameView(f, "vpop", "pop", t, regs, mem, regs', mem')
  <2> SUFFICES ASSUME NEW r \in CalleeSaved
               PROVE  View(f, "pop", t, regs', mem', r) = View(f, "vpop", t, regs, mem, r)
    BY DEF SameView
  <2>1. r \in DOMAIN regs
    BY <1>5 DEF CalleeSaved, LR
  <2> QED
    BY <1>1, <1>2, <1>4, <2>1, VPopView
<1>7. SameAbove(mem, mem', t)
  BY <1>1 DEF SameAbove
<1>8. AlignInv'
  BY VPopKeeps DEF CallInv
<1>9. sp' = Top.top - Offset(Fn, "pop")
  <2>0. GeneralEnd(f, t) \in Int /\ Len(f.vfp) \in Nat
    <3>1. GeneralEnd(f, t) \in Int
      BY <1>2, Ends
    <3>2. Len(f.vfp) \in Nat
      BY <1>2 DEF SavedApart
    <3> QED
      BY <3>1, <3>2
  <2>1. PICK g \in Int, v \in Nat : g = GeneralEnd(f, t) /\ v = Len(f.vfp)
    BY <2>0
  <2>2. sp = g - 4 * v /\ sp' = sp + 4 * v
    BY <1>1, <1>2, <1>3, <2>1 DEF VfpEnd, UNITS_PER_WORD
  <2>3. sp' = g
    BY <2>1, <2>2
  <2> QED
    BY <1>2, <2>1, <2>3, FrameEnds
<1> QED
  BY <1>1, <1>2, <1>5, <1>6, <1>7, <1>8, <1>9, GoStep DEF Waiting

\* pop loads what push has stored.
LEMMA PopCalls == CallInv /\ Pop => CallInv' /\ Keeping
<1> SUFFICES ASSUME CallInv, Pop PROVE CallInv' /\ Keeping
  OBVIOUS
<1>1. /\ stack # <<>> /\ Top.step = "pop" /\ program' = program /\ mem' = mem /\ Go("leave")
      /\ sp' = sp + UNITS_PER_WORD * Len(Fn.general) /\ regs' = Popped(Fn, regs, mem, sp)
  BY DEF Pop, At, Popped
<1>2. PICK f, t : f = Fn /\ t = Top.top /\ t \in Int /\ SavedApart(f) /\ f.frame \in Nat
  BY <1>1, TopIs
<1>3. sp = GeneralEnd(f, t)
  BY <1>1, <1>2, TopIs, FrameEnds
<1>4. regs' = Popped(f, regs, mem, GeneralEnd(f, t))
  BY <1>1, <1>2, <1>3
<1>5. DOMAIN regs' = 0..47 /\ DOMAIN regs = 0..47
  BY <1>4 DEF Popped, CallInv
<1>6. SameView(f, "pop", "leave", t, regs, mem, regs', mem')
  <2> SUFFICES ASSUME NEW r \in CalleeSaved
               PROVE  View(f, "leave", t, regs', mem', r) = View(f, "pop", t, regs, mem, r)
    BY DEF SameView
  <2>1. r \in DOMAIN regs
    BY <1>5 DEF CalleeSaved, LR
  <2> QED
    BY <1>1, <1>2, <1>4, <2>1, PopView
<1>7. SameAbove(mem, mem', t)
  BY <1>1 DEF SameAbove
<1>8. AlignInv'
  BY PopKeeps DEF CallInv
<1>9. sp' = Top.top - Offset(Fn, "leave")
  <2>1. PICK g \in Nat : g = Len(f.general)
    BY <1>2 DEF SavedApart
  <2>2. sp = t - 4 * g /\ sp' = sp + 4 * g
    BY <1>1, <1>2, <1>3, <2>1 DEF GeneralEnd, UNITS_PER_WORD
  <2>3. sp' = t
    BY <1>2, <2>1, <2>2
  <2> QED
    BY <1>2, <2>3, FrameEnds
<1> QED
  BY <1>1, <1>2, <1>5, <1>6, <1>7, <1>8, <1>9, GoStep DEF Waiting

-----------------------------------------------------------------------------
\* A step that moves nothing and writes only below what was saved and registers that are
\* not callee-saved or were saved.
LEMMA QuietStep ==
  ASSUME CallInv, stack # <<>>, program' = program, AlignInv', NEW a, stack' = [stack EXCEPT ![Len(stack)] = a],
         a.fn = Top.fn, a.top = Top.top, {"fn", "step", "call", "left", "top"} \subseteq DOMAIN a,
         sp' = sp, Top.step \in Settled, a.step \in Settled,
         a.step = "place" => a.call \in DOMAIN Fn.calls /\ a.left \in 0..Len(PlacedOf(Fn, a.call)),
         DOMAIN regs' = 0..47, SameAbove(mem, mem', VfpEnd(Fn, Top.top)),
         \A r \in CalleeSaved : Contains(Fn.general, r) \/ Contains(Fn.vfp, r) \/ regs'[r] = regs[r],
         Top.step \in Waiting /\ a.step \in Waiting => OwnKept(Fn, regs, mem, sp, regs', mem', sp')
  PROVE  CallInv' /\ Keeping
<1>1. PICK f, t : f = Fn /\ t = Top.top /\ t \in Int /\ SavedApart(f) /\ f.frame \in Nat
  BY TopIs
<1>2. SameView(f, Top.step, a.step, t, regs, mem, regs', mem') /\ SameAbove(mem, mem', t)
  <2>1. \A step \in Settled : step \notin Bare \cup Half
    BY DEF Settled, Bare, Half
  <2>2. Top.step \notin Bare \cup Half /\ a.step \notin Bare \cup Half
    BY <2>1
  <2> QED
    BY <1>1, <2>2, SameViewKept
<1>3. sp' = t - Offset(f, a.step)
  BY <1>1, TopIs, FrameEnds
<1>4. Frame1(program, a, sp')
  <2>1. Fn = program[a.fn] /\ a.fn \in DOMAIN program /\ a.top \in Int
    BY TopIs DEF Frame1
  <2>2. a.step # "fp"
    BY DEF Settled
  <2> QED
    BY <1>1, <1>3, <2>1, <2>2 DEF Frame1
<1> QED
  BY <1>1, <1>2, <1>4, LastStep

\* Parameters are taken from where they are and change nothing.
LEMMA TakeParameterCalls == CallInv /\ TakeParameter => CallInv' /\ Keeping
<1> SUFFICES ASSUME CallInv, TakeParameter PROVE CallInv' /\ Keeping
  OBVIOUS
<1>1. PICK value :
        /\ stack # <<>> /\ Top.step = "take" /\ program' = program /\ mem' = mem /\ sp' = sp /\ regs' = regs
        /\ stack' = [stack EXCEPT ![Len(stack)].taken = Append(@, value)]
  BY DEF TakeParameter, At
<1>2. PICK a : a = [Top EXCEPT !.taken = Append(@, value)]
  OBVIOUS
<1>3. stack' = [stack EXCEPT ![Len(stack)] = a]
  BY <1>1, <1>2, TopIs
<1>4. a.fn = Top.fn /\ a.top = Top.top /\ a.step = "take" /\ DOMAIN a = DOMAIN Top
  BY <1>1, <1>2, TopIs
<1>5. SameAbove(mem, mem', VfpEnd(Fn, Top.top))
  BY <1>1 DEF SameAbove
<1>6. AlignInv'
  BY WorkKeeps DEF CallInv
<1>7. {"fn", "step", "call", "left", "top"} \subseteq DOMAIN a
  BY <1>1, <1>4, TopIs
<1>8. DOMAIN regs' = 0..47
  BY <1>1 DEF CallInv
<1> QED
  BY <1>1, <1>3, <1>4, <1>5, <1>6, <1>7, <1>8, QuietStep DEF Waiting, Settled

\* The first half of what a body does: it writes what the function has for itself.
LEMMA WorkCalls == CallInv /\ Work => CallInv' /\ Keeping
<1> SUFFICES ASSUME CallInv, Work PROVE CallInv' /\ Keeping
  OBVIOUS
<1> DEFINE words == {sp + l[2] : l \in {o \in Fn.own : o[1] = "word"}}
           far == {i \in DOMAIN Fn.slots : Fn.slots[i] # "const" /\ ~ Reached(Fn, i)}
<1>1. /\ stack # <<>> /\ Top.step = "take" /\ program' = program /\ sp' = sp /\ Go("call")
      /\ regs' = [r \in DOMAIN regs |->
           IF r \in Fn.writes THEN Value("own", r, 0)
           ELSE IF r = SPILL_REG /\ far # {} THEN <<"address", SlotAt(Fn, Max(far)), 0, 0>>
           ELSE regs[r]]
      /\ mem' = [x \in DOMAIN mem \cup words |-> IF x \in words THEN Value("own", x, 1) ELSE mem[x]]
  BY DEF Work, At
<1>2. PICK f, t : f = Fn /\ t = Top.top /\ t \in Int /\ SavedApart(f) /\ f.frame \in Nat /\ Sound(f)
  BY <1>1, TopIs
<1>3. DOMAIN regs' = 0..47 /\ \A r \in CalleeSaved : Contains(f.general, r) \/ Contains(f.vfp, r) \/ regs'[r] = regs[r]
  <2>1. DOMAIN regs' = DOMAIN regs /\ DOMAIN regs = 0..47
    BY <1>1 DEF CallInv
  <2>2. ASSUME NEW r \in CalleeSaved, r \notin Fn.writes PROVE regs'[r] = regs[r]
    <3>1. r # SPILL_REG /\ r \in DOMAIN regs
      BY <2>1 DEF CalleeSaved, SPILL_REG, IP, LR
    <3> QED
      BY <1>1, <2>2, <3>1
  <2>3. \A r \in CalleeSaved : r \in Fn.writes => Contains(f.general, r) \/ Contains(f.vfp, r)
    BY <1>2 DEF Sound
  <2> QED
    BY <2>1, <2>2, <2>3
<1>4. PICK e \in Int, fr \in Nat : e = VfpEnd(f, t) /\ fr = f.frame /\ sp = e - fr
  <2>1. PICK e \in Int, fr \in Nat : e = VfpEnd(f, t) /\ fr = f.frame
    BY <1>2, Ends
  <2>2. sp = e - fr
    BY <1>1, <1>2, <2>1, TopIs, FrameEnds DEF Settled
  <2> QED
    BY <2>1, <2>2
<1>5. ASSUME NEW y \in Int, y >= e PROVE Load(mem', y) = Load(mem, y)
  <2>1. y \notin words
    <3> SUFFICES ASSUME NEW l \in Fn.own, l[1] = "word", y = sp + l[2] PROVE FALSE
      OBVIOUS
    <3>1. l[2] \in Nat /\ l[2] + UNITS_PER_WORD =< f.frame
      BY <1>2 DEF Sound
    <3>2. PICK b \in Nat : b = l[2] /\ b + 4 =< fr
      BY <1>4, <3>1 DEF UNITS_PER_WORD
    <3> QED
      BY <1>4, <1>5, <3>2
  <2>2. (y \in DOMAIN mem' <=> y \in DOMAIN mem) /\ (y \in DOMAIN mem => mem'[y] = mem[y])
    BY <1>1, <2>1
  <2> QED
    BY <2>2 DEF Load
<1>6. SameAbove(mem, mem', VfpEnd(Fn, Top.top))
  BY <1>2, <1>4, <1>5 DEF SameAbove
<1>7. PICK a : a = [Top EXCEPT !.step = "call"]
  OBVIOUS
<1>8. stack' = [stack EXCEPT ![Len(stack)] = a]
  BY <1>1, <1>7, TopIs DEF Go
<1>9. a.fn = Top.fn /\ a.top = Top.top /\ a.step = "call" /\ DOMAIN a = DOMAIN Top
  BY <1>1, <1>7, TopIs
<1>10. AlignInv'
  BY WorkKeeps DEF CallInv
<1>11. {"fn", "step", "call", "left", "top"} \subseteq DOMAIN a
  BY <1>1, <1>9, TopIs
<1> HIDE DEF words, far
<1> QED
  BY <1>1, <1>2, <1>3, <1>6, <1>8, <1>9, <1>10, <1>11, QuietStep DEF Waiting, Settled

\* A call that is not made changes nothing.
LEMMA SkipCallCalls == CallInv /\ SkipCall => CallInv' /\ Keeping
<1> SUFFICES ASSUME CallInv, SkipCall PROVE CallInv' /\ Keeping
  OBVIOUS
<1>1. /\ stack # <<>> /\ Top.step = "call" /\ program' = program /\ mem' = mem /\ sp' = sp /\ regs' = regs
      /\ stack' = [stack EXCEPT ![Len(stack)].call = @ + 1]
  BY DEF SkipCall, At
<1>2. PICK a : a = [Top EXCEPT !.call = @ + 1]
  OBVIOUS
<1>3. stack' = [stack EXCEPT ![Len(stack)] = a]
  BY <1>1, <1>2, TopIs
<1>4. a.fn = Top.fn /\ a.top = Top.top /\ a.step = "call" /\ DOMAIN a = DOMAIN Top
  BY <1>1, <1>2, TopIs
<1>5. SameAbove(mem, mem', VfpEnd(Fn, Top.top)) /\ OwnKept(Fn, regs, mem, sp, regs', mem', sp')
  BY <1>1 DEF SameAbove, OwnKept
<1>6. AlignInv'
  BY WorkKeeps DEF CallInv
<1>7. {"fn", "step", "call", "left", "top"} \subseteq DOMAIN a
  BY <1>1, <1>4, TopIs
<1>8. DOMAIN regs' = 0..47
  BY <1>1 DEF CallInv
<1> QED
  BY <1>1, <1>3, <1>4, <1>5, <1>6, <1>7, <1>8, QuietStep DEF Waiting, Settled

\* A result that has been taken changes nothing.
LEMMA TakeResultCalls == CallInv /\ TakeResult => CallInv' /\ Keeping
<1> SUFFICES ASSUME CallInv, TakeResult PROVE CallInv' /\ Keeping
  OBVIOUS
<1>1. /\ stack # <<>> /\ Top.step = "result" /\ program' = program /\ mem' = mem /\ sp' = sp /\ regs' = regs
      /\ stack' = [stack EXCEPT ![Len(stack)].step = "call", ![Len(stack)].call = @ + 1,
                                ![Len(stack)].due = NoValue]
  BY DEF TakeResult, At
<1>2. PICK a : a = [Top EXCEPT !.step = "call", !.call = @ + 1, !.due = NoValue]
  OBVIOUS
<1>3. stack' = [stack EXCEPT ![Len(stack)] = a]
  BY <1>1, <1>2, TopIs
<1>4. a.fn = Top.fn /\ a.top = Top.top /\ a.step = "call" /\ DOMAIN a = DOMAIN Top
  BY <1>1, <1>2, TopIs
<1>5. SameAbove(mem, mem', VfpEnd(Fn, Top.top)) /\ OwnKept(Fn, regs, mem, sp, regs', mem', sp')
  BY <1>1 DEF SameAbove, OwnKept
<1>6. AlignInv'
  BY ReturnKeeps DEF CallInv
<1>7. {"fn", "step", "call", "left", "top"} \subseteq DOMAIN a
  BY <1>1, <1>4, TopIs
<1>8. DOMAIN regs' = 0..47
  BY <1>1 DEF CallInv
<1> QED
  BY <1>1, <1>3, <1>4, <1>5, <1>6, <1>7, <1>8, QuietStep DEF Waiting, Settled

\* Parameters are integers or floats.
LEMMA Numbers ==
  ASSUME NEW k, k \in Seq(Kind)
  PROVE  /\ Number(k, "int") \in Nat /\ Number(k, "float") \in Nat
         /\ Number(k, "int") + Number(k, "float") = Len(k)
<1> DEFINE I == {n \in DOMAIN k : k[n] = "int"}
           F == {n \in DOMAIN k : k[n] = "float"}
<1>1. DOMAIN k = 1..Len(k) /\ Len(k) \in Nat /\ \A n \in 1..Len(k) : k[n] = "int" \/ k[n] = "float"
  BY DEF Kind
<1>2. IsFiniteSet(1..Len(k)) /\ Cardinality(1..Len(k)) = Len(k)
  BY <1>1, FS_Interval
<1>3. I \subseteq 1..Len(k) /\ F \subseteq 1..Len(k) /\ I \cap F = {} /\ I \cup F = 1..Len(k)
  BY <1>1
<1> HIDE DEF I, F
<1>4. IsFiniteSet(I) /\ IsFiniteSet(F)
  BY <1>2, <1>3, FS_Subset
<1>5. Cardinality(I) \in Nat /\ Cardinality(F) \in Nat
  BY <1>4, FS_CardinalityType
<1>6. Cardinality(I \cup F) = Cardinality(I) + Cardinality(F) - Cardinality(I \cap F)
  BY <1>4, FS_Union
<1>7. Cardinality(I \cap F) = 0
  BY <1>3, FS_EmptySet
<1>8. Cardinality(I) + Cardinality(F) = Len(k)
  <2>1. PICK a \in Nat, b \in Nat : a = Cardinality(I) /\ b = Cardinality(F)
    BY <1>5
  <2>2. Cardinality(I \cup F) = a + b - 0
    BY <1>6, <1>7, <2>1
  <2>3. Cardinality(I \cup F) = a + b
    BY <2>1, <2>2
  <2> QED
    BY <1>2, <1>3, <2>1, <2>3
<1> QED
  BY <1>5, <1>8 DEF Number, I, F

\* What a call places: its parameters, or one that is not its own.
LEMMA PlacedKinds ==
  ASSUME NEW f, NEW call, Sound(f), call \in DOMAIN f.calls
  PROVE  /\ f.calls[call].args \in Seq(Kind)
         /\ PlacedOf(f, call) = f.calls[call].args \/ \E k : PlacedOf(f, call) = <<k>>
         /\ Len(PlacedOf(f, call)) \in Nat
<1>1. f.calls[call] \in SourceCall
  BY DEF Sound
<1>2. f.calls[call].args \in Seq(Kind)
  BY <1>1 DEF SourceCall
<1>3. PlacedOf(f, call) = f.calls[call].args \/ \E k : PlacedOf(f, call) = <<k>>
  BY DEF PlacedOf
<1>4. ASSUME NEW k, PlacedOf(f, call) = <<k>> PROVE Len(PlacedOf(f, call)) \in Nat
  BY <1>4
<1>5. Len(f.calls[call].args) \in Nat
  BY <1>2
<1> QED
  BY <1>2, <1>3, <1>4, <1>5

\* Where a parameter is placed: in a register no function has to keep, or within the
\* words set aside for the parameters of the call.
LEMMA PlacedWhere ==
  ASSUME NEW f, NEW call, NEW n, Sound(f), call \in DOMAIN f.calls, n \in 1..Len(PlacedOf(f, call)),
         NEW k, k = PlacedOf(f, call), NEW icnt, icnt = Before(k, n, "int"), NEW fcnt, fcnt = Before(k, n, "float")
  PROVE  /\ InRegister(k[n], icnt, fcnt) => Register(k[n], icnt, fcnt) \in CallerSave
         /\ ~ InRegister(k[n], icnt, fcnt) =>
              /\ OnStack(icnt, fcnt) \in Nat /\ OnStack(icnt, fcnt) % UNITS_PER_WORD = 0
              /\ OnStack(icnt, fcnt) + UNITS_PER_WORD =< ArgSize(Len(f.calls[call].args))
<1>1. CASE k = f.calls[call].args
  <2>1. k \in Seq(Kind) /\ n \in 1..Len(k)
    BY <1>1, PlacedKinds
  <2>2. k[n] \in {"int", "float"}
    BY <2>1 DEF Kind
  <2>3. SubSeq(k, 1, n - 1) \in Seq(Kind) /\ Len(SubSeq(k, 1, n - 1)) = n - 1
    BY <2>1
  <2>4. icnt \in Nat /\ fcnt \in Nat /\ icnt + fcnt = n - 1
    BY <2>3, Numbers DEF Before
  <2>5. PICK len \in Nat : len = Len(k) /\ icnt + fcnt < len
    BY <2>1, <2>4
  <2>6. InRegister(k[n], icnt, fcnt) => Register(k[n], icnt, fcnt) \in CallerSave
    BY <2>2, <2>4, RegistersApart
  <2>7. ASSUME ~ InRegister(k[n], icnt, fcnt)
        PROVE  0 =< OnStack(icnt, fcnt) /\ OnStack(icnt, fcnt) + UNITS_PER_WORD =< ArgSize(len)
    BY <2>2, <2>4, <2>5, <2>7, OutgoingFits
  <2>8. OnStack(icnt, fcnt) \in Int /\ OnStack(icnt, fcnt) % UNITS_PER_WORD = 0
    BY <2>4 DEF OnStack, Larger, UNITS_PER_WORD, NUM_ARG_REGS, NUM_VFP_ARG_REGS
  <2> QED
    BY <1>1, <2>5, <2>6, <2>7, <2>8
<1>2. CASE \E x : k = <<x>>
  <2>1. PICK x : k = <<x>>
    BY <1>2
  <2>2. n = 1
    BY <2>1
  <2>3. SubSeq(k, 1, n - 1) = <<>> /\ <<>> \in Seq(Kind) /\ Len(<<>>) = 0
    BY <2>1, <2>2
  <2>4. icnt \in Nat /\ fcnt \in Nat /\ icnt + fcnt = 0
    BY <2>3, Numbers DEF Before
  <2>5. icnt = 0 /\ fcnt = 0
    BY <2>4
  <2>6. InRegister(k[n], icnt, fcnt)
    BY <2>5 DEF InRegister, NUM_ARG_REGS, NUM_VFP_ARG_REGS
  <2>7. Register(k[n], icnt, fcnt) = 0 \/ Register(k[n], icnt, fcnt) = VREG(0)
    BY <2>5 DEF Register
  <2> QED
    BY <2>6, <2>7 DEF CallerSave
<1> QED
  BY <1>1, <1>2, PlacedKinds

\* What the caller does not count on it does not have to save.
LEMMA FilesApart ==
  /\ \A r \in CallerSave : r \notin CalleeSaved
  /\ IP \notin CalleeSaved /\ LR \in CalleeSaved
  /\ R0 \in CallerSave /\ VREG(R0) \in CallerSave /\ CalleeSaved \subseteq 0..47
<1>1. \A r \in CallerSave : r \in 16..31 \/ r \in 0..3
  BY DEF CallerSave, VREG
<1>2. \A r \in CalleeSaved : r \in 4..11 \/ r = 14 \/ r \in 32..47
  BY DEF CalleeSaved, LR
<1>3. R0 \in CallerSave /\ VREG(R0) \in CallerSave
  BY DEF CallerSave, R0
<1> QED
  BY <1>1, <1>2, <1>3 DEF CalleeSaved, LR, IP

\* Where the frame of a function that is being set up or runs ends.
LEMMA SettledEnd ==
  ASSUME CallInv, stack # <<>>, Top.step \in Settled
  PROVE  \E e \in Int, fr \in Nat : e = VfpEnd(Fn, Top.top) /\ fr = Fn.frame /\ sp = e - fr
<1>1. PICK f, t : f = Fn /\ t = Top.top /\ t \in Int /\ SavedApart(f) /\ f.frame \in Nat
  BY TopIs
<1>2. PICK e \in Int, fr \in Nat : e = VfpEnd(f, t) /\ fr = f.frame
  BY <1>1, Ends
<1>3. sp = e - fr
  BY <1>1, <1>2, TopIs, FrameEnds
<1> QED
  BY <1>1, <1>2, <1>3

\* A call begins and nothing is placed yet.
LEMMA BeginCallCalls == CallInv /\ BeginCall => CallInv' /\ Keeping
<1> SUFFICES ASSUME CallInv, BeginCall PROVE CallInv' /\ Keeping
  OBVIOUS
<1>1. /\ stack # <<>> /\ Top.step = "call" /\ program' = program /\ mem' = mem /\ sp' = sp /\ regs' = regs
      /\ stack' = [stack EXCEPT ![Len(stack)].step = "place", ![Len(stack)].left = Len(Placed)]
      /\ Top.call \in DOMAIN Fn.calls
  BY DEF BeginCall, At
<1>2. PICK a : a = [Top EXCEPT !.step = "place", !.left = Len(Placed)]
  OBVIOUS
<1>3. stack' = [stack EXCEPT ![Len(stack)] = a]
  BY <1>1, <1>2, TopIs
<1>4. a.fn = Top.fn /\ a.top = Top.top /\ a.step = "place" /\ DOMAIN a = DOMAIN Top
      /\ a.call = Top.call /\ a.left = Len(Placed)
  BY <1>1, <1>2, TopIs
<1>5. SameAbove(mem, mem', VfpEnd(Fn, Top.top)) /\ OwnKept(Fn, regs, mem, sp, regs', mem', sp')
  BY <1>1 DEF SameAbove, OwnKept
<1>6. AlignInv'
  BY WorkKeeps DEF CallInv
<1>7. {"fn", "step", "call", "left", "top"} \subseteq DOMAIN a
  BY <1>1, <1>4, TopIs
<1>8. DOMAIN regs' = 0..47
  BY <1>1 DEF CallInv
<1>9. a.call \in DOMAIN Fn.calls /\ a.left \in 0..Len(PlacedOf(Fn, a.call))
  <2>1. Placed = PlacedOf(Fn, Top.call)
    BY DEF Placed, PlacedOf, Earlier, EarlierOf, Call
  <2>2. Len(PlacedOf(Fn, Top.call)) \in Nat
    BY <1>1, TopIs, PlacedKinds
  <2> QED
    BY <1>1, <1>4, <2>1, <2>2
<1> QED
  BY <1>1, <1>3, <1>4, <1>5, <1>6, <1>7, <1>8, <1>9, QuietStep DEF Waiting, Settled

\* A word that is placed for a call is below everything the function has for itself.
LEMMA PlacedBelow ==
  ASSUME NEW f, NEW call, Sound(f), call \in DOMAIN f.calls, NEW m, NEW x \in Int, NEW d \in Nat, NEW value,
         d + UNITS_PER_WORD =< ArgSize(Len(f.calls[call].args)), NEW rs, NEW e \in Int, e = x + f.frame
  PROVE  SameAbove(m, Store(m, x + d, <<value>>), e) /\ OwnKept(f, rs, m, x, rs, Store(m, x + d, <<value>>), x)
<1>1. f.calls[call].args \in Seq(Kind)
  BY PlacedKinds
<1>2. ArgSize(Len(f.calls[call].args)) \in Int
  BY <1>1 DEF ArgSize, Larger, UNITS_PER_WORD, NUM_ARG_REGS
<1>3. PICK b \in Int : b = ArgSize(Len(f.calls[call].args)) /\ d + 4 =< b
  BY <1>2 DEF UNITS_PER_WORD
<1>9. PICK at \in Int : at = x + d
  OBVIOUS
<1>4. PICK v, m2 : v = <<value>> /\ at = x + d /\ m2 = Store(m, at, v)
  BY <1>9
<1>5. \A y \in Int : y < at \/ y >= at + 4 => Load(m2, y) = Load(m, y)
  <2>1. Len(<<value>>) = 1
    OBVIOUS
  <2>2. UNITS_PER_WORD * Len(<<value>>) = 4
    BY <2>1 DEF UNITS_PER_WORD
  <2>3. Len(v) \in Nat /\ UNITS_PER_WORD * Len(v) = 4
    BY <1>4, <2>1, <2>2
  <2>4. \A y \in Int : y < at \/ y >= at + UNITS_PER_WORD * Len(v) => Load(Store(m, at, v), y) = Load(m, y)
    BY <2>3, Stored
  <2> QED
    BY <1>4, <2>3, <2>4
<1>6. PICK fr \in Nat : fr = f.frame /\ b =< fr
  BY <1>3 DEF Sound
<1>7. SameAbove(m, m2, e)
  <2> SUFFICES ASSUME NEW y \in Int, y >= e PROVE Load(m2, y) = Load(m, y)
    BY DEF SameAbove
  <2>1. y >= at + 4
    BY <1>3, <1>4, <1>6
  <2> QED
    BY <1>5, <2>1
<1>8. OwnKept(f, rs, m, x, rs, m2, x)
  <2> SUFFICES ASSUME NEW l \in f.own, l[1] # "reg" PROVE Load(m2, x + l[2]) = Load(m, x + l[2])
    BY DEF OwnKept
  <2>1. PICK c \in Nat : c = l[2] /\ b =< c
    BY <1>3 DEF Sound
  <2>2. x + c >= at + 4 /\ x + c \in Int
    BY <1>3, <1>4, <2>1
  <2> QED
    BY <1>5, <2>1, <2>2
<1> QED
  BY <1>4, <1>7, <1>8

\* A parameter is placed in a register nobody counts on or below everything the function
\* has for itself.
LEMMA PlaceParameterCalls == CallInv /\ PlaceParameter => CallInv' /\ Keeping
<1> SUFFICES ASSUME CallInv, PlaceParameter PROVE CallInv' /\ Keeping
  OBVIOUS
<1>0. PICK n, k, icnt, fcnt, value :
        /\ n = Top.left /\ k = Placed /\ icnt = Before(k, n, "int") /\ fcnt = Before(k, n, "float")
        /\ value = Value("arg", Top.call, n)
  OBVIOUS
<1>1. /\ stack # <<>> /\ Top.step = "place" /\ program' = program /\ sp' = sp /\ n > 0
      /\ stack' = [stack EXCEPT ![Len(stack)].left = @ - 1]
      /\ \/ InRegister(k[n], icnt, fcnt) /\ regs' = [regs EXCEPT ![Register(k[n], icnt, fcnt)] = value] /\ mem' = mem
         \/ ~ InRegister(k[n], icnt, fcnt) /\ mem' = Store(mem, sp + OnStack(icnt, fcnt), <<value>>) /\ regs' = regs
  BY <1>0 DEF PlaceParameter, At
<1>2. PICK f, t : f = Fn /\ t = Top.top /\ t \in Int /\ SavedApart(f) /\ f.frame \in Nat /\ Sound(f)
  BY <1>1, TopIs
<1>3. k = PlacedOf(f, Top.call)
  BY <1>0, <1>2 DEF Placed, PlacedOf, Earlier, EarlierOf, Call
<1>4. Top.call \in DOMAIN f.calls /\ n \in 0..Len(k)
  BY <1>0, <1>1, <1>2, <1>3, TopIs DEF Frame1
<1>5. n \in 1..Len(k) /\ n - 1 \in 0..Len(k)
  BY <1>1, <1>2, <1>3, <1>4, PlacedKinds
<1>6. PICK a : a = [Top EXCEPT !.left = @ - 1]
  OBVIOUS
<1>7. stack' = [stack EXCEPT ![Len(stack)] = a]
  BY <1>1, <1>6, TopIs
<1>8. a.fn = Top.fn /\ a.top = Top.top /\ a.step = "place" /\ DOMAIN a = DOMAIN Top
      /\ a.call = Top.call /\ a.left = n - 1
  BY <1>0, <1>1, <1>6, TopIs
<1>9. {"fn", "step", "call", "left", "top"} \subseteq DOMAIN a
  BY <1>1, <1>8, TopIs
<1>10. a.call \in DOMAIN Fn.calls /\ a.left \in 0..Len(PlacedOf(Fn, a.call))
  BY <1>2, <1>3, <1>4, <1>5, <1>8
<1>11. AlignInv'
  BY WorkKeeps DEF CallInv
<1>12. PICK e \in Int, fr \in Nat : e = VfpEnd(f, t) /\ fr = f.frame /\ sp = e - fr
  BY <1>1, <1>2, SettledEnd DEF Settled
<1>13. /\ InRegister(k[n], icnt, fcnt) => Register(k[n], icnt, fcnt) \in CallerSave
       /\ ~ InRegister(k[n], icnt, fcnt) =>
            /\ OnStack(icnt, fcnt) \in Nat
            /\ OnStack(icnt, fcnt) + UNITS_PER_WORD =< ArgSize(Len(f.calls[Top.call].args))
  BY <1>0, <1>2, <1>3, <1>4, <1>5, PlacedWhere
<1>14. /\ DOMAIN regs' = 0..47 /\ \A r \in CalleeSaved : regs'[r] = regs[r]
       /\ SameAbove(mem, mem', e) /\ OwnKept(f, regs, mem, sp, regs', mem', sp')
  <2>1. CASE InRegister(k[n], icnt, fcnt)
    <3>1. PICK q \in CallerSave : regs' = [regs EXCEPT ![q] = value] /\ mem' = mem
      BY <1>1, <1>13, <2>1
    <3>2. DOMAIN regs' = 0..47 /\ \A r \in CalleeSaved : regs'[r] = regs[r]
      BY <3>1, FilesApart DEF CallInv
    <3>3. SameAbove(mem, mem', e)
      BY <3>1 DEF SameAbove
    <3>4. OwnKept(f, regs, mem, sp, regs', mem', sp')
      BY <1>1, <1>2, <3>1, <3>2 DEF OwnKept, Sound
    <3> QED
      BY <3>2, <3>3, <3>4
  <2>2. CASE ~ InRegister(k[n], icnt, fcnt)
    <3>1. PICK d \in Nat : d = OnStack(icnt, fcnt) /\ d + UNITS_PER_WORD =< ArgSize(Len(f.calls[Top.call].args))
      BY <1>13, <2>2
    <3>2. mem' = Store(mem, sp + d, <<value>>) /\ regs' = regs
      BY <1>1, <2>2, <3>1
    <3>3. sp \in Int /\ e = sp + f.frame
      BY <1>12
    <3>4. SameAbove(mem, mem', e) /\ OwnKept(f, regs, mem, sp, regs', mem', sp')
      <4>1. PICK call : call = Top.call
        OBVIOUS
      <4> QED
        BY <1>1, <1>2, <1>4, <3>1, <3>2, <3>3, <4>1, PlacedBelow
    <3> QED
      BY <3>2, <3>4 DEF CallInv
  <2> QED
    BY <2>1, <2>2
<1> QED
  BY <1>1, <1>2, <1>7, <1>8, <1>9, <1>10, <1>11, <1>12, <1>14, QuietStep DEF Waiting, Settled

\* What a function passes on the stack is in the words set aside for it.
LEMMA PassedFits ==
  ASSUME NEW k, k \in Seq(Kind), NEW d, d = OnStack(Number(k, "int"), Number(k, "float"))
  PROVE  d \in Nat /\ d =< ArgSize(Len(k))
<1>1. PICK a \in Nat, b \in Nat : a = Number(k, "int") /\ b = Number(k, "float") /\ Len(k) = a + b
  BY Numbers
<1>2. OnStack(a, b) \in Nat /\ OnStack(a, b) =< ArgSize(a + b)
  BY DEF OnStack, ArgSize, Larger, UNITS_PER_WORD, NUM_ARG_REGS, NUM_VFP_ARG_REGS
<1> QED
  BY <1>1, <1>2

\* An external function loses what the standard lets it lose: nothing the caller holds.
LEMMA CallExternalCalls == CallInv /\ CallExternal => CallInv' /\ Keeping
<1> SUFFICES ASSUME CallInv, CallExternal PROVE CallInv' /\ Keeping
  OBVIOUS
<1>0. PICK passed, value : passed = OnStack(Number(Call.args, "int"), Number(Call.args, "float"))
                           /\ value = Value("res", Top.call, 0)
  OBVIOUS
<1>1. /\ stack # <<>> /\ Top.step = "place" /\ program' = program /\ sp' = sp
      /\ stack' = [stack EXCEPT ![Len(stack)].step = "result", ![Len(stack)].due = value]
      /\ regs' = [r \in DOMAIN regs |->
           IF r = R0 THEN value
           ELSE IF r \in CallerSave \cup {IP, LR} THEN Value("lost", Top.call, r) ELSE regs[r]]
      /\ mem' = [y \in DOMAIN mem |-> IF y < sp + passed THEN Value("lost", Top.call, y) ELSE mem[y]]
  BY <1>0 DEF CallExternal, At
<1>2. PICK f, t : f = Fn /\ t = Top.top /\ t \in Int /\ SavedApart(f) /\ f.frame \in Nat /\ Sound(f)
  BY <1>1, TopIs
<1>3. Top.call \in DOMAIN f.calls
  BY <1>1, <1>2, TopIs DEF Frame1
<1>4. PICK a : a = [Top EXCEPT !.step = "result", !.due = value]
  OBVIOUS
<1>5. stack' = [stack EXCEPT ![Len(stack)] = a]
  BY <1>1, <1>4, TopIs
<1>6. a.fn = Top.fn /\ a.top = Top.top /\ a.step = "result" /\ DOMAIN a = DOMAIN Top
  BY <1>1, <1>4, TopIs
<1>7. {"fn", "step", "call", "left", "top"} \subseteq DOMAIN a
  BY <1>1, <1>6, TopIs
<1>8. AlignInv'
  BY ReturnKeeps DEF CallInv
<1>9. PICK e \in Int, fr \in Nat : e = VfpEnd(f, t) /\ fr = f.frame /\ sp = e - fr
  BY <1>1, <1>2, SettledEnd DEF Settled
<1>10. PICK b \in Int : b = ArgSize(Len(Call.args)) /\ passed \in Nat /\ passed =< b
  <2>1. Call.args \in Seq(Kind)
    BY <1>2, <1>3, PlacedKinds DEF Call
  <2>2. ArgSize(Len(Call.args)) \in Int
    BY <2>1 DEF ArgSize, Larger, UNITS_PER_WORD, NUM_ARG_REGS
  <2>3. PICK k : k = Call.args
    OBVIOUS
  <2>4. passed \in Nat /\ passed =< ArgSize(Len(k))
    BY <1>0, <2>1, <2>3, PassedFits
  <2> QED
    BY <2>2, <2>3, <2>4
<1>11. b =< fr /\ \A l \in f.own : (l[1] = "reg" /\ l[2] \in CalleeSaved \ {LR}) \/ (l[1] = "word" /\ l[2] \in Nat /\ b =< l[2])
  <2>1. b = ArgSize(Len(f.calls[Top.call].args))
    BY <1>2, <1>10 DEF Call
  <2>2. PICK k \in DOMAIN f.calls : k = Top.call /\ b = ArgSize(Len(f.calls[k].args))
    BY <1>3, <2>1, <1>2
  <2>3. b =< fr
    BY <1>2, <1>9, <2>2 DEF Sound
  <2>4. ASSUME NEW l \in f.own PROVE (l[1] = "reg" /\ l[2] \in CalleeSaved \ {LR}) \/ (l[1] = "word" /\ l[2] \in Nat /\ b =< l[2])
    BY <1>2, <2>2 DEF Sound
  <2> QED
    BY <2>3, <2>4
<1>12. \A r \in CalleeSaved : r # LR => regs'[r] = regs[r]
  <2> SUFFICES ASSUME NEW r \in CalleeSaved, r # LR PROVE regs'[r] = regs[r]
    OBVIOUS
  <2>1. r \notin CallerSave /\ r # IP /\ r # R0 /\ r \in DOMAIN regs
    BY FilesApart DEF CallInv
  <2> QED
    BY <1>1, <2>1
<1>13. DOMAIN regs' = 0..47
  BY <1>1 DEF CallInv
<1>14. \A r \in CalleeSaved : Contains(f.general, r) \/ Contains(f.vfp, r) \/ regs'[r] = regs[r]
  <2>1. Contains(f.general, LR)
    <3>1. f.calls # <<>>
      BY <1>3
    <3> QED
      BY <1>2, <3>1 DEF Sound
  <2> QED
    BY <1>12, <2>1
<1>15. ASSUME NEW y \in Int, y >= sp + passed PROVE Load(mem', y) = Load(mem, y)
  <2>1. ~ (y < sp + passed)
    BY <1>9, <1>10, <1>15
  <2>2. (y \in DOMAIN mem' <=> y \in DOMAIN mem) /\ (y \in DOMAIN mem => mem'[y] = mem[y])
    BY <1>1, <2>1
  <2> QED
    BY <2>2 DEF Load
<1>16. SameAbove(mem, mem', e)
  <2> SUFFICES ASSUME NEW y \in Int, y >= e PROVE Load(mem', y) = Load(mem, y)
    BY DEF SameAbove
  <2>1. y >= sp + passed
    BY <1>9, <1>10, <1>11
  <2> QED
    BY <1>15, <2>1
<1>17. OwnKept(f, regs, mem, sp, regs', mem', sp')
  <2> SUFFICES ASSUME NEW l \in f.own
               PROVE  IF l[1] = "reg" THEN regs'[l[2]] = regs[l[2]] ELSE Load(mem', sp' + l[2]) = Load(mem, sp + l[2])
    BY DEF OwnKept
  <2>1. CASE l[1] = "reg" /\ l[2] \in CalleeSaved \ {LR}
    BY <1>12, <2>1
  <2>2. CASE l[1] = "word" /\ l[2] \in Nat /\ b =< l[2]
    <3>1. PICK y \in Int : y = sp + l[2] /\ y >= sp + passed
      <4>1. PICK x \in Int, c \in Nat, d \in Nat : x = sp /\ c = l[2] /\ d = passed /\ d =< c
        BY <1>9, <1>10, <2>2
      <4>2. x + c \in Int /\ x + c >= x + d
        BY <4>1
      <4> QED
        BY <4>1, <4>2
    <3>2. Load(mem', y) = Load(mem, y)
      BY <1>15, <3>1
    <3> QED
      BY <1>1, <2>2, <3>1, <3>2
  <2> QED
    BY <1>11, <2>1, <2>2
<1> QED
  BY <1>1, <1>2, <1>5, <1>6, <1>7, <1>8, <1>9, <1>13, <1>14, <1>16, <1>17, QuietStep DEF Waiting, Settled

\* The result is in a register no function saves; what the function had is given up.
LEMMA SetResultCalls == CallInv /\ SetResult => CallInv' /\ Keeping
<1> SUFFICES ASSUME CallInv, SetResult PROVE CallInv' /\ Keeping
  OBVIOUS
<1>1. PICK value :
        /\ stack # <<>> /\ Top.step = "call" /\ program' = program /\ mem' = mem /\ sp' = sp
        /\ stack' = [stack EXCEPT ![Len(stack)].step = "recover", ![Len(stack)].due = value]
        /\ regs' = regs \/ regs' = [regs EXCEPT ![ResultReg(Fn)] = value]
  BY DEF SetResult, At
<1>2. PICK f, t : f = Fn /\ t = Top.top /\ t \in Int /\ SavedApart(f) /\ f.frame \in Nat /\ Sound(f)
  BY <1>1, TopIs
<1>4. PICK a : a = [Top EXCEPT !.step = "recover", !.due = value]
  OBVIOUS
<1>5. stack' = [stack EXCEPT ![Len(stack)] = a]
  BY <1>1, <1>4, TopIs
<1>6. a.fn = Top.fn /\ a.top = Top.top /\ a.step = "recover" /\ DOMAIN a = DOMAIN Top
  BY <1>1, <1>4, TopIs
<1>7. {"fn", "step", "call", "left", "top"} \subseteq DOMAIN a
  BY <1>1, <1>6, TopIs
<1>8. AlignInv'
  BY ReturnKeeps DEF CallInv
<1>9. SameAbove(mem, mem', VfpEnd(Fn, Top.top))
  BY <1>1 DEF SameAbove
<1>10. DOMAIN regs' = 0..47 /\ \A r \in CalleeSaved : regs'[r] = regs[r]
  <2>1. ResultReg(Fn) \in CallerSave
    BY FilesApart DEF ResultReg
  <2>2. PICK q \in CallerSave : regs' = regs \/ regs' = [regs EXCEPT ![q] = value]
    BY <1>1, <2>1
  <2> QED
    BY <2>2, FilesApart DEF CallInv
<1> QED
  BY <1>1, <1>2, <1>5, <1>6, <1>7, <1>8, <1>9, <1>10, QuietStep DEF Waiting, Settled

-----------------------------------------------------------------------------
\* A call: the function that runs waits for a result, and another begins at x.
Enters(p, s, rs, x, s2, rs2) ==
  LET n == Len(s)
      b == s2[n + 1]
      a == s2[n] IN
  /\ AllSound(p) /\ Framed(p, s, x) /\ n # 0 /\ x \in Int
  /\ s[n].step = "place" /\ Contains(p[s[n].fn].general, LR)
  /\ Len(s2) = n + 1 /\ DOMAIN s2 = 1..(n + 1) /\ \A i \in 1..n : i < n => s2[i] = s[i]
  /\ a.fn = s[n].fn /\ a.top = s[n].top /\ a.step = "result" /\ DOMAIN a = DOMAIN s[n]
  /\ b.step = "push" /\ b.top = x /\ b.fn \in DOMAIN p /\ {"fn", "step", "call", "left", "top"} \subseteq DOMAIN b
  /\ \A r \in CalleeSaved : r # LR => rs2[r] = rs[r]
  /\ rs2[LR][1] = "ra" /\ rs2[LR][2] = n

Entered(p, s, x, s2, n) ==
  /\ n \in Nat \ {0} /\ Len(s2) = n + 1
  /\ \A k \in 1..n : SavesIn(p, s2, k) = SavesIn(p, s, k) /\ s2[k].fn = s[k].fn /\ s2[k].top = s[k].top
  /\ \A k \in 1..n : k < n => s2[k].step = "result"
  /\ SavesIn(p, s2, n + 1) = {}
  /\ s2[n + 1].top = x /\ s2[n].step = "result" /\ s[n].step = "place"

\* Where registers are saved is the same after the call, and the new function has saved none.
LEMMA EntersSaves ==
  ASSUME NEW p, NEW s, NEW rs, NEW x, NEW s2, NEW rs2, NEW n, n = Len(s), Enters(p, s, rs, x, s2, rs2)
  PROVE  Entered(p, s, x, s2, n)
<1>1. n \in Nat \ {0} /\ Len(s2) = n + 1
  BY DEF Enters, Framed
<1>2. ASSUME NEW k \in 1..n PROVE SavesIn(p, s2, k) = SavesIn(p, s, k) /\ s2[k].fn = s[k].fn /\ s2[k].top = s[k].top
  <2>1. CASE k < n
    BY <2>1 DEF Enters, SavesIn
  <2>2. CASE k = n
    BY <2>2 DEF Enters, SavesIn, Saves
  <2> QED
    BY <1>1, <2>1, <2>2
<1>3. SavesIn(p, s2, n + 1) = {}
  BY DEF Enters, SavesIn, Saves
<1>4. ASSUME NEW k \in 1..n, k < n PROVE s2[k].step = "result"
  BY <1>4 DEF Enters, Framed
<1>5. s2[n + 1].top = x /\ s2[n].step = "result" /\ s[n].step = "place"
  BY DEF Enters
<1> QED
  BY <1>1, <1>2, <1>3, <1>4, <1>5 DEF Entered

\* Registers are found as they were; the link register where the caller has saved it.
LEMMA EntersFound ==
  ASSUME NEW p, NEW s, NEW rs, NEW m, NEW x, NEW s2, NEW rs2, NEW n, NEW i, NEW r,
         n = Len(s), Enters(p, s, rs, x, s2, rs2), r \in CalleeSaved, i \in 0..n, r = LR => i < n
  PROVE  Lookup(p, s2, rs2, m, i, r) = Lookup(p, s, rs, m, i, r)
<1>1. /\ n \in Nat \ {0} /\ Len(s2) = n + 1 /\ Len(s) = n
      /\ \A k \in 1..n : SavesIn(p, s2, k) = SavesIn(p, s, k)
      /\ SavesIn(p, s2, n + 1) = {}
  <2>1. Entered(p, s, x, s2, n)
    BY EntersSaves
  <2> QED
    BY <2>1 DEF Entered
<1>2. CASE r # LR
  <2>1. Lookup(p, s, rs, m, n, r) = rs[r]
    <3>1. \A k \in (n + 1)..Len(s) : ~ Names(SavesIn(p, s, k), r)
      BY <1>1
    <3> QED
      BY <3>1, NoSaver
  <2>2. Lookup(p, s2, rs2, m, n, r) = rs2[r]
    <3>1. \A k \in (n + 1)..Len(s2) : k = n + 1
      BY <1>1
    <3>2. \A k \in (n + 1)..Len(s2) : ~ Names(SavesIn(p, s2, k), r)
      BY <1>1, <3>1 DEF Names
    <3> QED
      BY <3>2, NoSaver
  <2>3. Lookup(p, s2, rs2, m, n, r) = Lookup(p, s, rs, m, n, r)
    BY <1>2, <2>1, <2>2 DEF Enters
  <2>4. i \in Nat /\ n \in Nat /\ i =< n /\ n =< Len(s) /\ n =< Len(s2) /\ Len(s) \in Nat /\ Len(s2) \in Nat
        /\ \A k \in (i + 1)..n : SavesIn(p, s2, k) = SavesIn(p, s, k)
    BY <1>1
  <2> QED
    BY <2>3, <2>4, SameFound
<1>3. CASE r = LR
  <2>1. PICK h \in Nat : h = n - 1
    BY <1>1
  <2>2. i \in Nat /\ i =< h /\ h =< Len(s) /\ h =< Len(s2) /\ Len(s) \in Nat /\ Len(s2) \in Nat
        /\ n \in (h + 1)..Len(s) /\ n \in (h + 1)..Len(s2) /\ n \in 1..n
    BY <1>1, <1>3, <2>1
  <2>3. \A k \in (h + 1)..Len(s) : ~ (k < n)
    BY <1>1, <2>1
  <2>4. \A k \in (h + 1)..Len(s2) : ~ (k < n)
    BY <1>1, <2>1
  <2>5. Names(SavesIn(p, s, n), r) /\ Names(SavesIn(p, s2, n), r)
    <3>1. PICK f, t, step : f = p[s[n].fn] /\ t = s[n].top /\ step = s[n].step
      OBVIOUS
    <3>2. SavedApart(f)
      BY <1>1, <3>1 DEF Enters, Framed, Frame1, AllSound, Sound
    <3>3. PICK j : j \in 1..Len(f.general) /\ f.general[j] = r
      BY <1>3, <3>1 DEF Enters, Contains
    <3>4. step \notin Bare
      BY <3>1 DEF Enters, Bare
    <3>5. Names(Saves(f, step, t), r)
      BY <3>2, <3>3, <3>4, GeneralSaved
    <3> QED
      BY <1>1, <2>2, <3>1, <3>5 DEF SavesIn
  <2>6. Lookup(p, s, rs, m, h, r) = Load(m, AddressOf(SavesIn(p, s, n), r))
    BY <2>2, <2>3, <2>5, FirstSaver
  <2>7. Lookup(p, s2, rs2, m, h, r) = Load(m, AddressOf(SavesIn(p, s2, n), r))
    BY <2>2, <2>4, <2>5, FirstSaver
  <2>8. Lookup(p, s2, rs2, m, h, r) = Lookup(p, s, rs, m, h, r)
    BY <1>1, <2>2, <2>6, <2>7
  <2>9. \A k \in (i + 1)..h : SavesIn(p, s2, k) = SavesIn(p, s, k)
    BY <1>1, <2>1, <2>2
  <2> QED
    BY <2>2, <2>8, <2>9, SameFound
<1> QED
  BY <1>2, <1>3

\* What the activations hold is the same after the call, the new one holds nothing yet.
LEMMA EntersHeld ==
  ASSUME NEW p, NEW s, NEW rs, NEW m, NEW x, NEW s2, NEW rs2, NEW n, NEW i,
         n = Len(s), Enters(p, s, rs, x, s2, rs2), i \in 1..n
  PROVE  HoldsIn(p, s2, rs2, m, x, i) = HoldsIn(p, s, rs, m, x, i)
<1>1. /\ n \in Nat \ {0} /\ Len(s2) = n + 1 /\ Len(s) = n
      /\ \A k \in 1..n : s2[k].fn = s[k].fn /\ s2[k].top = s[k].top
      /\ \A k \in 1..n : k < n => s2[k].step = "result"
      /\ s2[n + 1].top = x /\ s2[n].step = "result" /\ s[n].step = "place"
  <2>1. Entered(p, s, x, s2, n)
    BY EntersSaves
  <2> QED
    BY <2>1 DEF Entered
<1>2. /\ i \in Nat /\ i \in 0..n /\ s2[i].fn = s[i].fn /\ s2[i].step = "result"
      /\ s[i].step \in {"result", "place"} /\ s[i].fn \in DOMAIN p
  BY <1>1 DEF Enters, Framed, Frame1
<1>3. SpIn(s2, x, i) = SpIn(s, x, i)
  <2>1. CASE i = n
    BY <1>1, <2>1 DEF SpIn
  <2>2. CASE i # n
    <3>1. i + 1 \in 1..n /\ i # n + 1
      BY <1>1, <1>2, <2>2
    <3> QED
      BY <1>1, <2>2, <3>1 DEF SpIn
  <2> QED
    BY <2>1, <2>2
<1>4. PICK f, t : f = p[s[i].fn] /\ t = SpIn(s, x, i) /\ Sound(f)
  BY <1>2 DEF Enters, AllSound
<1>5. HoldsIn(p, s, rs, m, x, i) = [l \in f.own |-> IF l[1] = "reg" THEN Lookup(p, s, rs, m, i, l[2]) ELSE Load(m, t + l[2])]
  BY <1>2, <1>4 DEF HoldsIn
<1>6. HoldsIn(p, s2, rs2, m, x, i) = [l \in f.own |-> IF l[1] = "reg" THEN Lookup(p, s2, rs2, m, i, l[2]) ELSE Load(m, t + l[2])]
  BY <1>2, <1>3, <1>4 DEF HoldsIn
<1>7. ASSUME NEW l \in f.own, l[1] = "reg" PROVE Lookup(p, s2, rs2, m, i, l[2]) = Lookup(p, s, rs, m, i, l[2])
  <2>1. PICK r : r = l[2] /\ r \in CalleeSaved /\ r # LR
    BY <1>4, <1>7 DEF Sound
  <2>2. Lookup(p, s2, rs2, m, i, r) = Lookup(p, s, rs, m, i, r)
    BY <1>2, <2>1, EntersFound
  <2> QED
    BY <2>1, <2>2
<1> QED
  BY <1>5, <1>6, <1>7

\* After the call the frames are still one below the other.
LEMMA EntersFramed ==
  ASSUME NEW p, NEW s, NEW rs, NEW x, NEW s2, NEW rs2, Enters(p, s, rs, x, s2, rs2)
  PROVE  Framed(p, s2, x)
<1>0. PICK n : n = Len(s)
  OBVIOUS
<1>1. /\ n \in Nat \ {0} /\ Len(s2) = n + 1 /\ Len(s) = n
      /\ \A k \in 1..n : s2[k].fn = s[k].fn /\ s2[k].top = s[k].top
      /\ \A k \in 1..n : k < n => s2[k].step = "result"
      /\ s2[n + 1].top = x /\ s2[n].step = "result" /\ s[n].step = "place"
  <2>1. Entered(p, s, x, s2, n)
    BY <1>0, EntersSaves
  <2> QED
    BY <1>0, <2>1 DEF Entered
<1>2. PICK f, t : f = p[s[n].fn] /\ t = s[n].top /\ t \in Int /\ SavedApart(f) /\ f.frame \in Nat
  BY <1>0, <1>1 DEF Enters, Framed, Frame1, AllSound, Sound
<1>3. PICK e \in Int, fr \in Nat : e = VfpEnd(f, t) /\ fr = f.frame /\ e =< t
  <2>1. PICK e \in Int, g \in Int : e = VfpEnd(f, t) /\ g = GeneralEnd(f, t) /\ e =< g /\ g =< t
    BY <1>2, Ends
  <2> QED
    BY <1>2, <2>1
<1>4. x = t - Offset(f, "result") /\ x \in Int /\ x =< t
  <2>1. x = t - Offset(f, "place") /\ x \in Int
    <3>1. Frame1(p, s[n], x) /\ x \in Int
      <4>1. n \in 1..Len(s) /\ SpIn(s, x, n) = x
        BY <1>0, <1>1 DEF SpIn
      <4> QED
        BY <1>0, <1>1, <4>1 DEF Enters, Framed
    <3> QED
      BY <1>1, <1>2, <3>1 DEF Frame1
  <2>2. t - Offset(f, "result") = e - fr /\ t - Offset(f, "place") = e - fr
    BY <1>2, <1>3, FrameEnds DEF Settled
  <2>3. e - fr =< t
    BY <1>2, <1>3
  <2> QED
    BY <2>1, <2>2, <2>3
<1>5. Frame1(p, s2[n + 1], x)
  <2>1. PICK b : b = s2[n + 1]
    OBVIOUS
  <2>2. /\ b.step = "push" /\ b.top = x /\ b.fn \in DOMAIN p
        /\ {"fn", "step", "call", "left", "top"} \subseteq DOMAIN b
    BY <1>0, <2>1 DEF Enters
  <2>3. Offset(p[b.fn], "push") = 0 /\ x = x - 0
    <3>1. Offset(p[b.fn], "push") = 0
      BY DEF Offset
    <3>2. PICK z \in Int : z = x
      BY <1>4
    <3>3. z = z - 0
      OBVIOUS
    <3> QED
      BY <3>1, <3>2, <3>3
  <2>4. Frame1(p, b, x)
    BY <1>4, <2>2, <2>3 DEF Frame1
  <2> QED
    BY <2>1, <2>4
<1>6. Frame1(p, s2[n], x)
  <2>1. Frame1(p, s[n], x)
    <3>1. n \in 1..Len(s) /\ SpIn(s, x, n) = x
      BY <1>0, <1>1 DEF SpIn
    <3> QED
      BY <1>0, <1>1, <3>1 DEF Enters, Framed
  <2> QED
    BY <1>0, <1>1, <1>2, <1>4, <2>1 DEF Enters, Frame1
<1>7. ASSUME NEW i \in 1..(n + 1) PROVE Frame1(p, s2[i], SpIn(s2, x, i)) /\ (i < n + 1 => s2[i].step = "result")
  <2>1. CASE i = n + 1
    BY <1>1, <1>5, <2>1 DEF SpIn
  <2>2. CASE i = n
    BY <1>1, <1>6, <2>2 DEF SpIn
  <2>3. CASE i < n
    <3>1. i \in 1..n /\ i + 1 \in 1..n /\ i # n + 1 /\ i # n /\ s2[i] = s[i]
      BY <1>0, <1>1, <2>3 DEF Enters
    <3>2. SpIn(s2, x, i) = SpIn(s, x, i)
      BY <1>1, <3>1 DEF SpIn
    <3>3. Frame1(p, s[i], SpIn(s, x, i))
      BY <1>0, <1>1, <3>1 DEF Enters, Framed
    <3> QED
      BY <1>1, <2>3, <3>1, <3>2, <3>3
  <2> QED
    BY <1>1, <2>1, <2>2, <2>3
<1>8. ASSUME NEW j \in 1..(n + 1), NEW i \in 1..j PROVE s2[j].top =< s2[i].top
  <2>1. \A k, l \in 1..n : l =< k => s[k].top =< s[l].top /\ s[l].top \in Int /\ s[k].top \in Int
    BY <1>0, <1>1 DEF Enters, Framed, Frame1
  <2>2. CASE j # n + 1
    <3>1. i \in 1..n /\ j \in 1..n /\ i =< j
      BY <1>1, <2>2
    <3> QED
      BY <1>1, <2>1, <3>1
  <2>3. CASE j = n + 1 /\ i # n + 1
    <3>1. i \in 1..n /\ n \in 1..n /\ i =< n
      BY <1>1, <2>3
    <3>2. t =< s[i].top /\ s[i].top \in Int
      BY <1>2, <2>1, <3>1
    <3> QED
      BY <1>1, <1>2, <1>4, <2>3, <3>1, <3>2
  <2>4. CASE j = n + 1 /\ i = n + 1
    BY <1>1, <1>4, <2>4
  <2> QED
    BY <2>2, <2>3, <2>4
<1>9. Len(s2) \in Nat /\ DOMAIN s2 = 1..Len(s2) /\ Len(s2) = n + 1
  BY <1>0, <1>1 DEF Enters
<1> QED
  BY <1>7, <1>8, <1>9 DEF Framed

\* A call puts a new activation on the stack; the one below waits for its result.
LEMMA CallStack ==
  ASSUME CallInv, CallFunction, NEW n, n = Len(stack), NEW a, a = [Top EXCEPT !.step = "result"],
         NEW b, b = [fn |-> Call.fn, step |-> "push", call |-> 1, left |-> 0, args |-> Args, taken |-> <<>>,
                     top |-> sp, due |-> NoValue]
  PROVE  /\ Len(stack') = n + 1 /\ DOMAIN stack' = 1..(n + 1) /\ stack'[n + 1] = b /\ stack'[n] = a
         /\ \A i \in 1..n : i < n => stack'[i] = stack[i]
<1>1. stack # <<>> /\ stack' = Append([stack EXCEPT ![n].step = "result"], b)
  BY DEF CallFunction, At
<1>2. Top = stack[n] /\ n \in Nat \ {0} /\ \E S : stack \in Seq(S)
  BY <1>1, TopIs
<1>3. PICK S : stack \in Seq(S)
  BY <1>2
<1>4. stack' = Append([stack EXCEPT ![n] = a], b)
  BY <1>1, <1>2
<1>5. PICK u : u = [stack EXCEPT ![n] = a]
  OBVIOUS
<1>6. u \in Seq(S \cup {a, b}) /\ Len(u) = n /\ u[n] = a /\ \A i \in 1..n : i < n => u[i] = stack[i]
  BY <1>2, <1>3, <1>5
<1>7. stack' = Append(u, b) /\ b \in S \cup {a, b} /\ n \in Nat
  BY <1>2, <1>4, <1>5
<1>8. PICK V, z : z = stack' /\ u \in Seq(V) /\ b \in V
  BY <1>6, <1>7
<1>9. z = Append(u, b) /\ Len(u) = n /\ n \in Nat
  BY <1>6, <1>7, <1>8
<1>10. Len(z) = n + 1 /\ DOMAIN z = 1..(n + 1) /\ z[n + 1] = b /\ \A i \in 1..n : z[i] = u[i]
  BY <1>8, <1>9
<1>11. n \in 1..n
  BY <1>2
<1> QED
  BY <1>6, <1>8, <1>10, <1>11

\* A call writes the link register, which the caller has saved, and nothing else.
LEMMA CallFunctionCalls == CallInv /\ CallFunction => CallInv' /\ Keeping
<1> SUFFICES ASSUME CallInv, CallFunction PROVE CallInv' /\ Keeping
  OBVIOUS
<1>0. PICK n, a, b : n = Len(stack) /\ a = [Top EXCEPT !.step = "result"]
        /\ b = [fn |-> Call.fn, step |-> "push", call |-> 1, left |-> 0, args |-> Args, taken |-> <<>>,
                top |-> sp, due |-> NoValue]
  OBVIOUS
<1>1. /\ stack # <<>> /\ Top.step = "place" /\ program' = program /\ sp' = sp /\ mem' = mem
      /\ regs' = [regs EXCEPT ![LR] = <<"ra", n, made, Top.call>>] /\ Call.fn # 0
  BY <1>0 DEF CallFunction, At
<1>2. /\ Top = stack[n] /\ n \in Nat \ {0} /\ Frame1(program, Top, sp) /\ Sound(Fn) /\ sp \in Int /\ Fn = program[Top.fn]
      /\ {"fn", "step", "call", "left", "top"} \subseteq DOMAIN Top
  BY <1>0, <1>1, TopIs
<1>3. /\ Len(stack') = n + 1 /\ DOMAIN stack' = 1..(n + 1) /\ stack'[n + 1] = b /\ stack'[n] = a
      /\ \A i \in 1..n : i < n => stack'[i] = stack[i]
  BY <1>0, CallStack
<1>4. a.fn = Top.fn /\ a.top = Top.top /\ a.step = "result" /\ DOMAIN a = DOMAIN Top
  BY <1>0, <1>2
<1>5. Top.call \in DOMAIN Fn.calls /\ Contains(Fn.general, LR)
  <2>1. Top.call \in DOMAIN Fn.calls
    BY <1>1, <1>2 DEF Frame1
  <2>2. Fn.calls # <<>>
    BY <2>1
  <2> QED
    BY <1>2, <2>1, <2>2 DEF Sound
<1>6. /\ b.step = "push" /\ b.top = sp /\ b.fn \in DOMAIN program
      /\ {"fn", "step", "call", "left", "top"} \subseteq DOMAIN b
  <2>1. Call.fn \in DOMAIN program
    <3>1. Top.fn \in DOMAIN program
      BY <1>2 DEF Frame1
    <3> QED
      BY <1>1, <1>2, <1>5, <3>1 DEF CallInv, AlignInv, ProgramOK, Call
  <2> QED
    BY <1>0, <2>1
<1>7. /\ \A r \in CalleeSaved : r # LR => regs'[r] = regs[r]
      /\ regs'[LR][1] = "ra" /\ regs'[LR][2] = n /\ DOMAIN regs' = 0..47
  <2>1. LR \in DOMAIN regs /\ CalleeSaved \subseteq DOMAIN regs
    BY DEF CallInv, CalleeSaved, LR
  <2> QED
    BY <1>1, <2>1 DEF CallInv
<1>8. PICK p, s, rs, m, x : p = program /\ s = stack /\ rs = regs /\ m = mem /\ x = sp
  OBVIOUS
<1>9. PICK s2, rs2 : s2 = stack' /\ rs2 = regs'
  OBVIOUS
<1>10. Enters(p, s, rs, x, s2, rs2) /\ n = Len(s)
  <2>1. AllSound(p) /\ Framed(p, s, x) /\ n # 0 /\ x \in Int
    BY <1>2, <1>8 DEF CallInv
  <2>2. s[n].step = "place" /\ Contains(p[s[n].fn].general, LR)
    BY <1>1, <1>2, <1>5, <1>8
  <2>3. Len(s2) = n + 1 /\ DOMAIN s2 = 1..(n + 1) /\ \A i \in 1..n : i < n => s2[i] = s[i]
    BY <1>3, <1>8, <1>9
  <2>4. s2[n].fn = s[n].fn /\ s2[n].top = s[n].top /\ s2[n].step = "result" /\ DOMAIN s2[n] = DOMAIN s[n]
    BY <1>2, <1>3, <1>4, <1>8, <1>9
  <2>5. s2[n + 1].step = "push" /\ s2[n + 1].top = x /\ s2[n + 1].fn \in DOMAIN p
        /\ {"fn", "step", "call", "left", "top"} \subseteq DOMAIN s2[n + 1]
    BY <1>3, <1>6, <1>8, <1>9
  <2>6. (\A r \in CalleeSaved : r # LR => rs2[r] = rs[r]) /\ rs2[LR][1] = "ra" /\ rs2[LR][2] = n
    BY <1>7, <1>8, <1>9
  <2>7. n = Len(s)
    BY <1>0, <1>8
  <2> QED
    BY <2>1, <2>2, <2>3, <2>4, <2>5, <2>6, <2>7 DEF Enters
<1>11. Framed(p, s2, x)
  BY <1>10, EntersFramed
<1>12. Returning(p, s2, rs2, m)
  <2>1. n \in Nat \ {0} /\ Len(s2) = n + 1 /\ SavesIn(p, s2, n + 1) = {}
    <3>1. Entered(p, s, x, s2, n)
      BY <1>10, EntersSaves
    <3> QED
      BY <3>1 DEF Entered
  <2>2. ASSUME NEW i \in 0..(Len(s2) - 1), i < n
        PROVE  Lookup(p, s2, rs2, m, i, LR)[1] = "ra" /\ Lookup(p, s2, rs2, m, i, LR)[2] = i
    <3>1. i \in 0..n /\ i \in 0..(Len(s) - 1) /\ LR \in CalleeSaved
      BY <1>10, <2>1, <2>2 DEF CalleeSaved
    <3>2. PICK r : r = LR
      OBVIOUS
    <3>3. Lookup(p, s2, rs2, m, i, r) = Lookup(p, s, rs, m, i, r)
      BY <1>10, <2>2, <3>1, <3>2, EntersFound
    <3>4. Lookup(p, s, rs, m, i, LR)[1] = "ra" /\ Lookup(p, s, rs, m, i, LR)[2] = i
      BY <1>8, <3>1 DEF CallInv, Returning
    <3> QED
      BY <3>2, <3>3, <3>4
  <2>3. Lookup(p, s2, rs2, m, n, LR) = rs2[LR]
    <3>1. \A k \in (n + 1)..Len(s2) : k = n + 1
      BY <2>1
    <3>2. \A k \in (n + 1)..Len(s2) : ~ Names(SavesIn(p, s2, k), LR)
      BY <2>1, <3>1 DEF Names
    <3> QED
      BY <3>2, NoSaver
  <2>4. rs2[LR][1] = "ra" /\ rs2[LR][2] = n
    BY <1>7, <1>9
  <2>5. ASSUME NEW i \in 0..(Len(s2) - 1)
        PROVE  Lookup(p, s2, rs2, m, i, LR)[1] = "ra" /\ Lookup(p, s2, rs2, m, i, LR)[2] = i
    <3>1. i < n \/ i = n
      BY <2>1
    <3> QED
      BY <2>2, <2>3, <2>4, <3>1
  <2> QED
    BY <2>5 DEF Returning
<1>13. CallInv'
  <2>1. AlignInv'
    BY CallFunctionKeeps DEF CallInv
  <2>2. AllSound(program')
    BY <1>1 DEF CallInv
  <2>3. Framed(program', stack', sp') /\ Returning(program', stack', regs', mem')
    BY <1>1, <1>8, <1>9, <1>11, <1>12
  <2> QED
    BY <1>7, <2>1, <2>2, <2>3 DEF CallInv
<1>14. Acts = [i \in 1..n |-> HoldsIn(p, s, rs, m, x, i)]
  <2>1. DOMAIN stack = 1..n
    BY <1>0 DEF CallInv, Framed
  <2> QED
    BY <1>8, <2>1, ActsAre
<1>15. Acts' = [i \in 1..(n + 1) |-> HoldsIn(p, s2, rs2, m, x, i)]
  BY <1>1, <1>3, <1>8, <1>9, ActsNext
<1>16. PICK v, w : v = Acts /\ w = Acts'
  OBVIOUS
<1>17. \A i \in 1..n : w[i] = v[i]
  <2> SUFFICES ASSUME NEW i \in 1..n PROVE w[i] = v[i]
    OBVIOUS
  <2>1. HoldsIn(p, s2, rs2, m, x, i) = HoldsIn(p, s, rs, m, x, i)
    BY <1>10, EntersHeld
  <2>2. i \in 1..(n + 1)
    BY <1>2
  <2> QED
    BY <1>14, <1>15, <1>16, <2>1, <2>2
<1>18. w[n + 1] = NoValue
  <2>1. HoldsIn(p, s2, rs2, m, x, n + 1) = NoValue
    BY <1>3, <1>6, <1>9 DEF HoldsIn
  <2>2. n + 1 \in 1..(n + 1)
    BY <1>2
  <2> QED
    BY <1>15, <1>16, <2>1, <2>2
<1>19. Len(v) = n /\ v = [i \in 1..n |-> v[i]]
  <2>1. DOMAIN v = 1..n /\ v = [i \in 1..n |-> v[i]] /\ n \in Nat /\ n # 0
    BY <1>2, <1>14, <1>16
  <2> QED
    BY <2>1, FrontIs
<1>20. Len(w) = n + 1 /\ Last(w) = NoValue /\ Front(w) = [i \in 1..n |-> w[i]]
  <2>1. PICK k : k = n + 1
    OBVIOUS
  <2>2. DOMAIN w = 1..k /\ w = [i \in 1..k |-> w[i]] /\ k \in Nat /\ k # 0 /\ k - 1 = n
    BY <1>2, <1>15, <1>16, <2>1
  <2>3. Len(w) = k /\ Last(w) = w[k] /\ Front(w) = [i \in 1..(k - 1) |-> w[i]]
    BY <2>2, FrontIs
  <2> QED
    BY <1>18, <2>1, <2>2, <2>3
<1>21. Front(w) = v
  BY <1>17, <1>19, <1>20
<1> QED
  BY <1>13, <1>16, <1>19, <1>20, <1>21, Invokes

-----------------------------------------------------------------------------
\* A return to the activation before: what it waits for may change.
Exits(p, s, x, s2) ==
  LET n == Len(s) IN
  /\ AllSound(p) /\ Framed(p, s, x) /\ n # 0 /\ s[n].step = "leave"
  /\ Len(s2) = n - 1 /\ DOMAIN s2 = 1..(n - 1)
  /\ \A i \in 1..(n - 1) :
       /\ s2[i].fn = s[i].fn /\ s2[i].top = s[i].top /\ s2[i].step = s[i].step
       /\ s2[i].call = s[i].call /\ s2[i].left = s[i].left /\ DOMAIN s2[i] = DOMAIN s[i]
Exited(p, s, x, s2, n, h) ==
  /\ n \in Nat \ {0} /\ h \in Nat /\ h = n - 1 /\ n = h + 1 /\ Len(s) = n /\ Len(s2) = h
  /\ \A k \in 1..h : /\ SavesIn(p, s2, k) = SavesIn(p, s, k) /\ s2[k].fn = s[k].fn /\ s2[k].top = s[k].top
                     /\ s2[k].step = "result" /\ s[k].step = "result"
  /\ SavesIn(p, s, n) = {} /\ s[n].top = x

\* A return: the other activations have saved what they had, the last one nothing.
LEMMA ExitsLeaves ==
  ASSUME NEW p, NEW s, NEW x, NEW s2, NEW n, NEW h, n = Len(s), h = n - 1, Exits(p, s, x, s2)
  PROVE  Exited(p, s, x, s2, n, h)
<1>1. n \in Nat \ {0} /\ h \in Nat /\ h = n - 1 /\ n = h + 1 /\ Len(s) = n /\ Len(s2) = h
  <2>1. n \in Nat \ {0} /\ Len(s2) = n - 1
    BY DEF Exits, Framed
  <2> QED
    BY <2>1
<1>2. ASSUME NEW k \in 1..h
      PROVE  /\ SavesIn(p, s2, k) = SavesIn(p, s, k) /\ s2[k].fn = s[k].fn /\ s2[k].top = s[k].top
             /\ s2[k].step = "result" /\ s[k].step = "result"
  <2>1. k \in 1..(n - 1) /\ k \in 1..n /\ k < n
    BY <1>1
  <2>2. s2[k].fn = s[k].fn /\ s2[k].top = s[k].top /\ s2[k].step = s[k].step /\ s[k].step = "result"
    BY <1>1, <2>1 DEF Exits, Framed
  <2> QED
    BY <2>2 DEF SavesIn
<1>3. SavesIn(p, s, n) = {}
  BY DEF Exits, SavesIn, Saves
<1>4. s[n].top = x
  <2>1. Frame1(p, s[n], x)
    <3>1. n \in 1..Len(s) /\ SpIn(s, x, n) = x
      BY <1>1 DEF SpIn
    <3> QED
      BY <3>1 DEF Exits, Framed
  <2>2. Offset(p[s[n].fn], s[n].step) = 0
    BY DEF Exits, Offset
  <2>3. PICK t \in Int : t = s[n].top /\ x = t - 0
    BY <2>1, <2>2 DEF Frame1
  <2> QED
    BY <2>3
<1> QED
  BY <1>1, <1>2, <1>3, <1>4 DEF Exited

\* Registers are found as they were before the return.
LEMMA ExitsFound ==
  ASSUME NEW p, NEW s, NEW rs, NEW m, NEW x, NEW s2, NEW n, NEW h, NEW i, NEW r,
         Exited(p, s, x, s2, n, h), i \in 0..h
  PROVE  Lookup(p, s2, rs, m, i, r) = Lookup(p, s, rs, m, i, r)
<1>0. Exited(p, s, x, s2, n, h)
  OBVIOUS
<1>1. Lookup(p, s, rs, m, h, r) = rs[r]
  <2>1. \A k \in (h + 1)..Len(s) : k = n
    BY <1>0 DEF Exited
  <2>2. \A k \in (h + 1)..Len(s) : ~ Names(SavesIn(p, s, k), r)
    BY <1>0, <2>1 DEF Names, Exited
  <2> QED
    BY <2>2, NoSaver
<1>2. Lookup(p, s2, rs, m, h, r) = rs[r]
  <2>1. \A k \in (h + 1)..Len(s2) : FALSE
    BY <1>0 DEF Exited
  <2> QED
    BY <2>1, NoSaver
<1>3. i \in Nat /\ h \in Nat /\ i =< h /\ h =< Len(s) /\ h =< Len(s2) /\ Len(s) \in Nat /\ Len(s2) \in Nat
  BY <1>0 DEF Exited
<1>4. \A k \in (i + 1)..h : SavesIn(p, s2, k) = SavesIn(p, s, k)
  BY <1>0, <1>3 DEF Exited
<1> QED
  BY <1>1, <1>2, <1>3, <1>4, SameFound

\* What the other activations hold is the same after the return.
LEMMA ExitsHeld ==
  ASSUME NEW p, NEW s, NEW rs, NEW m, NEW x, NEW s2, NEW n, NEW h, NEW i,
         Exited(p, s, x, s2, n, h), i \in 1..h
  PROVE  HoldsIn(p, s2, rs, m, x, i) = HoldsIn(p, s, rs, m, x, i)
<1>0. Exited(p, s, x, s2, n, h)
  OBVIOUS
<1>1. i \in 0..h /\ s2[i].fn = s[i].fn /\ s2[i].step = s[i].step
  BY <1>0 DEF Exited
<1>2. SpIn(s2, x, i) = SpIn(s, x, i)
  <2>1. CASE i = h
    BY <1>0, <2>1 DEF SpIn, Exited
  <2>2. CASE i # h
    <3>1. i + 1 \in 1..h /\ i # n
      BY <1>0, <2>2 DEF Exited
    <3> QED
      BY <1>0, <2>2, <3>1 DEF SpIn, Exited
  <2> QED
    BY <2>1, <2>2
<1>3. \A r : Lookup(p, s2, rs, m, i, r) = Lookup(p, s, rs, m, i, r)
  <2> SUFFICES ASSUME NEW r PROVE Lookup(p, s2, rs, m, i, r) = Lookup(p, s, rs, m, i, r)
    OBVIOUS
  <2>1. PICK l : l = i
    OBVIOUS
  <2>2. l \in 0..h
    BY <1>1, <2>1
  <2>3. Lookup(p, s2, rs, m, l, r) = Lookup(p, s, rs, m, l, r)
    BY <1>0, <2>2, ExitsFound
  <2> QED
    BY <2>1, <2>3
<1> QED
  BY <1>1, <1>2, <1>3 DEF HoldsIn

\* After the return the frames are still one below the other.
LEMMA ExitsFramed ==
  ASSUME NEW p, NEW s, NEW x, NEW s2, Exits(p, s, x, s2)
  PROVE  Framed(p, s2, x)
<1>0. PICK n, h : n = Len(s) /\ h = n - 1
  OBVIOUS
<1>1. /\ n \in Nat \ {0} /\ h \in Nat /\ h = n - 1 /\ n = h + 1 /\ Len(s) = n /\ Len(s2) = h
      /\ \A k \in 1..h : s2[k].top = s[k].top /\ s2[k].step = "result" /\ s[k].step = "result"
      /\ s[n].top = x
  <2>1. Exited(p, s, x, s2, n, h)
    BY <1>0, ExitsLeaves
  <2> QED
    BY <2>1 DEF Exited
<1>2. ASSUME NEW i \in 1..h PROVE Frame1(p, s2[i], SpIn(s2, x, i)) /\ s2[i].step = "result"
  <2>1. i \in 1..(n - 1) /\ i \in 1..Len(s) /\ i # n
    BY <1>1
  <2>2. SpIn(s2, x, i) = SpIn(s, x, i)
    <3>1. CASE i = h
      BY <1>1, <3>1 DEF SpIn
    <3>2. CASE i # h
      <4>1. i + 1 \in 1..h
        BY <1>1, <3>2
      <4> QED
        BY <1>1, <2>1, <3>2, <4>1 DEF SpIn
    <3> QED
      BY <3>1, <3>2
  <2>3. Frame1(p, s[i], SpIn(s, x, i))
    BY <2>1 DEF Exits, Framed
  <2>4. /\ s2[i].fn = s[i].fn /\ s2[i].top = s[i].top /\ s2[i].step = s[i].step
        /\ s2[i].call = s[i].call /\ s2[i].left = s[i].left /\ DOMAIN s2[i] = DOMAIN s[i]
    BY <1>0, <2>1 DEF Exits
  <2> QED
    BY <1>1, <2>2, <2>3, <2>4 DEF Frame1
<1>3. ASSUME NEW j \in 1..h, NEW i \in 1..j PROVE s2[j].top =< s2[i].top
  <2>1. j \in 1..Len(s) /\ i \in 1..h
    BY <1>1
  <2>2. s[j].top =< s[i].top
    BY <2>1 DEF Exits, Framed
  <2> QED
    BY <1>1, <2>1, <2>2
<1>4. Len(s2) \in Nat /\ DOMAIN s2 = 1..Len(s2)
  BY <1>0, <1>1 DEF Exits
<1> QED
  BY <1>1, <1>2, <1>3, <1>4 DEF Framed

\* A function that leaves goes back to the activation below it, which finds its result due.
LEMMA LeaveStack ==
  ASSUME CallInv, Leave, NEW n, n = Len(stack), NEW h, RightBelow(h, n)
  PROVE  /\ Len(stack') = h /\ DOMAIN stack' = 1..h /\ \A i \in 1..h : i < h => stack'[i] = stack[i]
         /\ h # 0 => stack'[h] = [stack[h] EXCEPT !.due = Top.due]
<1>0. PICK depth : depth = regs[LR][2]
  OBVIOUS
<1>1. /\ stack # <<>> /\ Top.step = "leave"
      /\ stack' = (IF depth = 0 THEN <<>> ELSE [SubSeq(stack, 1, depth) EXCEPT ![depth].due = Top.due])
  BY <1>0 DEF Leave, At
<1>2. Top = stack[n] /\ n \in Nat \ {0} /\ \E S : stack \in Seq(S)
  BY <1>0, <1>1, TopIs
<1>3. h \in Nat /\ h = n - 1 /\ h + 1 = n
  BY <1>2 DEF RightBelow
<1>4. depth = h
  <2>1. Lookup(program, stack, regs, mem, h, LR) = regs[LR]
    <3>1. SavesIn(program, stack, n) = {}
      BY <1>1, <1>2 DEF SavesIn, Saves
    <3>2. \A k \in (h + 1)..Len(stack) : k = n
      BY <1>2, <1>3
    <3>3. \A k \in (h + 1)..Len(stack) : ~ Names(SavesIn(program, stack, k), LR)
      BY <3>1, <3>2 DEF Names
    <3> QED
      BY <3>3, NoSaver
  <2>2. h \in 0..(Len(stack) - 1)
    BY <1>2, <1>3
  <2> QED
    BY <1>0, <2>1, <2>2 DEF CallInv, Returning
<1>5. CASE h = 0
  BY <1>1, <1>4, <1>5
<1>6. CASE h # 0
  <2>1. PICK S : stack \in Seq(S)
    BY <1>2
  <2>2. PICK rest : rest = SubSeq(stack, 1, h)
    OBVIOUS
  <2>3. rest \in Seq(S) /\ Len(rest) = h /\ DOMAIN rest = 1..h /\ \A i \in 1..h : rest[i] = stack[i]
    BY <1>2, <1>3, <2>1, <2>2
  <2>4. stack' = [rest EXCEPT ![h] = [rest[h] EXCEPT !.due = Top.due]]
    BY <1>1, <1>4, <1>6, <2>2
  <2>5. PICK a : a = [stack[h] EXCEPT !.due = Top.due]
    OBVIOUS
  <2>6. rest[h] = stack[h] /\ h \in 1..h
    BY <1>3, <1>6, <2>3
  <2>7. stack' = [rest EXCEPT ![h] = a]
    BY <2>4, <2>5, <2>6
  <2>8. Len(stack') = h /\ DOMAIN stack' = 1..h /\ \A i \in 1..h : stack'[i] = IF i = h THEN a ELSE stack[i]
    BY <1>3, <1>6, <2>3, <2>7
  <2> QED
    BY <2>5, <2>6, <2>8
<1> QED
  BY <1>5, <1>6

\* A function returns to the activation that called it: the link register has been found
\* again.
LEMMA LeaveCalls == CallInv /\ Leave => CallInv' /\ Keeping
<1> SUFFICES ASSUME CallInv, Leave PROVE CallInv' /\ Keeping
  OBVIOUS
<1>0. PICK n : n = Len(stack)
  OBVIOUS
<1>1. stack # <<>> /\ Top.step = "leave" /\ program' = program /\ sp' = sp /\ mem' = mem /\ regs' = regs
  BY DEF Leave, At
<1>2. Top = stack[n] /\ n \in Nat \ {0}
  BY <1>0, <1>1, TopIs
<1>3. PICK h : h \in Nat /\ h = n - 1 /\ h + 1 = n
  <2>1. n - 1 \in Nat /\ n - 1 + 1 = n
    BY <1>2
  <2> QED
    BY <2>1
<1>4. /\ Len(stack') = h /\ DOMAIN stack' = 1..h /\ \A i \in 1..h : i < h => stack'[i] = stack[i]
      /\ h # 0 => stack'[h] = [stack[h] EXCEPT !.due = Top.due]
  <2>1. RightBelow(h, n)
    BY <1>2, <1>3 DEF RightBelow
  <2> QED
    BY <1>0, <2>1, LeaveStack
<1>5. /\ Len(stack') = h /\ DOMAIN stack' = 1..h
      /\ \A i \in 1..h :
           /\ stack'[i].fn = stack[i].fn /\ stack'[i].top = stack[i].top /\ stack'[i].step = stack[i].step
           /\ stack'[i].call = stack[i].call /\ stack'[i].left = stack[i].left /\ DOMAIN stack'[i] = DOMAIN stack[i]
  <2> SUFFICES ASSUME NEW i \in 1..h
               PROVE  /\ stack'[i].fn = stack[i].fn /\ stack'[i].top = stack[i].top /\ stack'[i].step = stack[i].step
                      /\ stack'[i].call = stack[i].call /\ stack'[i].left = stack[i].left
                      /\ DOMAIN stack'[i] = DOMAIN stack[i]
    BY <1>4
  <2>1. CASE i < h
    BY <1>4, <2>1
  <2>2. CASE i = h
    <3>1. {"fn", "step", "call", "left", "top"} \subseteq DOMAIN stack[h]
      <4>1. h \in 1..Len(stack)
        BY <1>0, <1>2, <1>3, <2>2
      <4> QED
        BY <4>1 DEF CallInv, Framed, Frame1
    <3>2. stack'[i] = [stack[h] EXCEPT !.due = Top.due]
      BY <1>3, <1>4, <2>2
    <3> QED
      BY <2>2, <3>1, <3>2
  <2> QED
    BY <1>3, <2>1, <2>2
<1>6. PICK p, s, rs, m, x : p = program /\ s = stack /\ rs = regs /\ m = mem /\ x = sp
  OBVIOUS
<1>7. PICK s2 : s2 = stack'
  OBVIOUS
<1>8. Exits(p, s, x, s2) /\ n = Len(s) /\ h = n - 1
  <2>1. AllSound(p) /\ Framed(p, s, x) /\ n # 0 /\ n = Len(s) /\ s[n].step = "leave"
    BY <1>0, <1>1, <1>2, <1>6 DEF CallInv
  <2> QED
    BY <1>3, <1>5, <1>6, <1>7, <2>1 DEF Exits
<1>19. Exited(p, s, x, s2, n, h)
  BY <1>8, ExitsLeaves
<1>9. Framed(p, s2, x)
  BY <1>8, ExitsFramed
<1>10. Returning(p, s2, rs, m)
  <2> SUFFICES ASSUME NEW i \in 0..(Len(s2) - 1)
               PROVE  Lookup(p, s2, rs, m, i, LR)[1] = "ra" /\ Lookup(p, s2, rs, m, i, LR)[2] = i
    BY DEF Returning
  <2>1. i \in 0..h /\ i \in 0..(Len(s) - 1)
    BY <1>2, <1>3, <1>5, <1>7, <1>8
  <2>2. PICK r : r = LR
    OBVIOUS
  <2>3. Lookup(p, s2, rs, m, i, r) = Lookup(p, s, rs, m, i, r)
    BY <1>19, <2>1, ExitsFound
  <2> QED
    BY <1>6, <2>1, <2>2, <2>3 DEF CallInv, Returning
<1>11. CallInv'
  <2>1. AlignInv'
    BY LeaveKeeps DEF CallInv
  <2>2. AllSound(program') /\ DOMAIN regs' = 0..47
    BY <1>1 DEF CallInv
  <2>3. Framed(program', stack', sp') /\ Returning(program', stack', regs', mem')
    BY <1>1, <1>6, <1>7, <1>9, <1>10
  <2> QED
    BY <2>1, <2>2, <2>3 DEF CallInv
<1>12. Acts = [i \in 1..n |-> HoldsIn(p, s, rs, m, x, i)]
  <2>1. DOMAIN stack = 1..n
    BY <1>0 DEF CallInv, Framed
  <2> QED
    BY <1>6, <2>1, ActsAre
<1>13. Acts' = [i \in 1..h |-> HoldsIn(p, s2, rs, m, x, i)]
  BY <1>1, <1>5, <1>6, <1>7, ActsNext
<1>14. PICK v, w : v = Acts /\ w = Acts'
  OBVIOUS
<1>15. v # <<>> /\ Last(v) = v[n] /\ Front(v) = [i \in 1..(n - 1) |-> v[i]]
  <2>1. DOMAIN v = 1..n /\ v = [i \in 1..n |-> v[i]] /\ n \in Nat /\ n # 0
    BY <1>2, <1>12, <1>14
  <2> QED
    BY <2>1, FrontIs
<1>16. v[n] = NoValue
  <2>1. HoldsIn(p, s, rs, m, x, n) = NoValue
    BY <1>1, <1>2, <1>6 DEF HoldsIn
  <2>2. n \in 1..n
    BY <1>2
  <2> QED
    BY <1>12, <1>14, <2>1, <2>2
<1>17. \A i \in 1..h : w[i] = v[i]
  <2> SUFFICES ASSUME NEW i \in 1..h PROVE w[i] = v[i]
    OBVIOUS
  <2>1. HoldsIn(p, s2, rs, m, x, i) = HoldsIn(p, s, rs, m, x, i)
    BY <1>19, ExitsHeld
  <2>2. i \in 1..n
    BY <1>2, <1>3
  <2> QED
    BY <1>12, <1>13, <1>14, <2>1, <2>2
<1>18. w = Front(v)
  BY <1>3, <1>13, <1>14, <1>15, <1>17
<1> QED
  BY <1>11, <1>14, <1>15, <1>16, <1>18, Leaves

\* The program begins with one activation, which has set nothing.
LEMMA CallInit == FrameInit => CallInv /\ Acts = <<NoValue>>
<1> SUFFICES ASSUME FrameInit PROVE CallInv /\ Acts = <<NoValue>>
  OBVIOUS
<1>1. AlignInv
  BY AlignInit
<1>2. AllSound(program)
  <2>1. PICK p \in Programs : program = [n \in DOMAIN p |-> Compiled(p[n])]
    BY DEF FrameInit
  <2> SUFFICES ASSUME NEW n \in DOMAIN p PROVE Sound(program[n])
    BY <2>1 DEF AllSound
  <2>2. Sound(Compiled(p[n]))
    BY CompiledSound
  <2> QED
    BY <2>1, <2>2
<1>3. DOMAIN regs = 0..47 /\ regs[LR] = <<"ra", 0, 0, 0>>
  BY DEF FrameInit, LR
<1>4. PICK a : a = [fn |-> 1, step |-> "push", call |-> 1, left |-> 0, args |-> <<>>, taken |-> <<>>,
                    top |-> Bottom, due |-> NoValue]
  OBVIOUS
<1>5. stack = <<a>> /\ sp = Bottom /\ Bottom \in Int
  BY <1>4, BottomAligned DEF FrameInit
<1>6. a.step = "push" /\ a.top = Bottom /\ a.fn = 1 /\ {"fn", "step", "call", "left", "top"} \subseteq DOMAIN a
  BY <1>4
<1>7. Len(stack) = 1 /\ DOMAIN stack = 1..1 /\ stack[1] = a /\ 1..1 = {1}
  BY <1>5
<1>8. Framed(program, stack, sp)
  <2>1. 1 \in DOMAIN program
    BY <1>1 DEF AlignInv, ProgramOK
  <2>2. Offset(program[1], "push") = 0 /\ sp = Bottom - 0
    BY <1>5 DEF Offset
  <2>3. Frame1(program, a, sp)
    BY <1>5, <1>6, <2>1, <2>2 DEF Frame1
  <2>4. SpIn(stack, sp, 1) = sp
    BY <1>7 DEF SpIn
  <2>5. \A i \in 1..Len(stack) : Frame1(program, stack[i], SpIn(stack, sp, i)) /\ (i < Len(stack) => stack[i].step = "result")
    BY <1>7, <2>3, <2>4
  <2>6. \A j \in 1..Len(stack) : \A i \in 1..j : stack[j].top =< stack[i].top
    BY <1>5, <1>6, <1>7
  <2> QED
    BY <1>7, <2>5, <2>6 DEF Framed
<1>9. Returning(program, stack, regs, mem)
  <2>1. SavesIn(program, stack, 1) = {}
    BY <1>6, <1>7 DEF SavesIn, Saves
  <2>2. \A k \in (0 + 1)..Len(stack) : ~ Names(SavesIn(program, stack, k), LR)
    BY <1>7, <2>1 DEF Names
  <2>3. Lookup(program, stack, regs, mem, 0, LR) = regs[LR]
    BY <2>2, NoSaver
  <2>4. \A i \in 0..(Len(stack) - 1) : i = 0
    BY <1>7
  <2> QED
    BY <1>3, <2>3, <2>4 DEF Returning
<1>10. Acts = <<NoValue>>
  <2>1. HoldsIn(program, stack, regs, mem, sp, 1) = NoValue
    BY <1>6, <1>7 DEF HoldsIn
  <2>2. Acts = [i \in {1} |-> NoValue]
    BY <1>7, <2>1, ActsAre
  <2>3. <<NoValue>> = [i \in {1} |-> NoValue]
    <3>1. DOMAIN <<NoValue>> = 1..1 /\ 1..1 = {1} /\ <<NoValue>>[1] = NoValue
      OBVIOUS
    <3>2. PICK v : v = <<NoValue>>
      OBVIOUS
    <3>3. v = [i \in DOMAIN v |-> v[i]]
      BY <3>2
    <3> QED
      BY <3>1, <3>2, <3>3
  <2> QED
    BY <2>2, <2>3
<1> QED
  BY <1>1, <1>2, <1>3, <1>8, <1>9, <1>10 DEF CallInv

\* Nothing happens.
LEMMA NothingCalls == CallInv /\ UNCHANGED frameVars => CallInv' /\ Keeping
<1> SUFFICES ASSUME CallInv, UNCHANGED frameVars PROVE CallInv' /\ Keeping
  OBVIOUS
<1>1. program' = program /\ stack' = stack /\ regs' = regs /\ mem' = mem /\ sp' = sp
  BY DEF frameVars
<1>2. AlignInv'
  <2>1. AlignInv /\ UNCHANGED frameVars => AlignInv'
    BY DEF AlignInv, ProgramOK, Balanced, Offset, StackOK, Activation, PointerOK, Top, Fn, frameVars
  <2> QED
    BY <2>1 DEF CallInv
<1>3. CallInv'
  BY <1>1, <1>2 DEF CallInv
<1>4. Acts' = Acts
  <2>1. PICK p, s, rs, m, x : p = program /\ s = stack /\ rs = regs /\ m = mem /\ x = sp
    OBVIOUS
  <2>2. Acts = [i \in DOMAIN s |-> HoldsIn(p, s, rs, m, x, i)]
    BY <2>1, ActsAre
  <2>3. Acts' = [i \in DOMAIN s |-> HoldsIn(p, s, rs, m, x, i)]
    BY <1>1, <2>1, ActsNext
  <2> QED
    BY <2>2, <2>3
<1> QED
  BY <1>3, <1>4 DEF Keeping

\* Every step keeps the invariant and is one that calls may take.
LEMMA StepsKeep == CallInv /\ [FrameNext]_frameVars => CallInv' /\ Keeping
<1> SUFFICES ASSUME CallInv, [FrameNext]_frameVars PROVE CallInv' /\ Keeping
  OBVIOUS
<1>1. CASE Push
  BY <1>1, PushCalls
<1>2. CASE VPush
  BY <1>2, VPushCalls
<1>3. CASE SetUpFp
  BY <1>3, SetUpFpCalls
<1>4. CASE DecrementSp
  BY <1>4, DecrementSpCalls
<1>5. CASE TakeParameter
  BY <1>5, TakeParameterCalls
<1>6. CASE Work
  BY <1>6, WorkCalls
<1>7. CASE BeginCall
  BY <1>7, BeginCallCalls
<1>8. CASE SkipCall
  BY <1>8, SkipCallCalls
<1>9. CASE PlaceParameter
  BY <1>9, PlaceParameterCalls
<1>10. CASE CallFunction
  BY <1>10, CallFunctionCalls
<1>11. CASE CallExternal
  BY <1>11, CallExternalCalls
<1>12. CASE TakeResult
  BY <1>12, TakeResultCalls
<1>13. CASE SetResult
  BY <1>13, SetResultCalls
<1>14. CASE RecoverSp
  BY <1>14, RecoverSpCalls
<1>15. CASE VPop
  BY <1>15, VPopCalls
<1>16. CASE Pop
  BY <1>16, PopCalls
<1>17. CASE Leave
  BY <1>17, LeaveCalls
<1>18. CASE Returned \/ UNCHANGED frameVars
  BY <1>18, NothingCalls DEF Returned
<1> QED
  BY <1>1, <1>2, <1>3, <1>4, <1>5, <1>6, <1>7, <1>8, <1>9, <1>10, <1>11, <1>12, <1>13, <1>14,
     <1>15, <1>16, <1>17, <1>18 DEF FrameNext

-----------------------------------------------------------------------------
\* Frame implements Activations, for every program.
THEOREM CallsKeep == FrameSpec => CallsKeepTheirPromise
<1>1. FrameInit => CallInv /\ Promise!Init
  BY CallInit DEF Promise!Init, Acts
<1>2. CallInv /\ [FrameNext]_frameVars => CallInv' /\ [Promise!Next]_Acts
  BY StepsKeep DEF Keeping
<1> QED
  BY <1>1, <1>2, PTL DEF FrameSpec, CallsKeepTheirPromise, Promise!Spec, Acts

-----------------------------------------------------------------------------
\* Where a call passes its n-th parameter, above y.
Where(k, n, rs, m, y) ==
  LET icnt == Before(k, n, "int")
      fcnt == Before(k, n, "float") IN
  IF InRegister(k[n], icnt, fcnt) THEN rs[Register(k[n], icnt, fcnt)] ELSE Load(m, y + OnStack(icnt, fcnt))
Given(k, args, rs, m, y) == Len(args) = Len(k) /\ \A n \in 1..Len(k) : Where(k, n, rs, m, y) = args[n]

Entering == {"push", "vpush", "fp", "move", "take"}
Leaving == {"recover", "vpop", "pop", "leave"}
ResultAt(p, c) == IF c.fn = 0 THEN R0 ELSE ResultReg(p[c.fn])

\* The last activation finds its parameters until it has taken them, what it has placed
\* for a call, and the result of a call; it leaves with its own.
TopArrives(p, a, rs, m, x, mk) ==
  LET f == p[a.fn]
      c == f.calls[a.call] IN
  /\ a.step \in Entering => Given(f.params, a.args, rs, m, a.top)
  /\ a.step \in {"move", "take"} /\ f.fp => rs[FP][2] = a.top
  /\ a.step = "place" =>
       \A n \in 1..Len(c.args) : n > a.left => Where(c.args, n, rs, m, x) = <<"arg", mk, a.call, n>>
  /\ a.step \in Leaving => a.due = NoValue \/ rs[ResultReg(f)] = a.due
  /\ a.step = "result" => a.due = NoValue \/ rs[ResultAt(p, c)] = a.due

\* What has been taken is what was passed.
Taken(a) ==
  /\ \E S : a.args \in Seq(S) /\ a.taken \in Seq(S)
  /\ Len(a.taken) =< Len(a.args) /\ \A i \in 1..Len(a.taken) : a.taken[i] = a.args[i]

\* Activations have taken what was passed, and the next one runs the function called.
Each(p, s) ==
  \A i \in 1..Len(s) :
    /\ {"args", "taken", "due"} \subseteq DOMAIN s[i] /\ Taken(s[i])
    /\ i < Len(s) => p[s[i].fn].calls[s[i].call].fn = s[i + 1].fn /\ s[i + 1].fn # 0

\* Calls pass what is taken, and the frame pointer is set up to what was the stack pointer
\* wherever there are parameters on the stack.
Linked(p) ==
  \A n \in DOMAIN p :
    /\ n # 0 /\ p[n].params \in Seq(Kind) /\ p[n].fp = NeedsFp(p[n])
    /\ p[n].saved = UNITS_PER_WORD * (Len(p[n].general) + Len(p[n].vfp))
    /\ \A k \in DOMAIN p[n].calls :
         p[n].calls[k].fn # 0 => p[n].calls[k].fn \in DOMAIN p /\ p[n].calls[k].args = p[p[n].calls[k].fn].params

ArriveInv ==
  /\ CallInv /\ Linked(program) /\ Each(program, stack)
  /\ stack # <<>> => TopArrives(program, Top, regs, mem, sp, made)

-----------------------------------------------------------------------------
Upto(k, n, kind) == {i \in 1..(n - 1) : k[i] = kind}

\* Parameters of a kind before a parameter.
LEMMA BeforeIs ==
  ASSUME NEW k, k \in Seq(Kind), NEW n, n \in 1..Len(k), NEW kind
  PROVE  /\ Before(k, n, kind) = Cardinality(Upto(k, n, kind)) /\ IsFiniteSet(Upto(k, n, kind))
         /\ Before(k, n, kind) \in Nat
<1>1. Len(k) \in Nat /\ n \in Nat /\ n - 1 \in Nat
  OBVIOUS
<1>2. PICK s : s = SubSeq(k, 1, n - 1)
  OBVIOUS
<1>3. DOMAIN s = 1..(n - 1) /\ \A i \in 1..(n - 1) : s[i] = k[i]
  BY <1>1, <1>2
<1>4. {i \in DOMAIN s : s[i] = kind} = Upto(k, n, kind)
  BY <1>3 DEF Upto
<1>5. Before(k, n, kind) = Cardinality(Upto(k, n, kind))
  BY <1>2, <1>4 DEF Before, Number
<1>6. IsFiniteSet(1..(n - 1))
  BY <1>1, FS_Interval
<1>7. IsFiniteSet(Upto(k, n, kind))
  BY <1>6, FS_Subset DEF Upto
<1> QED
  BY <1>5, <1>7, FS_CardinalityType

\* The counts of translate_call and translate_entry at a parameter.
LEMMA Counts ==
  ASSUME NEW k, k \in Seq(Kind), NEW n, n \in 1..Len(k)
  PROVE  /\ k[n] \in {"int", "float"}
         /\ Before(k, n, "int") \in Nat /\ Before(k, n, "float") \in Nat
         /\ Before(k, n, "int") =< Number(k, "int") /\ Before(k, n, "float") =< Number(k, "float")
         /\ Number(k, "int") \in Nat /\ Number(k, "float") \in Nat
<1>1. k[n] \in {"int", "float"}
  BY DEF Kind
<1>2. ASSUME NEW kind
      PROVE  Before(k, n, kind) \in Nat /\ Number(k, kind) \in Nat /\ Before(k, n, kind) =< Number(k, kind)
  <2>1. PICK all : all = {i \in DOMAIN k : k[i] = kind}
    OBVIOUS
  <2>2. DOMAIN k = 1..Len(k) /\ Len(k) \in Nat
    OBVIOUS
  <2>3. IsFiniteSet(all)
    <3>1. IsFiniteSet(1..Len(k)) /\ all \subseteq 1..Len(k)
      BY <2>1, <2>2, FS_Interval
    <3> QED
      BY <3>1, FS_Subset
  <2>4. Upto(k, n, kind) \subseteq all
    BY <2>1, <2>2 DEF Upto
  <2>5. Cardinality(Upto(k, n, kind)) =< Cardinality(all)
    BY <2>3, <2>4, FS_Subset
  <2> QED
    BY <2>1, <2>3, <2>5, BeforeIs, FS_CardinalityType DEF Number
<1> QED
  BY <1>1, <1>2

\* A later parameter has more before it.
LEMMA CountsGrow ==
  ASSUME NEW k, k \in Seq(Kind), NEW n, n \in 1..Len(k), NEW l, l \in 1..Len(k), l < n, NEW kind
  PROVE  Before(k, n, kind) >= Before(k, l, kind) + (IF k[l] = kind THEN 1 ELSE 0)
<1>1. PICK A, B : A = Upto(k, l, kind) /\ B = Upto(k, n, kind)
  OBVIOUS
<1>2. /\ IsFiniteSet(A) /\ IsFiniteSet(B)
      /\ Before(k, l, kind) = Cardinality(A) /\ Before(k, n, kind) = Cardinality(B)
  BY <1>1, BeforeIs
<1>3. A \subseteq B /\ l \notin A /\ (k[l] = kind => A \cup {l} \subseteq B)
  BY <1>1 DEF Upto
<1>4. Cardinality(A) \in Nat /\ Cardinality(B) \in Nat
  BY <1>2, FS_CardinalityType
<1>5. CASE k[l] = kind
  <2>1. Cardinality(A \cup {l}) = Cardinality(A) + 1
    BY <1>2, <1>3, FS_AddElement
  <2>2. Cardinality(A \cup {l}) =< Cardinality(B)
    BY <1>2, <1>3, <1>5, FS_Subset
  <2> QED
    BY <1>2, <1>4, <1>5, <2>1, <2>2
<1>6. CASE k[l] # kind
  <2>1. Cardinality(A) =< Cardinality(B)
    BY <1>2, <1>3, FS_Subset
  <2> QED
    BY <1>2, <1>4, <1>6, <2>1
<1> QED
  BY <1>5, <1>6

\* Where a parameter is: in a register for parameters or in a word above y.
LEMMA Places ==
  ASSUME NEW k, k \in Seq(Kind), NEW n, n \in 1..Len(k),
         NEW icnt, icnt = Before(k, n, "int"), NEW fcnt, fcnt = Before(k, n, "float")
  PROVE  /\ InRegister(k[n], icnt, fcnt) => Register(k[n], icnt, fcnt) \in CallerSave
         /\ OnStack(icnt, fcnt) \in Nat /\ OnStack(icnt, fcnt) % UNITS_PER_WORD = 0
<1>1. k[n] \in {"int", "float"} /\ icnt \in Nat /\ fcnt \in Nat
  BY Counts
<1>2. InRegister(k[n], icnt, fcnt) => Register(k[n], icnt, fcnt) \in CallerSave
  BY <1>1, RegistersApart
<1>3. OnStack(icnt, fcnt) \in Nat /\ OnStack(icnt, fcnt) % UNITS_PER_WORD = 0
  BY <1>1 DEF OnStack, Larger, UNITS_PER_WORD, NUM_ARG_REGS, NUM_VFP_ARG_REGS
<1> QED
  BY <1>2, <1>3

\* A parameter stays where it is as long as no such register is written, and nothing
\* above y.
LEMMA WhereKept ==
  ASSUME NEW k, k \in Seq(Kind), NEW n, n \in 1..Len(k), NEW rs, NEW m, NEW rs2, NEW m2, NEW y, y \in Int,
         \A r \in CallerSave : rs2[r] = rs[r], SameAbove(m, m2, y)
  PROVE  Where(k, n, rs2, m2, y) = Where(k, n, rs, m, y)
<1>1. PICK icnt, fcnt : icnt = Before(k, n, "int") /\ fcnt = Before(k, n, "float")
  OBVIOUS
<1>2. InRegister(k[n], icnt, fcnt) => Register(k[n], icnt, fcnt) \in CallerSave
  BY <1>1, Places
<1>3. PICK d \in Nat : d = OnStack(icnt, fcnt)
  BY <1>1, Places
<1>4. Load(m2, y + d) = Load(m, y + d)
  <2>1. y + d \in Int /\ y + d >= y
    BY <1>3
  <2> QED
    BY <2>1 DEF SameAbove
<1> QED
  BY <1>1, <1>2, <1>3, <1>4 DEF Where

\* So do all parameters of a call.
LEMMA GivenKept ==
  ASSUME NEW k, k \in Seq(Kind), NEW args, NEW rs, NEW m, NEW rs2, NEW m2, NEW y, y \in Int,
         \A r \in CallerSave : rs2[r] = rs[r], SameAbove(m, m2, y), Given(k, args, rs, m, y)
  PROVE  Given(k, args, rs2, m2, y)
<1>1. ASSUME NEW n \in 1..Len(k) PROVE Where(k, n, rs2, m2, y) = args[n]
  <2>1. Where(k, n, rs2, m2, y) = Where(k, n, rs, m, y)
    BY WhereKept
  <2> QED
    BY <2>1 DEF Given
<1> QED
  BY <1>1 DEF Given

\* The last activation and the function it runs.
LEMMA TopHas ==
  ASSUME ArriveInv, stack # <<>>
  PROVE  /\ {"args", "taken", "due"} \subseteq DOMAIN Top /\ Taken(Top)
         /\ TopArrives(program, Top, regs, mem, sp, made)
         /\ Top.fn \in DOMAIN program /\ Fn = program[Top.fn] /\ Fn.params \in Seq(Kind) /\ Fn.fp = NeedsFp(Fn)
         /\ Fn.saved = UNITS_PER_WORD * (Len(Fn.general) + Len(Fn.vfp))
<1>1. CallInv /\ Linked(program) /\ Each(program, stack) /\ TopArrives(program, Top, regs, mem, sp, made)
  BY DEF ArriveInv
<1>2. Top = stack[Len(stack)] /\ Len(stack) \in Nat \ {0} /\ Frame1(program, Top, sp) /\ Fn = program[Top.fn]
  BY <1>1, TopIs
<1>3. Len(stack) \in 1..Len(stack)
  BY <1>2
<1>4. {"args", "taken", "due"} \subseteq DOMAIN Top /\ Taken(Top)
  BY <1>1, <1>2, <1>3 DEF Each
<1>5. Top.fn \in DOMAIN program
  BY <1>2 DEF Frame1
<1> QED
  BY <1>1, <1>2, <1>4, <1>5 DEF Linked

\* What a step of the last activation has to establish.
LEMMA ArriveStep ==
  ASSUME ArriveInv, stack # <<>>, CallInv', program' = program,
         NEW a, stack' = [stack EXCEPT ![Len(stack)] = a], a.fn = Top.fn,
         {"args", "taken", "due"} \subseteq DOMAIN a, Taken(a), TopArrives(program, a, regs', mem', sp', made')
  PROVE  ArriveInv'
<1>1. CallInv /\ Linked(program) /\ Each(program, stack)
  BY DEF ArriveInv
<1>2. PICK n : n = Len(stack)
  OBVIOUS
<1>3. Top = stack[n] /\ n \in Nat \ {0} /\ \E S : stack \in Seq(S)
  BY <1>1, <1>2, TopIs
<1>4. PICK s2 : s2 = stack'
  OBVIOUS
<1>5. Len(s2) = n /\ s2[n] = a /\ \A i \in 1..n : i < n => s2[i] = stack[i]
  <2>1. PICK S : stack \in Seq(S)
    BY <1>3
  <2> QED
    BY <1>2, <1>3, <1>4, <2>1
<1>6. Each(program, s2)
  <2>1. ASSUME NEW i \in 1..n
        PROVE  /\ {"args", "taken", "due"} \subseteq DOMAIN s2[i] /\ Taken(s2[i])
               /\ i < n => program[s2[i].fn].calls[s2[i].call].fn = s2[i + 1].fn /\ s2[i + 1].fn # 0
    <3>1. CASE i = n
      BY <1>3, <1>5, <3>1
    <3>2. CASE i < n
      <4>1. s2[i] = stack[i] /\ i + 1 \in 1..n /\ s2[i + 1].fn = stack[i + 1].fn
        <5>1. i + 1 \in 1..n /\ (i + 1 = n \/ i + 1 < n)
          BY <1>3, <3>2
        <5> QED
          BY <1>3, <1>5, <3>2, <5>1
      <4> QED
        BY <1>1, <1>2, <3>2, <4>1 DEF Each
    <3> QED
      BY <1>3, <3>1, <3>2
  <2> QED
    BY <1>5, <2>1 DEF Each
<1>7. Top' = a
  <2>1. Top' = s2[Len(s2)]
    BY <1>4 DEF Top, Last
  <2> QED
    BY <1>5, <2>1
<1>8. (TopArrives(program, Top, regs, mem, sp, made))'
  BY <1>7
<1>9. Linked(program)' /\ Each(program, stack)'
  BY <1>1, <1>4, <1>6
<1> QED
  BY <1>8, <1>9 DEF ArriveInv

\* A step that only goes on to another one.
LEMMA GoArrives ==
  ASSUME ArriveInv, stack # <<>>, CallInv', program' = program, NEW step, Go(step),
         NEW a, a = [Top EXCEPT !.step = step],
         TopArrives(program, a, regs', mem', sp', made')
  PROVE  ArriveInv'
<1>1. stack' = [stack EXCEPT ![Len(stack)] = a]
  BY TopIs DEF Go, ArriveInv
<1>2. /\ {"args", "taken", "due"} \subseteq DOMAIN Top /\ Taken(Top)
      /\ {"fn", "step", "call", "left", "top"} \subseteq DOMAIN Top
  BY TopHas, TopIs DEF ArriveInv
<1>3. a.fn = Top.fn /\ a.args = Top.args /\ a.taken = Top.taken /\ DOMAIN a = DOMAIN Top
  BY <1>2
<1>4. Taken(a)
  BY <1>2, <1>3 DEF Taken
<1> QED
  BY <1>1, <1>2, <1>3, <1>4, ArriveStep

\* What has not been taken is found where it was.
LEMMA EnteringOn ==
  ASSUME ArriveInv, stack # <<>>, Top.step \in Entering, NEW step, step \in Entering,
         NEW a, a = [Top EXCEPT !.step = step], NEW rs, NEW m, NEW x, NEW mk,
         \A r \in CallerSave : rs[r] = regs[r], SameAbove(mem, m, Top.top),
         step \in {"move", "take"} /\ Fn.fp => rs[FP][2] = Top.top
  PROVE  TopArrives(program, a, rs, m, x, mk)
<1>1. CallInv /\ TopArrives(program, Top, regs, mem, sp, made) /\ Fn = program[Top.fn] /\ Fn.params \in Seq(Kind)
  BY TopHas DEF ArriveInv
<1>2. Top.top \in Int /\ {"fn", "step", "call", "left", "top"} \subseteq DOMAIN Top
  BY <1>1, TopIs
<1>3. a.fn = Top.fn /\ a.args = Top.args /\ a.step = step /\ a.top = Top.top
  BY <1>2
<1>4. Given(Fn.params, Top.args, regs, mem, Top.top)
  BY <1>1 DEF TopArrives
<1>5. Given(Fn.params, Top.args, rs, m, Top.top)
  <2>1. PICK k, args, y : k = Fn.params /\ args = Top.args /\ y = Top.top
    OBVIOUS
  <2>2. k \in Seq(Kind) /\ y \in Int /\ SameAbove(mem, m, y) /\ Given(k, args, regs, mem, y)
    BY <1>1, <1>2, <1>4, <2>1
  <2>3. Given(k, args, rs, m, y)
    BY <2>2, GivenKept
  <2> QED
    BY <2>1, <2>3
<1>6. step \notin Leaving /\ step # "place" /\ step # "result"
  BY DEF Entering, Leaving
<1> QED
  BY <1>1, <1>3, <1>5, <1>6 DEF TopArrives

\* push writes below the parameters and no register.
LEMMA PushArrives == ArriveInv /\ Push => ArriveInv'
<1> SUFFICES ASSUME ArriveInv, Push PROVE ArriveInv'
  OBVIOUS
<1>0. CallInv /\ CallInv'
  BY PushCalls DEF ArriveInv
<1>1. /\ stack # <<>> /\ Top.step = "push" /\ program' = program /\ regs' = regs /\ Go("vpush")
      /\ sp' = sp - UNITS_PER_WORD * Len(Fn.general) /\ mem' = Store(mem, sp', Values(Fn.general))
  BY DEF Push, At
<1>2. PICK f, t : f = Fn /\ t = Top.top /\ t \in Int /\ SavedApart(f) /\ f.frame \in Nat
  BY <1>0, <1>1, TopIs
<1>3. sp = t
  BY <1>0, <1>1, <1>2, TopIs, FrameEnds
<1>4. sp' = GeneralEnd(f, t)
  BY <1>1, <1>2, <1>3 DEF GeneralEnd
<1>5. Values(f.general) = ValuesOf(regs, f.general)
  BY DEF Values, ValuesOf
<1>6. mem' = Pushed(f, t, regs, mem)
  BY <1>1, <1>2, <1>4, <1>5 DEF Pushed
<1>7. SameAbove(mem, mem', Top.top)
  BY <1>2, <1>6, PushBelow DEF SameAbove
<1>8. PICK a : a = [Top EXCEPT !.step = "vpush"]
  OBVIOUS
<1>9. "vpush" \in Entering /\ Top.step \in Entering
  BY <1>1 DEF Entering
<1>10. TopArrives(program, a, regs', mem', sp', made')
  BY <1>1, <1>7, <1>8, <1>9, EnteringOn
<1> QED
  BY <1>0, <1>1, <1>8, <1>10, GoArrives

\* So does vpush.
LEMMA VPushArrives == ArriveInv /\ VPush => ArriveInv'
<1> SUFFICES ASSUME ArriveInv, VPush PROVE ArriveInv'
  OBVIOUS
<1>0. CallInv /\ CallInv'
  BY VPushCalls DEF ArriveInv
<1>13. PICK step : step = IF Fn.fp THEN "fp" ELSE "move"
  OBVIOUS
<1>1. /\ stack # <<>> /\ Top.step = "vpush" /\ program' = program /\ regs' = regs /\ Go(step)
      /\ sp' = sp - UNITS_PER_WORD * Len(Fn.vfp) /\ mem' = Store(mem, sp', Values(Fn.vfp))
  BY <1>13 DEF VPush, At
<1>2. PICK f, t : f = Fn /\ t = Top.top /\ t \in Int /\ SavedApart(f) /\ f.frame \in Nat
  BY <1>0, <1>1, TopIs
<1>3. sp = GeneralEnd(f, t)
  BY <1>0, <1>1, <1>2, TopIs, FrameEnds
<1>4. sp' = VfpEnd(f, t)
  BY <1>1, <1>2, <1>3 DEF VfpEnd
<1>5. Values(f.vfp) = ValuesOf(regs, f.vfp)
  BY DEF Values, ValuesOf
<1>6. mem' = VPushed(f, t, regs, mem)
  BY <1>1, <1>2, <1>4, <1>5 DEF VPushed
<1>7. SameAbove(mem, mem', Top.top)
  <2>1. GeneralEnd(f, t) \in Int /\ GeneralEnd(f, t) =< t
    BY <1>2, Ends
  <2>2. \A x \in Int : x >= GeneralEnd(f, t) => Load(mem', x) = Load(mem, x)
    BY <1>2, <1>6, PushBelow
  <2> QED
    BY <1>2, <2>1, <2>2 DEF SameAbove
<1>8. PICK a : a = [Top EXCEPT !.step = step]
  OBVIOUS
<1>9. step \in Entering /\ Top.step \in Entering /\ ~ (step \in {"move", "take"} /\ Fn.fp)
  BY <1>1, <1>13 DEF Entering
<1>10. TopArrives(program, a, regs', mem', sp', made')
  BY <1>1, <1>7, <1>8, <1>9, EnteringOn
<1> QED
  BY <1>0, <1>1, <1>8, <1>10, GoArrives

\* The frame pointer is where the function was entered, and no parameter is in it.
LEMMA SetUpFpArrives == ArriveInv /\ SetUpFp => ArriveInv'
<1> SUFFICES ASSUME ArriveInv, SetUpFp PROVE ArriveInv'
  OBVIOUS
<1>0. CallInv /\ CallInv'
  BY SetUpFpCalls DEF ArriveInv
<1>1. /\ stack # <<>> /\ Top.step = "fp" /\ program' = program /\ mem' = mem /\ sp' = sp /\ Go("move")
      /\ regs' = [regs EXCEPT ![FP] = <<"address", sp + Fn.saved, 0, 0>>]
  BY DEF SetUpFp, At
<1>2. PICK f, t : f = Fn /\ t = Top.top /\ t \in Int /\ SavedApart(f) /\ f.frame \in Nat
  BY <1>0, <1>1, TopIs
<1>3. sp + Fn.saved = t
  <2>1. sp = VfpEnd(f, t)
    BY <1>0, <1>1, <1>2, TopIs, FrameEnds
  <2>2. PICK g \in Nat, v \in Nat : g = Len(f.general) /\ v = Len(f.vfp)
    BY <1>2 DEF SavedApart
  <2>3. f.saved = 4 * (g + v)
    BY <1>1, <1>2, <2>2, TopHas DEF UNITS_PER_WORD
  <2>4. sp = t - 4 * g - 4 * v
    BY <2>1, <2>2 DEF VfpEnd, GeneralEnd, UNITS_PER_WORD
  <2>5. t - 4 * g - 4 * v + 4 * (g + v) = t
    <3>1. PICK b \in Int, c \in Int : b = 4 * g /\ c = 4 * v
      BY <2>2
    <3>2. 4 * (g + v) = b + c
      <4>1. \A x, y \in Int : 4 * (x + y) = 4 * x + 4 * y
        OBVIOUS
      <4>2. g \in Int /\ v \in Int
        BY <2>2
      <4> QED
        BY <3>1, <4>1, <4>2
    <3>3. PICK u \in Int : u = t
      BY <1>2
    <3>4. u - b - c + (b + c) = u
      BY <3>1, <3>3
    <3> QED
      BY <3>1, <3>2, <3>3, <3>4
  <2> QED
    BY <1>2, <2>3, <2>4, <2>5
<1>4. FP \in DOMAIN regs /\ FP \notin CallerSave
  BY <1>0 DEF CallInv, FP, CallerSave, VREG
<1>5. (\A r \in CallerSave : regs'[r] = regs[r]) /\ regs'[FP][2] = Top.top
  <2>1. CallerSave \subseteq DOMAIN regs
    BY <1>0 DEF CallInv, CallerSave, VREG
  <2> QED
    BY <1>1, <1>2, <1>3, <1>4, <2>1
<1>7. SameAbove(mem, mem', Top.top)
  BY <1>1 DEF SameAbove
<1>8. PICK a : a = [Top EXCEPT !.step = "move"]
  OBVIOUS
<1>9. "move" \in Entering /\ Top.step \in Entering
  BY <1>1 DEF Entering
<1>10. TopArrives(program, a, regs', mem', sp', made')
  BY <1>1, <1>5, <1>7, <1>8, <1>9, EnteringOn
<1> QED
  BY <1>0, <1>1, <1>8, <1>10, GoArrives

\* What moving the stack pointer leaves alone.
LEMMA MovedKept ==
  ASSUME CallInv, NEW n, MoveBy(n)
  PROVE  (\A r \in CallerSave : regs'[r] = regs[r]) /\ regs'[FP] = regs[FP]
<1>1. regs' = regs \/ regs' = [regs EXCEPT ![SPILL_REG] = <<"address", Fn.frame, 0, 0>>]
  BY DEF MoveBy
<1>2. SPILL_REG # FP /\ FP \in DOMAIN regs /\ SPILL_REG \notin CallerSave /\ CallerSave \subseteq DOMAIN regs
  BY DEF CallInv, FP, SPILL_REG, IP, CallerSave, VREG
<1> QED
  BY <1>1, <1>2

\* Making the frame leaves parameters and frame pointer alone.
LEMMA DecrementSpArrives == ArriveInv /\ DecrementSp => ArriveInv'
<1> SUFFICES ASSUME ArriveInv, DecrementSp PROVE ArriveInv'
  OBVIOUS
<1>0. CallInv /\ CallInv'
  BY DecrementSpCalls DEF ArriveInv
<1>1. /\ stack # <<>> /\ Top.step = "move" /\ program' = program /\ mem' = mem /\ Go("take")
      /\ MoveBy(- Fn.frame)
  BY DEF DecrementSp, At
<1>2. (\A r \in CallerSave : regs'[r] = regs[r]) /\ regs'[FP] = regs[FP]
  BY <1>0, <1>1, MovedKept
<1>3. Fn.fp => regs'[FP][2] = Top.top
  <2>1. TopArrives(program, Top, regs, mem, sp, made) /\ Fn = program[Top.fn]
    BY <1>1, TopHas
  <2> QED
    BY <1>1, <1>2, <2>1 DEF TopArrives
<1>7. SameAbove(mem, mem', Top.top)
  BY <1>1 DEF SameAbove
<1>8. PICK a : a = [Top EXCEPT !.step = "take"]
  OBVIOUS
<1>9. "take" \in Entering /\ Top.step \in Entering
  BY <1>1 DEF Entering
<1>10. TopArrives(program, a, regs', mem', sp', made')
  BY <1>1, <1>2, <1>3, <1>7, <1>8, <1>9, EnteringOn
<1> QED
  BY <1>0, <1>1, <1>8, <1>10, GoArrives

\* A function that takes a parameter from the stack has set the frame pointer up.
LEMMA OnStackNeedsFp ==
  ASSUME NEW f, f.params \in Seq(Kind), NEW n, n \in 1..Len(f.params),
         ~ InRegister(f.params[n], Before(f.params, n, "int"), Before(f.params, n, "float"))
  PROVE  NeedsFp(f)
<1>1. PICK k : k = f.params
  OBVIOUS
<1>2. k \in Seq(Kind) /\ n \in 1..Len(k) /\ ~ InRegister(k[n], Before(k, n, "int"), Before(k, n, "float"))
  BY <1>1
<1>3. PICK i \in Nat, j \in Nat, a \in Nat, b \in Nat :
        /\ i = Before(k, n, "int") /\ j = Before(k, n, "float") /\ a = Number(k, "int") /\ b = Number(k, "float")
        /\ i =< a /\ j =< b
  BY <1>2, Counts
<1>4. i >= 4 \/ j >= 16
  BY <1>2, <1>3 DEF InRegister, NUM_ARG_REGS, NUM_VFP_ARG_REGS
<1>5. a >= 4 \/ b >= 16
  BY <1>3, <1>4
<1> QED
  BY <1>1, <1>3, <1>5 DEF NeedsFp, NUM_ARG_REGS, NUM_VFP_ARG_REGS

\* A parameter that arrives extends what has been taken.
LEMMA TakenOn ==
  ASSUME NEW a, Taken(a), {"args", "taken"} \subseteq DOMAIN a, Len(a.taken) + 1 =< Len(a.args),
         NEW b, b = [a EXCEPT !.taken = Append(@, a.args[Len(a.taken) + 1])]
  PROVE  Taken(b) /\ b.args = a.args
<1>1. PICK S : a.args \in Seq(S) /\ a.taken \in Seq(S)
  BY DEF Taken
<1>2. PICK args, taken, n : args = a.args /\ taken = a.taken /\ n = Len(taken)
  OBVIOUS
<1>3. args \in Seq(S) /\ taken \in Seq(S) /\ n \in Nat /\ n + 1 \in 1..Len(args)
  BY <1>1, <1>2
<1>4. PICK v : v = args[n + 1] /\ v \in S
  BY <1>3
<1>5. PICK t2 : t2 = Append(taken, v)
  OBVIOUS
<1>6. b.args = args /\ b.taken = t2
  BY <1>2, <1>4, <1>5
<1>7. t2 \in Seq(S) /\ Len(t2) = n + 1 /\ t2[n + 1] = v /\ \A i \in 1..n : t2[i] = taken[i]
  BY <1>2, <1>3, <1>4, <1>5
<1>8. \A i \in 1..n : taken[i] = args[i]
  BY <1>2 DEF Taken
<1>9. ASSUME NEW i \in 1..(n + 1) PROVE t2[i] = args[i]
  <2>1. i \in 1..n \/ i = n + 1
    BY <1>3
  <2> QED
    BY <1>4, <1>7, <1>8, <2>1
<1>10. Taken(b)
  BY <1>3, <1>6, <1>7, <1>9 DEF Taken
<1> QED
  BY <1>2, <1>6, <1>10

\* Each parameter is taken from where it was passed.
LEMMA TakeParameterArrives == ArriveInv /\ TakeParameter => ArriveInv'
<1> SUFFICES ASSUME ArriveInv, TakeParameter PROVE ArriveInv'
  OBVIOUS
<1>0. CallInv /\ CallInv'
  BY TakeParameterCalls DEF ArriveInv
<1>2. PICK n, k, icnt, fcnt, value :
        /\ n = Len(Top.taken) + 1 /\ k = Fn.params /\ icnt = Before(k, n, "int") /\ fcnt = Before(k, n, "float")
        /\ value = IF InRegister(k[n], icnt, fcnt) THEN regs[Register(k[n], icnt, fcnt)]
                   ELSE Load(mem, regs[FP][2] + OnStack(icnt, fcnt))
  OBVIOUS
<1>1. /\ stack # <<>> /\ Top.step = "take" /\ program' = program /\ regs' = regs /\ mem' = mem /\ n \in DOMAIN k
      /\ stack' = [stack EXCEPT ![Len(stack)].taken = Append(@, value)]
  BY <1>2 DEF TakeParameter, At
<1>3. /\ {"args", "taken", "due"} \subseteq DOMAIN Top /\ Taken(Top)
      /\ TopArrives(program, Top, regs, mem, sp, made)
      /\ Fn = program[Top.fn] /\ k \in Seq(Kind) /\ Fn.fp = NeedsFp(Fn)
  BY <1>1, <1>2, TopHas
<1>4. Given(k, Top.args, regs, mem, Top.top) /\ (Fn.fp => regs[FP][2] = Top.top)
  BY <1>1, <1>2, <1>3 DEF TopArrives, Entering
<1>5. n \in 1..Len(k)
  BY <1>1, <1>3
<1>6. Where(k, n, regs, mem, Top.top) = Top.args[n] /\ Len(Top.args) = Len(k)
  BY <1>4, <1>5 DEF Given
<1>7. ~ InRegister(k[n], icnt, fcnt) => regs[FP][2] = Top.top
  BY <1>2, <1>3, <1>4, <1>5, OnStackNeedsFp
<1>8. value = Top.args[n]
  BY <1>2, <1>6, <1>7 DEF Where
<1>9. PICK a : a = [Top EXCEPT !.taken = Append(@, Top.args[Len(Top.taken) + 1])]
  OBVIOUS
<1>10. stack' = [stack EXCEPT ![Len(stack)] = a]
  BY <1>0, <1>1, <1>2, <1>8, <1>9, TopIs
<1>11. {"fn", "step", "call", "left", "top"} \subseteq DOMAIN Top
  BY <1>0, <1>1, TopIs
<1>12. a.fn = Top.fn /\ a.step = "take" /\ a.top = Top.top /\ DOMAIN a = DOMAIN Top
  BY <1>1, <1>9, <1>11
<1>13. Taken(a) /\ a.args = Top.args
  <2>1. Len(Top.taken) + 1 =< Len(Top.args)
    BY <1>2, <1>3, <1>5, <1>6
  <2> QED
    BY <1>3, <1>9, <2>1, TakenOn
<1>14. TopArrives(program, a, regs', mem', sp', made')
  BY <1>1, <1>2, <1>3, <1>4, <1>12, <1>13 DEF TopArrives, Leaving
<1> QED
  BY <1>0, <1>1, <1>3, <1>10, <1>12, <1>13, <1>14, ArriveStep

\* A function between two calls counts on no register for parameters or results.
LEMMA BetweenCalls ==
  ASSUME NEW a, a.step = "call", NEW rs, NEW m, NEW x, NEW mk
  PROVE  TopArrives(program, a, rs, m, x, mk)
BY DEF TopArrives, Entering, Leaving

\* The code of the function runs when everything has been taken.
LEMMA WorkArrives == ArriveInv /\ Work => ArriveInv'
<1> SUFFICES ASSUME ArriveInv, Work PROVE ArriveInv'
  OBVIOUS
<1>0. CallInv /\ CallInv'
  BY WorkCalls DEF ArriveInv
<1>1. stack # <<>> /\ program' = program /\ Go("call")
  BY DEF Work, At
<1>2. PICK a : a = [Top EXCEPT !.step = "call"]
  OBVIOUS
<1>3. a.step = "call"
  BY <1>0, <1>1, <1>2, TopIs
<1>4. TopArrives(program, a, regs', mem', sp', made')
  BY <1>3, BetweenCalls
<1> QED
  BY <1>0, <1>1, <1>2, <1>4, GoArrives

\* Between calls nothing is awaited.
LEMMA SkipCallArrives == ArriveInv /\ SkipCall => ArriveInv'
<1> SUFFICES ASSUME ArriveInv, SkipCall PROVE ArriveInv'
  OBVIOUS
<1>0. CallInv /\ CallInv'
  BY SkipCallCalls DEF ArriveInv
<1>1. /\ stack # <<>> /\ Top.step = "call" /\ program' = program
      /\ stack' = [stack EXCEPT ![Len(stack)].call = @ + 1]
  BY DEF SkipCall, At
<1>2. PICK a : a = [Top EXCEPT !.call = @ + 1]
  OBVIOUS
<1>3. /\ {"fn", "step", "call", "left", "top"} \subseteq DOMAIN Top
      /\ {"args", "taken", "due"} \subseteq DOMAIN Top /\ Taken(Top)
  BY <1>0, <1>1, TopIs, TopHas
<1>4. stack' = [stack EXCEPT ![Len(stack)] = a]
  BY <1>0, <1>1, <1>2, TopIs
<1>5. a.fn = Top.fn /\ a.step = "call" /\ a.args = Top.args /\ a.taken = Top.taken /\ DOMAIN a = DOMAIN Top
  BY <1>1, <1>2, <1>3
<1>6. Taken(a)
  BY <1>3, <1>5 DEF Taken
<1>7. TopArrives(program, a, regs', mem', sp', made')
  BY <1>5, BetweenCalls
<1> QED
  BY <1>0, <1>1, <1>3, <1>4, <1>5, <1>6, <1>7, ArriveStep

\* A result that has been taken is awaited no longer.
LEMMA TakeResultArrives == ArriveInv /\ TakeResult => ArriveInv'
<1> SUFFICES ASSUME ArriveInv, TakeResult PROVE ArriveInv'
  OBVIOUS
<1>0. CallInv /\ CallInv'
  BY TakeResultCalls DEF ArriveInv
<1>1. /\ stack # <<>> /\ program' = program
      /\ stack' = [stack EXCEPT ![Len(stack)].step = "call", ![Len(stack)].call = @ + 1,
                                ![Len(stack)].due = NoValue]
  BY DEF TakeResult, At
<1>2. PICK a : a = [Top EXCEPT !.step = "call", !.call = @ + 1, !.due = NoValue]
  OBVIOUS
<1>3. /\ {"fn", "step", "call", "left", "top"} \subseteq DOMAIN Top
      /\ {"args", "taken", "due"} \subseteq DOMAIN Top /\ Taken(Top)
  BY <1>0, <1>1, TopIs, TopHas
<1>4. stack' = [stack EXCEPT ![Len(stack)] = a]
  BY <1>0, <1>1, <1>2, TopIs
<1>5. a.fn = Top.fn /\ a.step = "call" /\ a.args = Top.args /\ a.taken = Top.taken /\ DOMAIN a = DOMAIN Top
  BY <1>1, <1>2, <1>3
<1>6. Taken(a)
  BY <1>3, <1>5 DEF Taken
<1>7. TopArrives(program, a, regs', mem', sp', made')
  BY <1>5, BetweenCalls
<1> QED
  BY <1>0, <1>1, <1>3, <1>4, <1>5, <1>6, <1>7, ArriveStep

-----------------------------------------------------------------------------
\* What is placed for a call with parameters are those parameters.
LEMMA PlacedOwn ==
  ASSUME CallInv, stack # <<>>, Top.call \in DOMAIN Fn.calls
  PROVE  Call.args \in Seq(Kind) /\ (Len(Call.args) # 0 => Placed = Call.args)
<1>1. Call.args \in Seq(Kind)
  BY TopIs, PlacedKinds DEF Call
<1>2. Len(Call.args) # 0 => Call.args # <<>>
  OBVIOUS
<1> QED
  BY <1>1, <1>2 DEF Placed

\* Nothing has been placed when a call begins.
LEMMA BeginCallArrives == ArriveInv /\ BeginCall => ArriveInv'
<1> SUFFICES ASSUME ArriveInv, BeginCall PROVE ArriveInv'
  OBVIOUS
<1>0. CallInv /\ CallInv'
  BY BeginCallCalls DEF ArriveInv
<1>1. /\ stack # <<>> /\ program' = program /\ Top.call \in DOMAIN Fn.calls
      /\ stack' = [stack EXCEPT ![Len(stack)].step = "place", ![Len(stack)].left = Len(Placed)]
  BY DEF BeginCall, At
<1>2. PICK a : a = [Top EXCEPT !.step = "place", !.left = Len(Placed)]
  OBVIOUS
<1>3. /\ {"fn", "step", "call", "left", "top"} \subseteq DOMAIN Top
      /\ {"args", "taken", "due"} \subseteq DOMAIN Top /\ Taken(Top) /\ Fn = program[Top.fn]
  BY <1>0, <1>1, TopIs, TopHas
<1>4. stack' = [stack EXCEPT ![Len(stack)] = a]
  BY <1>0, <1>1, <1>2, TopIs
<1>5. /\ a.fn = Top.fn /\ a.step = "place" /\ a.args = Top.args /\ a.taken = Top.taken /\ DOMAIN a = DOMAIN Top
      /\ a.call = Top.call /\ a.left = Len(Placed)
  BY <1>1, <1>2, <1>3
<1>6. Taken(a)
  BY <1>3, <1>5 DEF Taken
<1>7. TopArrives(program, a, regs', mem', sp', made')
  <2>1. \A n \in 1..Len(Call.args) : ~ (n > a.left)
    <3>1. Call.args \in Seq(Kind) /\ (Len(Call.args) # 0 => Placed = Call.args)
      BY <1>0, <1>1, PlacedOwn
    <3>2. PICK h \in Nat : h = Len(Call.args)
      BY <3>1
    <3>3. h # 0 => a.left = h
      BY <1>5, <3>1, <3>2
    <3> QED
      BY <3>2, <3>3
  <2>2. Call = program[a.fn].calls[a.call]
    BY <1>3, <1>5 DEF Call
  <2> QED
    BY <1>5, <2>1, <2>2 DEF TopArrives, Entering, Leaving
<1> QED
  BY <1>0, <1>1, <1>3, <1>4, <1>5, <1>6, <1>7, ArriveStep

-----------------------------------------------------------------------------
\* The n-th parameter is put where it is passed.
PlacesAt(k, n, rs, m, y, v, rs2, m2) ==
  LET icnt == Before(k, n, "int")
      fcnt == Before(k, n, "float") IN
  IF InRegister(k[n], icnt, fcnt) THEN rs2 = [rs EXCEPT ![Register(k[n], icnt, fcnt)] = v] /\ m2 = m
  ELSE m2 = Store(m, y + OnStack(icnt, fcnt), <<v>>) /\ rs2 = rs

\* One word that is stored.
LEMMA StoredWord ==
  ASSUME NEW m, NEW at \in Int, NEW v
  PROVE  /\ Load(Store(m, at, <<v>>), at) = v
         /\ \A x \in Int : x >= at + UNITS_PER_WORD => Load(Store(m, at, <<v>>), x) = Load(m, x)
<1>1. PICK w : w = <<v>>
  OBVIOUS
<1>2. Len(w) = 1 /\ w[1] = v /\ 1 \in 1..Len(w) /\ Len(w) \in Nat
  BY <1>1
<1>3. /\ \A i \in 1..Len(w) : Load(Store(m, at, w), at + UNITS_PER_WORD * (i - 1)) = w[i]
      /\ \A x \in Int : x < at \/ x >= at + UNITS_PER_WORD * Len(w) => Load(Store(m, at, w), x) = Load(m, x)
  BY <1>2, Stored
<1>4. at + UNITS_PER_WORD * (1 - 1) = at /\ UNITS_PER_WORD * Len(w) = UNITS_PER_WORD
  BY <1>2 DEF UNITS_PER_WORD
<1>5. Load(Store(m, at, w), at) = v
  BY <1>2, <1>3, <1>4
<1> QED
  BY <1>1, <1>3, <1>4, <1>5

\* A parameter that has been placed is where it is taken.
LEMMA PlaceSets ==
  ASSUME NEW k, k \in Seq(Kind), NEW n, n \in 1..Len(k), NEW rs, NEW m, NEW y, y \in Int, NEW v, NEW rs2, NEW m2,
         CallerSave \subseteq DOMAIN rs, PlacesAt(k, n, rs, m, y, v, rs2, m2)
  PROVE  Where(k, n, rs2, m2, y) = v
<1>1. PICK icnt, fcnt : icnt = Before(k, n, "int") /\ fcnt = Before(k, n, "float")
  OBVIOUS
<1>2. /\ InRegister(k[n], icnt, fcnt) => Register(k[n], icnt, fcnt) \in DOMAIN rs
      /\ OnStack(icnt, fcnt) \in Nat
  BY <1>1, Places
<1>3. CASE InRegister(k[n], icnt, fcnt)
  BY <1>1, <1>2, <1>3 DEF PlacesAt, Where
<1>4. CASE ~ InRegister(k[n], icnt, fcnt)
  <2>1. PICK at \in Int : at = y + OnStack(icnt, fcnt)
    BY <1>2
  <2>2. m2 = Store(m, at, <<v>>)
    BY <1>1, <1>4, <2>1 DEF PlacesAt
  <2>3. Load(m2, at) = v
    BY <2>2, StoredWord
  <2> QED
    BY <1>1, <1>4, <2>1, <2>3 DEF Where
<1> QED
  BY <1>3, <1>4

\* Parameters placed before stay where they are.
LEMMA PlaceKeeps ==
  ASSUME NEW k, k \in Seq(Kind), NEW n, n \in 1..Len(k), NEW l, l \in 1..Len(k), n < l,
         NEW rs, NEW m, NEW y, y \in Int, NEW v, NEW rs2, NEW m2, PlacesAt(k, n, rs, m, y, v, rs2, m2)
  PROVE  Where(k, l, rs2, m2, y) = Where(k, l, rs, m, y)
<1>1. PICK i1 \in Nat, f1 \in Nat : i1 = Before(k, n, "int") /\ f1 = Before(k, n, "float")
  BY Counts
<1>2. PICK i2 \in Nat, f2 \in Nat : i2 = Before(k, l, "int") /\ f2 = Before(k, l, "float")
  BY Counts
<1>3. PICK kn \in {"int", "float"}, kl \in {"int", "float"} : kn = k[n] /\ kl = k[l]
  BY Counts
<1>4. i2 >= i1 + (IF kn = "int" THEN 1 ELSE 0) /\ f2 >= f1 + (IF kn = "float" THEN 1 ELSE 0)
  <2>1. PICK kind : kind = "int"
    OBVIOUS
  <2>2. Before(k, l, kind) >= Before(k, n, kind) + (IF k[n] = kind THEN 1 ELSE 0)
    BY CountsGrow
  <2>3. PICK kind2 : kind2 = "float"
    OBVIOUS
  <2>4. Before(k, l, kind2) >= Before(k, n, kind2) + (IF k[n] = kind2 THEN 1 ELSE 0)
    BY CountsGrow
  <2> QED
    BY <1>1, <1>2, <1>3, <2>1, <2>2, <2>3, <2>4
<1>5. CASE InRegister(kn, i1, f1)
  <2>1. PICK q : q = Register(kn, i1, f1)
    OBVIOUS
  <2>2. rs2 = [rs EXCEPT ![q] = v] /\ m2 = m
    BY <1>1, <1>3, <1>5, <2>1 DEF PlacesAt
  <2>3. InRegister(kl, i2, f2) => Register(kl, i2, f2) # q
    <3> SUFFICES ASSUME InRegister(kl, i2, f2), Register(kl, i2, f2) = q PROVE FALSE
      OBVIOUS
    <3>1. kn = kl /\ IF kn = "int" THEN i1 = i2 ELSE f1 = f2
      BY <1>5, <2>1, RegistersApart
    <3> QED
      BY <1>3, <1>4, <3>1
  <2> QED
    BY <1>2, <1>3, <2>2, <2>3 DEF Where
<1>6. CASE ~ InRegister(kn, i1, f1)
  <2>1. OnStack(i1, f1) + UNITS_PER_WORD =< OnStack(i2, f2)
    BY <1>4, <1>6, ParametersApart
  <2>2. PICK d \in Nat, e \in Nat : d = OnStack(i1, f1) /\ e = OnStack(i2, f2) /\ d + 4 =< e
    <3>1. OnStack(i1, f1) \in Nat /\ OnStack(i2, f2) \in Nat
      BY DEF OnStack, Larger, UNITS_PER_WORD, NUM_ARG_REGS, NUM_VFP_ARG_REGS
    <3> QED
      BY <2>1, <3>1 DEF UNITS_PER_WORD
  <2>3. PICK at \in Int, x \in Int : at = y + d /\ x = y + e
    OBVIOUS
  <2>4. x >= at + UNITS_PER_WORD
    <3>1. \A a \in Int, b \in Nat, c \in Nat : b + 4 =< c => a + c >= (a + b) + 4
      OBVIOUS
    <3> QED
      BY <2>2, <2>3, <3>1 DEF UNITS_PER_WORD
  <2>5. m2 = Store(m, at, <<v>>) /\ rs2 = rs
    BY <1>1, <1>3, <1>6, <2>2, <2>3 DEF PlacesAt
  <2>6. Load(m2, x) = Load(m, x)
    BY <2>4, <2>5, StoredWord
  <2> QED
    BY <1>2, <1>3, <2>2, <2>3, <2>5, <2>6 DEF Where
<1> QED
  BY <1>5, <1>6

\* A parameter is placed where no parameter after it is.
LEMMA PlaceParameterArrives == ArriveInv /\ PlaceParameter => ArriveInv'
<1> SUFFICES ASSUME ArriveInv, PlaceParameter PROVE ArriveInv'
  OBVIOUS
<1>0. CallInv /\ CallInv'
  BY PlaceParameterCalls DEF ArriveInv
<1>2. PICK n, k, value : n = Top.left /\ k = Placed /\ value = <<"arg", made, Top.call, n>>
  OBVIOUS
<1>1. /\ stack # <<>> /\ Top.step = "place" /\ program' = program /\ sp' = sp /\ made' = made /\ n > 0
      /\ stack' = [stack EXCEPT ![Len(stack)].left = @ - 1]
      /\ PlacesAt(k, n, regs, mem, sp, value, regs', mem')
  BY <1>2 DEF PlaceParameter, At, PlacesAt, Value
<1>3. /\ {"fn", "step", "call", "left", "top"} \subseteq DOMAIN Top /\ sp \in Int
      /\ {"args", "taken", "due"} \subseteq DOMAIN Top /\ Taken(Top) /\ Fn = program[Top.fn]
      /\ TopArrives(program, Top, regs, mem, sp, made) /\ Frame1(program, Top, sp)
  BY <1>0, <1>1, TopIs, TopHas
<1>4. Top.call \in DOMAIN Fn.calls /\ n \in 0..Len(k)
  <2>1. k = PlacedOf(Fn, Top.call)
    BY <1>2 DEF Placed, PlacedOf, Earlier, EarlierOf, Call
  <2> QED
    BY <1>1, <1>2, <1>3, <2>1 DEF Frame1
<1>5. Call.args \in Seq(Kind) /\ (Len(Call.args) # 0 => k = Call.args)
  BY <1>0, <1>1, <1>2, <1>4, PlacedOwn
<1>6. PICK a : a = [Top EXCEPT !.left = @ - 1]
  OBVIOUS
<1>7. stack' = [stack EXCEPT ![Len(stack)] = a]
  BY <1>0, <1>1, <1>6, TopIs
<1>8. /\ a.fn = Top.fn /\ a.step = "place" /\ a.args = Top.args /\ a.taken = Top.taken /\ DOMAIN a = DOMAIN Top
      /\ a.call = Top.call /\ a.left = n - 1
  BY <1>1, <1>2, <1>3, <1>6
<1>9. Taken(a)
  BY <1>3, <1>8 DEF Taken
<1>10. Call = program[a.fn].calls[a.call] /\ Call = program[Top.fn].calls[Top.call]
  BY <1>3, <1>8 DEF Call
<1>11. ASSUME NEW l \in 1..Len(Call.args), l > a.left
       PROVE  Where(Call.args, l, regs', mem', sp) = <<"arg", made, a.call, l>>
  <2>1. k = Call.args /\ k \in Seq(Kind) /\ n \in 1..Len(k) /\ l \in 1..Len(k)
    BY <1>1, <1>4, <1>5, <1>11
  <2>2. CASE l = n
    <3>1. CallerSave \subseteq DOMAIN regs
      BY <1>0 DEF CallInv, CallerSave, VREG
    <3>2. PICK rs2, m2 : rs2 = regs' /\ m2 = mem'
      OBVIOUS
    <3>3. Where(k, n, rs2, m2, sp) = value
      BY <1>1, <1>3, <2>1, <3>1, <3>2, PlaceSets
    <3> QED
      BY <1>2, <1>8, <2>1, <2>2, <3>2, <3>3
  <2>3. CASE l # n
    <3>1. n < l /\ l > Top.left
      BY <1>2, <1>8, <1>11, <2>1, <2>3
    <3>2. PICK rs2, m2 : rs2 = regs' /\ m2 = mem'
      OBVIOUS
    <3>3. Where(k, l, rs2, m2, sp) = Where(k, l, regs, mem, sp)
      BY <1>1, <1>3, <2>1, <3>1, <3>2, PlaceKeeps
    <3>4. Where(k, l, regs, mem, sp) = <<"arg", made, Top.call, l>>
      BY <1>1, <1>3, <1>10, <2>1, <3>1 DEF TopArrives
    <3> QED
      BY <1>8, <2>1, <3>2, <3>3, <3>4
  <2> QED
    BY <2>2, <2>3
<1>12. TopArrives(program, a, regs', mem', sp', made')
  BY <1>1, <1>8, <1>10, <1>11 DEF TopArrives, Entering, Leaving
<1> QED
  BY <1>0, <1>1, <1>3, <1>7, <1>8, <1>9, <1>12, ArriveStep

\* A library function leaves its result where it is looked for.
LEMMA CallExternalArrives == ArriveInv /\ CallExternal => ArriveInv'
<1> SUFFICES ASSUME ArriveInv, CallExternal PROVE ArriveInv'
  OBVIOUS
<1>0. CallInv /\ CallInv'
  BY CallExternalCalls DEF ArriveInv
<1>2. PICK value : value = Value("res", Top.call, 0)
  OBVIOUS
<1>1. /\ stack # <<>> /\ Top.step = "place" /\ program' = program /\ Call.fn = 0
      /\ stack' = [stack EXCEPT ![Len(stack)].step = "result", ![Len(stack)].due = value]
      /\ regs' = [r \in DOMAIN regs |->
           IF r = R0 THEN value
           ELSE IF r \in CallerSave \cup {IP, LR} THEN Value("lost", Top.call, r) ELSE regs[r]]
  BY <1>2 DEF CallExternal, At
<1>3. /\ {"fn", "step", "call", "left", "top"} \subseteq DOMAIN Top
      /\ {"args", "taken", "due"} \subseteq DOMAIN Top /\ Taken(Top) /\ Fn = program[Top.fn]
  BY <1>0, <1>1, TopIs, TopHas
<1>4. PICK a : a = [Top EXCEPT !.step = "result", !.due = value]
  OBVIOUS
<1>5. stack' = [stack EXCEPT ![Len(stack)] = a]
  BY <1>0, <1>1, <1>4, TopIs
<1>6. /\ a.fn = Top.fn /\ a.step = "result" /\ a.args = Top.args /\ a.taken = Top.taken /\ DOMAIN a = DOMAIN Top
      /\ a.call = Top.call /\ a.due = value
  BY <1>1, <1>3, <1>4
<1>7. Taken(a)
  BY <1>3, <1>6 DEF Taken
<1>8. regs'[R0] = value
  <2>1. R0 \in DOMAIN regs
    BY <1>0 DEF CallInv, R0
  <2> QED
    BY <1>1, <2>1
<1>9. ResultAt(program, Call) = R0 /\ Call = program[a.fn].calls[a.call]
  BY <1>1, <1>3, <1>6 DEF ResultAt, Call
<1>10. TopArrives(program, a, regs', mem', sp', made')
  BY <1>6, <1>8, <1>9 DEF TopArrives, Entering, Leaving
<1> QED
  BY <1>0, <1>1, <1>3, <1>5, <1>6, <1>7, <1>10, ArriveStep

-----------------------------------------------------------------------------
\* The register a result is returned in is not one that is saved.
LEMMA ResultRegIs ==
  ASSUME NEW f
  PROVE  /\ ResultReg(f) \in CallerSave /\ ResultReg(f) \in 0..47
         /\ (SavedApart(f) => ~ Contains(f.general, ResultReg(f)) /\ ~ Contains(f.vfp, ResultReg(f)))
<1>1. ResultReg(f) = 0 \/ ResultReg(f) = 16
  BY DEF ResultReg, R0, VREG
<1>2. ResultReg(f) \in CallerSave
  BY FilesApart DEF ResultReg
<1>3. ASSUME SavedApart(f) PROVE ~ Contains(f.general, ResultReg(f)) /\ ~ Contains(f.vfp, ResultReg(f))
  <2>1. \A i \in 1..Len(f.general) : f.general[i] \in (4..11) \cup {LR}
    BY <1>3 DEF SavedApart
  <2>2. \A i \in 1..Len(f.vfp) : f.vfp[i] \in 32..47
    BY <1>3 DEF SavedApart
  <2>3. 0 \notin (4..11) \cup {LR} /\ 16 \notin (4..11) \cup {LR} /\ 0 \notin 32..47 /\ 16 \notin 32..47
    BY DEF LR
  <2> QED
    BY <1>1, <2>1, <2>2, <2>3 DEF Contains
<1> QED
  BY <1>1, <1>2, <1>3

\* The result is put where the caller takes it.
LEMMA SetResultArrives == ArriveInv /\ SetResult => ArriveInv'
<1> SUFFICES ASSUME ArriveInv, SetResult PROVE ArriveInv'
  OBVIOUS
<1>0. CallInv /\ CallInv'
  BY SetResultCalls DEF ArriveInv
<1>1. PICK value :
        /\ stack # <<>> /\ program' = program
        /\ stack' = [stack EXCEPT ![Len(stack)].step = "recover", ![Len(stack)].due = value]
        /\ value = NoValue \/ regs' = [regs EXCEPT ![ResultReg(Fn)] = value]
  BY DEF SetResult, At
<1>3. /\ {"fn", "step", "call", "left", "top"} \subseteq DOMAIN Top
      /\ {"args", "taken", "due"} \subseteq DOMAIN Top /\ Taken(Top) /\ Fn = program[Top.fn]
  BY <1>0, <1>1, TopIs, TopHas
<1>4. PICK a : a = [Top EXCEPT !.step = "recover", !.due = value]
  OBVIOUS
<1>5. stack' = [stack EXCEPT ![Len(stack)] = a]
  BY <1>0, <1>1, <1>4, TopIs
<1>6. /\ a.fn = Top.fn /\ a.step = "recover" /\ a.args = Top.args /\ a.taken = Top.taken /\ DOMAIN a = DOMAIN Top
      /\ a.due = value
  BY <1>1, <1>3, <1>4
<1>7. Taken(a)
  BY <1>3, <1>6 DEF Taken
<1>8. value = NoValue \/ regs'[ResultReg(Fn)] = value
  <2>1. ResultReg(Fn) \in DOMAIN regs
    BY <1>0, ResultRegIs DEF CallInv
  <2> QED
    BY <1>1, <2>1
<1>10. TopArrives(program, a, regs', mem', sp', made')
  BY <1>3, <1>6, <1>8 DEF TopArrives, Entering
<1> QED
  BY <1>0, <1>1, <1>3, <1>5, <1>6, <1>7, <1>10, ArriveStep

\* The result stays where it is while the function leaves.
LEMMA LeavingOn ==
  ASSUME ArriveInv, stack # <<>>, Top.step \in Leaving, NEW step, step \in Leaving,
         NEW a, a = [Top EXCEPT !.step = step], NEW rs, NEW m, NEW x, NEW mk, rs[ResultReg(Fn)] = regs[ResultReg(Fn)]
  PROVE  TopArrives(program, a, rs, m, x, mk)
<1>1. CallInv /\ TopArrives(program, Top, regs, mem, sp, made) /\ Fn = program[Top.fn]
      /\ {"args", "taken", "due"} \subseteq DOMAIN Top
  BY TopHas DEF ArriveInv
<1>2. {"fn", "step", "call", "left", "top"} \subseteq DOMAIN Top
  BY <1>1, TopIs
<1>3. a.fn = Top.fn /\ a.due = Top.due /\ a.step = step
  BY <1>1, <1>2
<1>4. Top.due = NoValue \/ regs[ResultReg(Fn)] = Top.due
  BY <1>1 DEF TopArrives
<1>5. step \notin Entering /\ step # "place" /\ step # "result" /\ step \notin {"move", "take"}
  BY DEF Entering, Leaving
<1> QED
  BY <1>1, <1>3, <1>4, <1>5 DEF TopArrives

\* Giving up the frame leaves the result alone.
LEMMA RecoverSpArrives == ArriveInv /\ RecoverSp => ArriveInv'
<1> SUFFICES ASSUME ArriveInv, RecoverSp PROVE ArriveInv'
  OBVIOUS
<1>0. CallInv /\ CallInv'
  BY RecoverSpCalls DEF ArriveInv
<1>1. stack # <<>> /\ Top.step = "recover" /\ program' = program /\ Go("vpop") /\ MoveBy(Fn.frame)
  BY DEF RecoverSp, At
<1>2. regs'[ResultReg(Fn)] = regs[ResultReg(Fn)]
  BY <1>0, <1>1, MovedKept, ResultRegIs
<1>3. PICK a : a = [Top EXCEPT !.step = "vpop"]
  OBVIOUS
<1>4. Top.step \in Leaving /\ "vpop" \in Leaving
  BY <1>1 DEF Leaving
<1>5. TopArrives(program, a, regs', mem', sp', made')
  BY <1>1, <1>2, <1>3, <1>4, LeavingOn
<1> QED
  BY <1>0, <1>1, <1>3, <1>5, GoArrives

\* vpop loads registers of its list, which a result is never in.
LEMMA VPopArrives == ArriveInv /\ VPop => ArriveInv'
<1> SUFFICES ASSUME ArriveInv, VPop PROVE ArriveInv'
  OBVIOUS
<1>0. CallInv /\ CallInv'
  BY VPopCalls DEF ArriveInv
<1>1. stack # <<>> /\ Top.step = "vpop" /\ program' = program /\ Go("pop") /\ regs' = VPopped(Fn, regs, mem, sp)
  BY DEF VPop, At, Loaded, VPopped
<1>2. regs'[ResultReg(Fn)] = regs[ResultReg(Fn)]
  <2>1. PICK r, f : r = ResultReg(Fn) /\ f = Fn
    OBVIOUS
  <2>2. SavedApart(f) /\ r \in DOMAIN regs /\ ~ Contains(f.vfp, r)
    BY <1>0, <1>1, <2>1, TopIs, ResultRegIs DEF CallInv
  <2> QED
    BY <1>1, <2>1, <2>2, VPoppedIs
<1>3. PICK a : a = [Top EXCEPT !.step = "pop"]
  OBVIOUS
<1>4. Top.step \in Leaving /\ "pop" \in Leaving
  BY <1>1 DEF Leaving
<1>5. TopArrives(program, a, regs', mem', sp', made')
  BY <1>1, <1>2, <1>3, <1>4, LeavingOn
<1> QED
  BY <1>0, <1>1, <1>3, <1>5, GoArrives

\* So does pop.
LEMMA PopArrives == ArriveInv /\ Pop => ArriveInv'
<1> SUFFICES ASSUME ArriveInv, Pop PROVE ArriveInv'
  OBVIOUS
<1>0. CallInv /\ CallInv'
  BY PopCalls DEF ArriveInv
<1>1. stack # <<>> /\ Top.step = "pop" /\ program' = program /\ Go("leave") /\ regs' = Popped(Fn, regs, mem, sp)
  BY DEF Pop, At, Popped
<1>2. regs'[ResultReg(Fn)] = regs[ResultReg(Fn)]
  <2>1. PICK r, f : r = ResultReg(Fn) /\ f = Fn
    OBVIOUS
  <2>2. SavedApart(f) /\ r \in DOMAIN regs /\ ~ Contains(f.general, r)
    BY <1>0, <1>1, <2>1, TopIs, ResultRegIs DEF CallInv
  <2> QED
    BY <1>1, <2>1, <2>2, PoppedIs
<1>3. PICK a : a = [Top EXCEPT !.step = "leave"]
  OBVIOUS
<1>4. Top.step \in Leaving /\ "leave" \in Leaving
  BY <1>1 DEF Leaving
<1>5. TopArrives(program, a, regs', mem', sp', made')
  BY <1>1, <1>2, <1>3, <1>4, LeavingOn
<1> QED
  BY <1>0, <1>1, <1>3, <1>5, GoArrives

\* The parameters of a call when everything is placed.
LEMMA PassedAre ==
  ASSUME ArriveInv, stack # <<>>, Top.step = "place", Top.left = 0, Call.fn # 0
  PROVE  /\ Call.fn \in DOMAIN program /\ Call.args = program[Call.fn].params /\ Call.args \in Seq(Kind)
         /\ Len(Args) = Len(Call.args) /\ \E S : Args \in Seq(S)
         /\ Given(Call.args, Args, regs, mem, sp)
<1>1. /\ CallInv /\ Linked(program) /\ Fn = program[Top.fn] /\ Top.fn \in DOMAIN program
      /\ TopArrives(program, Top, regs, mem, sp, made) /\ Frame1(program, Top, sp)
  BY TopIs, TopHas DEF ArriveInv
<1>2. Top.call \in DOMAIN Fn.calls
  BY <1>1 DEF Frame1
<1>3. Call.fn \in DOMAIN program /\ Call.args = program[Call.fn].params
  BY <1>1, <1>2 DEF Linked, Call
<1>4. PICK k : k = Call.args
  OBVIOUS
<1>5. k \in Seq(Kind) /\ DOMAIN k = 1..Len(k) /\ Len(k) \in Nat
  <2>1. k \in Seq(Kind)
    BY <1>1, <1>2, <1>4, PlacedOwn
  <2> QED
    BY <2>1
<1>6. PICK v : v = Args /\ v = [n \in 1..Len(k) |-> <<"arg", made, Top.call, n>>]
  BY <1>4, <1>5 DEF Args, Value
<1>7. Len(v) = Len(k) /\ \E S : v \in Seq(S)
  <2>1. PICK h \in Nat : h = Len(k)
    BY <1>5
  <2>2. PICK d : d = [n \in 1..h |-> <<"arg", made, Top.call, n>>]
    OBVIOUS
  <2>3. v = d
    BY <1>6, <2>1, <2>2
  <2>4. PICK S : S = {d[i] : i \in 1..h}
    OBVIOUS
  <2>5. d \in [1..h -> S]
    BY <2>2, <2>4
  <2>6. d \in Seq(S) /\ Len(d) = h
    BY <2>1, <2>5
  <2> QED
    BY <2>1, <2>3, <2>6
<1>8. ASSUME NEW n \in 1..Len(k) PROVE Where(k, n, regs, mem, sp) = v[n]
  <2>1. n > Top.left
    BY <1>5
  <2>2. Where(Call.args, n, regs, mem, sp) = <<"arg", made, Top.call, n>>
    BY <1>1, <1>4, <2>1 DEF TopArrives, Call
  <2> QED
    BY <1>4, <1>6, <2>2
<1>9. Given(k, v, regs, mem, sp)
  BY <1>7, <1>8 DEF Given
<1> QED
  BY <1>3, <1>4, <1>5, <1>6, <1>7, <1>9

\* What has been placed is what the function called takes.
LEMMA CallFunctionArrives == ArriveInv /\ CallFunction => ArriveInv'
<1> SUFFICES ASSUME ArriveInv, CallFunction PROVE ArriveInv'
  OBVIOUS
<1>0. CallInv /\ CallInv' /\ Each(program, stack) /\ Linked(program)
  BY CallFunctionCalls DEF ArriveInv
<1>1. PICK n, a, b : n = Len(stack) /\ a = [Top EXCEPT !.step = "result"]
        /\ b = [fn |-> Call.fn, step |-> "push", call |-> 1, left |-> 0, args |-> Args, taken |-> <<>>,
                top |-> sp, due |-> NoValue]
  OBVIOUS
<1>2. /\ stack # <<>> /\ Top.step = "place" /\ Top.left = 0 /\ program' = program /\ mem' = mem /\ Call.fn # 0
      /\ \A r \in CallerSave : regs'[r] = regs[r]
  <2>1. regs' = [regs EXCEPT ![LR] = <<"ra", Len(stack), made, Top.call>>]
    BY DEF CallFunction
  <2>2. CallerSave \subseteq DOMAIN regs /\ LR \notin CallerSave
    BY <1>0, FilesApart DEF CallInv, CallerSave, VREG
  <2>3. \A r \in CallerSave : regs'[r] = regs[r]
    BY <2>1, <2>2
  <2> QED
    BY <2>3 DEF CallFunction, At
<1>3. /\ Top = stack[n] /\ n \in Nat \ {0} /\ {"fn", "step", "call", "left", "top"} \subseteq DOMAIN Top
      /\ {"args", "taken", "due"} \subseteq DOMAIN Top /\ Taken(Top) /\ sp \in Int /\ Fn = program[Top.fn]
  BY <1>0, <1>1, <1>2, TopIs, TopHas
<1>4. PICK s2 : s2 = stack' /\ Len(s2) = n + 1 /\ s2[n + 1] = b /\ s2[n] = a /\ \A i \in 1..n : i < n => s2[i] = stack[i]
  <2>1. CallInv /\ CallFunction
    BY <1>0
  <2>2. /\ Len(stack') = n + 1 /\ DOMAIN stack' = 1..(n + 1) /\ stack'[n + 1] = b /\ stack'[n] = a
        /\ \A i \in 1..n : i < n => stack'[i] = stack[i]
    BY <1>1, <2>1, CallStack
  <2> QED
    BY <2>2
<1>5. /\ Call.args = program[Call.fn].params /\ Call.args \in Seq(Kind) /\ Len(Args) = Len(Call.args)
      /\ (\E S : Args \in Seq(S)) /\ Given(Call.args, Args, regs, mem, sp)
  BY <1>2, PassedAre
<1>6. /\ a.fn = Top.fn /\ a.call = Top.call /\ a.args = Top.args /\ a.taken = Top.taken /\ DOMAIN a = DOMAIN Top
      /\ b.fn = Call.fn /\ b.step = "push" /\ b.args = Args /\ b.taken = <<>> /\ b.top = sp
      /\ {"args", "taken", "due"} \subseteq DOMAIN b
  BY <1>1, <1>3
<1>7. Taken(a)
  BY <1>3, <1>6 DEF Taken
<1>8. Taken(b)
  <2>1. PICK S, v : v = Args /\ v \in Seq(S)
    BY <1>5
  <2>2. <<>> \in Seq(S) /\ Len(<<>>) = 0 /\ 0 =< Len(v) /\ 1..0 = {}
    BY <2>1
  <2> QED
    BY <1>6, <2>1, <2>2 DEF Taken
<1>9. Each(program, s2)
  <2>1. ASSUME NEW i \in 1..(n + 1)
        PROVE  /\ {"args", "taken", "due"} \subseteq DOMAIN s2[i] /\ Taken(s2[i])
               /\ i < n + 1 => program[s2[i].fn].calls[s2[i].call].fn = s2[i + 1].fn /\ s2[i + 1].fn # 0
    <3>1. CASE i = n + 1
      BY <1>3, <1>4, <1>6, <1>8, <3>1
    <3>2. CASE i = n
      <4>1. {"args", "taken", "due"} \subseteq DOMAIN s2[i] /\ Taken(s2[i])
        BY <1>3, <1>4, <1>6, <1>7, <3>2
      <4>2. program[a.fn].calls[a.call].fn = b.fn /\ b.fn # 0
        BY <1>2, <1>3, <1>6 DEF Call
      <4> QED
        BY <1>4, <3>2, <4>1, <4>2
    <3>3. CASE i < n
      <4>1. s2[i] = stack[i] /\ i + 1 \in 1..n /\ s2[i + 1].fn = stack[i + 1].fn /\ i \in 1..n
        <5>1. i + 1 \in 1..n /\ i \in 1..n /\ (i + 1 = n \/ i + 1 < n)
          BY <1>3, <3>3
        <5> QED
          BY <1>3, <1>4, <1>6, <3>3, <5>1
      <4> QED
        BY <1>0, <1>1, <3>3, <4>1 DEF Each
    <3> QED
      BY <1>3, <3>1, <3>2, <3>3
  <2> QED
    BY <1>4, <2>1 DEF Each
<1>10. TopArrives(program, b, regs', mem', sp', made')
  <2>1. PICK k, v, rs2 : k = Call.args /\ v = Args /\ rs2 = regs'
    OBVIOUS
  <2>2. SameAbove(mem, mem, sp)
    BY DEF SameAbove
  <2>3. k \in Seq(Kind) /\ Given(k, v, regs, mem, sp) /\ \A r \in CallerSave : rs2[r] = regs[r]
    BY <1>2, <1>5, <2>1
  <2>4. Given(k, v, rs2, mem, sp)
    BY <1>3, <2>2, <2>3, GivenKept
  <2>5. Given(program[b.fn].params, b.args, regs', mem', b.top)
    BY <1>2, <1>5, <1>6, <2>1, <2>4
  <2> QED
    BY <1>6, <2>5 DEF TopArrives, Leaving
<1>11. Top' = b
  <2>1. Top' = s2[Len(s2)]
    BY <1>4 DEF Top, Last
  <2> QED
    BY <1>4, <2>1
<1>12. (TopArrives(program, Top, regs, mem, sp, made))'
  BY <1>2, <1>10, <1>11
<1>13. Linked(program)' /\ Each(program, stack)'
  BY <1>0, <1>2, <1>4, <1>9
<1> QED
  BY <1>0, <1>12, <1>13 DEF ArriveInv

\* The caller finds the result of the function that has returned.
LEMMA LeaveArrives == ArriveInv /\ Leave => ArriveInv'
<1> SUFFICES ASSUME ArriveInv, Leave PROVE ArriveInv'
  OBVIOUS
<1>0. CallInv /\ CallInv' /\ Each(program, stack) /\ Linked(program) /\ Framed(program, stack, sp)
  BY LeaveCalls DEF ArriveInv, CallInv
<1>1. stack # <<>> /\ Top.step = "leave" /\ program' = program /\ regs' = regs
  BY DEF Leave, At
<1>2. PICK n : n = Len(stack)
  OBVIOUS
<1>3. Top = stack[n] /\ n \in Nat \ {0} /\ Fn = program[Top.fn] /\ TopArrives(program, Top, regs, mem, sp, made)
  BY <1>0, <1>1, <1>2, TopIs, TopHas
<1>4. PICK h : h \in Nat /\ h = n - 1 /\ h + 1 = n
  <2>1. n - 1 \in Nat /\ n - 1 + 1 = n
    BY <1>3
  <2> QED
    BY <2>1
<1>5. PICK s2 : /\ s2 = stack' /\ Len(s2) = h /\ DOMAIN s2 = 1..h /\ \A i \in 1..h : i < h => s2[i] = stack[i]
                /\ h # 0 => s2[h] = [stack[h] EXCEPT !.due = Top.due]
  <2>1. RightBelow(h, n)
    BY <1>3, <1>4 DEF RightBelow
  <2> QED
    BY <1>0, <1>2, <2>1, LeaveStack
<1>6. Linked(program)'
  BY <1>0, <1>1
<1>7. CASE h = 0
  <2>1. stack' = <<>>
    BY <1>5, <1>7
  <2>2. Each(program, s2)
    BY <1>5, <1>7 DEF Each
  <2> QED
    BY <1>0, <1>1, <1>5, <1>6, <2>1, <2>2 DEF ArriveInv
<1>8. CASE h # 0
  <2>1. PICK a : a = [stack[h] EXCEPT !.due = Top.due]
    OBVIOUS
  <2>2. h \in 1..n /\ h < n /\ h \in 1..h /\ s2[h] = a
    BY <1>4, <1>5, <1>8, <2>1
  <2>3. /\ {"args", "taken", "due"} \subseteq DOMAIN stack[h] /\ Taken(stack[h])
        /\ program[stack[h].fn].calls[stack[h].call].fn = Top.fn /\ Top.fn # 0
    BY <1>0, <1>2, <1>3, <1>4, <2>2 DEF Each
  <2>4. {"fn", "step", "call", "left", "top"} \subseteq DOMAIN stack[h] /\ stack[h].step = "result"
    BY <1>0, <1>2, <2>2 DEF Framed, Frame1
  <2>5. /\ a.fn = stack[h].fn /\ a.call = stack[h].call /\ a.step = "result" /\ a.args = stack[h].args
        /\ a.taken = stack[h].taken /\ a.due = Top.due /\ DOMAIN a = DOMAIN stack[h]
    BY <2>1, <2>3, <2>4
  <2>6. Taken(a)
    BY <2>3, <2>5 DEF Taken
  <2>7. Each(program, s2)
    <3>1. ASSUME NEW i \in 1..h
          PROVE  /\ {"args", "taken", "due"} \subseteq DOMAIN s2[i] /\ Taken(s2[i])
                 /\ i < h => program[s2[i].fn].calls[s2[i].call].fn = s2[i + 1].fn /\ s2[i + 1].fn # 0
      <4>1. CASE i = h
        BY <1>4, <2>2, <2>3, <2>5, <2>6, <4>1
      <4>2. CASE i < h
        <5>1. s2[i] = stack[i] /\ i \in 1..n /\ i + 1 \in 1..n /\ i < n
          BY <1>4, <1>5, <4>2
        <5>2. s2[i + 1].fn = stack[i + 1].fn
          <6>1. i + 1 \in 1..h /\ (i + 1 = h \/ i + 1 < h)
            BY <1>4, <4>2
          <6> QED
            BY <1>5, <2>2, <2>5, <6>1
        <5> QED
          BY <1>0, <1>2, <4>2, <5>1, <5>2 DEF Each
      <4> QED
        BY <1>4, <4>1, <4>2
    <3> QED
      BY <1>5, <3>1 DEF Each
  <2>8. Top.due = NoValue \/ regs[ResultReg(Fn)] = Top.due
    BY <1>1, <1>3 DEF TopArrives, Leaving
  <2>9. ResultAt(program, program[a.fn].calls[a.call]) = ResultReg(Fn)
    BY <1>3, <2>3, <2>5 DEF ResultAt
  <2>10. TopArrives(program, a, regs', mem', sp', made')
    BY <1>1, <2>5, <2>8, <2>9 DEF TopArrives, Entering, Leaving
  <2>11. Top' = a
    <3>1. Top' = s2[Len(s2)]
      BY <1>5 DEF Top, Last
    <3> QED
      BY <1>5, <2>2, <3>1
  <2>12. (TopArrives(program, Top, regs, mem, sp, made))'
    BY <1>1, <2>10, <2>11
  <2>13. Each(program, stack)'
    BY <1>1, <1>5, <2>7
  <2> QED
    BY <1>0, <1>6, <2>12, <2>13 DEF ArriveInv
<1> QED
  BY <1>7, <1>8

\* The functions the compiler makes call one another with the parameters they take.
LEMMA LinkedCompiled ==
  ASSUME NEW p \in Programs, NEW q, q = [n \in DOMAIN p |-> Compiled(p[n])]
  PROVE  Linked(q)
<1> SUFFICES ASSUME NEW n \in DOMAIN p
             PROVE  /\ n # 0 /\ q[n].params \in Seq(Kind) /\ q[n].fp = NeedsFp(q[n])
                    /\ q[n].saved = UNITS_PER_WORD * (Len(q[n].general) + Len(q[n].vfp))
                    /\ \A k \in DOMAIN q[n].calls :
                         q[n].calls[k].fn # 0 =>
                           q[n].calls[k].fn \in DOMAIN q /\ q[n].calls[k].args = q[q[n].calls[k].fn].params
  <2>1. DOMAIN q = DOMAIN p
    OBVIOUS
  <2> QED
    BY <2>1 DEF Linked
<1>1. PICK f, c : f = p[n] /\ c = Compiled(f)
  OBVIOUS
<1>2. /\ f \in Source /\ n # 0 /\ Vfp(f) = UsedVfp(f)
      /\ \A k \in DOMAIN f.calls : f.calls[k].fn # 0 => f.calls[k].fn \in DOMAIN p /\ f.calls[k].args = p[f.calls[k].fn].params
  BY <1>1, WellFormed, NoGaps
<1>3. q[n] = c /\ \A m \in DOMAIN p : q[m] = Compiled(p[m])
  BY <1>1
<1>4. /\ c.params = f.params /\ c.fp = NeedsFp(f) /\ c.saved = CalleeSavedSize(f) /\ c.general = General(f)
      /\ c.vfp = Vfp(f) /\ c.calls = f.calls
  BY <1>1 DEF Compiled
<1>5. c.params \in Seq(Kind) /\ c.fp = NeedsFp(c)
  BY <1>2, <1>4 DEF Source, NeedsFp
<1>6. c.saved = UNITS_PER_WORD * (Len(c.general) + Len(c.vfp))
  <2>1. PICK g, v : g = General(f) /\ v = UsedVfp(f)
    OBVIOUS
  <2>2. g \in Seq((4..11) \cup {LR}) /\ v \in Seq(32..47)
    BY <2>1, SavesWhatItWrites
  <2>3. PICK s : s = g \o v
    OBVIOUS
  <2>4. Len(s) = Len(g) + Len(v)
    BY <2>2, <2>3
  <2>5. SavedBytes(f) = UNITS_PER_WORD * (Len(g) + Len(v))
    BY <2>1, <2>3, <2>4 DEF SavedBytes, Saved
  <2>6. SPILL_REG \in Written(f)
    BY DEF Written, Outputs, SPILL_REG, IP
  <2>7. CalleeSavedSize(f) = SavedBytes(f)
    BY <2>6, SavedSizeWritten DEF CalleeSavedSize
  <2> QED
    BY <1>2, <1>4, <2>1, <2>5, <2>7
<1>7. ASSUME NEW k \in DOMAIN c.calls, c.calls[k].fn # 0
      PROVE  c.calls[k].fn \in DOMAIN q /\ c.calls[k].args = q[c.calls[k].fn].params
  <2>1. PICK m : m = f.calls[k].fn
    OBVIOUS
  <2>2. m \in DOMAIN p /\ f.calls[k].args = p[m].params
    BY <1>2, <1>4, <1>7, <2>1
  <2>3. q[m].params = p[m].params
    BY <1>3, <2>2 DEF Compiled
  <2> QED
    BY <1>4, <2>1, <2>2, <2>3
<1> QED
  BY <1>2, <1>3, <1>5, <1>6, <1>7

\* main takes nothing.
LEMMA ArriveInit == FrameInit => ArriveInv
<1> SUFFICES ASSUME FrameInit PROVE ArriveInv
  OBVIOUS
<1>1. CallInv
  BY CallInit
<1>2. PICK p \in Programs : program = [n \in DOMAIN p |-> Compiled(p[n])]
  BY DEF FrameInit
<1>3. Linked(program)
  BY <1>2, LinkedCompiled
<1>4. PICK a : a = [fn |-> 1, step |-> "push", call |-> 1, left |-> 0, args |-> <<>>, taken |-> <<>>,
                    top |-> Bottom, due |-> NoValue]
  OBVIOUS
<1>5. stack = <<a>> /\ Top = a
  BY <1>4 DEF FrameInit, Top, Last
<1>6. a.fn = 1 /\ a.step = "push" /\ a.args = <<>> /\ a.taken = <<>> /\ {"args", "taken", "due"} \subseteq DOMAIN a
  BY <1>4
<1>7. Taken(a)
  <2>1. <<>> \in Seq({}) /\ Len(<<>>) = 0 /\ 1..0 = {}
    OBVIOUS
  <2> QED
    BY <1>6, <2>1 DEF Taken
<1>8. Each(program, stack)
  <2>1. Len(stack) = 1 /\ stack[1] = a /\ 1..1 = {1}
    BY <1>5
  <2> QED
    BY <1>6, <1>7, <2>1 DEF Each
<1>9. program[1].params = <<>>
  BY <1>2, WellFormed DEF Compiled
<1>10. Given(program[1].params, <<>>, regs, mem, Bottom)
  BY <1>9 DEF Given
<1>11. TopArrives(program, a, regs, mem, sp, made)
  <2>1. a.top = Bottom
    BY <1>4
  <2> QED
    BY <1>6, <1>10, <2>1 DEF TopArrives, Leaving
<1> QED
  BY <1>1, <1>3, <1>5, <1>8, <1>11 DEF ArriveInv

\* Nothing happens.
LEMMA NothingArrives == ArriveInv /\ UNCHANGED frameVars => ArriveInv'
<1> SUFFICES ASSUME ArriveInv, UNCHANGED frameVars PROVE ArriveInv'
  OBVIOUS
<1>1. /\ program' = program /\ stack' = stack /\ regs' = regs /\ mem' = mem /\ sp' = sp /\ made' = made
      /\ Top' = Top
  BY DEF frameVars, Top
<1>2. CallInv'
  BY NothingCalls DEF ArriveInv
<1> QED
  BY <1>1, <1>2 DEF ArriveInv

\* Every step keeps what is awaited where it is taken.
LEMMA ArriveKeeps == ArriveInv /\ [FrameNext]_frameVars => ArriveInv'
<1> SUFFICES ASSUME ArriveInv, [FrameNext]_frameVars PROVE ArriveInv'
  OBVIOUS
<1>1. CASE Push
  BY <1>1, PushArrives
<1>2. CASE VPush
  BY <1>2, VPushArrives
<1>3. CASE SetUpFp
  BY <1>3, SetUpFpArrives
<1>4. CASE DecrementSp
  BY <1>4, DecrementSpArrives
<1>5. CASE TakeParameter
  BY <1>5, TakeParameterArrives
<1>6. CASE Work
  BY <1>6, WorkArrives
<1>7. CASE BeginCall
  BY <1>7, BeginCallArrives
<1>8. CASE SkipCall
  BY <1>8, SkipCallArrives
<1>9. CASE PlaceParameter
  BY <1>9, PlaceParameterArrives
<1>10. CASE CallFunction
  BY <1>10, CallFunctionArrives
<1>11. CASE CallExternal
  BY <1>11, CallExternalArrives
<1>12. CASE TakeResult
  BY <1>12, TakeResultArrives
<1>13. CASE SetResult
  BY <1>13, SetResultArrives
<1>14. CASE RecoverSp
  BY <1>14, RecoverSpArrives
<1>15. CASE VPop
  BY <1>15, VPopArrives
<1>16. CASE Pop
  BY <1>16, PopArrives
<1>17. CASE Leave
  BY <1>17, LeaveArrives
<1>18. CASE Returned \/ UNCHANGED frameVars
  BY <1>18, NothingArrives DEF Returned
<1> QED
  BY <1>1, <1>2, <1>3, <1>4, <1>5, <1>6, <1>7, <1>8, <1>9, <1>10, <1>11, <1>12, <1>13, <1>14,
     <1>15, <1>16, <1>17, <1>18 DEF FrameNext

\* What has been taken is what was passed, and the result is where it is taken.
LEMMA ArriveHolds == ArriveInv => ValuesArrive
<1> SUFFICES ASSUME ArriveInv PROVE ValuesArrive
  OBVIOUS
<1>1. Each(program, stack) /\ \E S : stack \in Seq(S)
  BY DEF ArriveInv, CallInv, AlignInv, StackOK
<1>2. ASSUME NEW i \in DOMAIN stack PROVE stack[i].taken = SubSeq(stack[i].args, 1, Len(stack[i].taken))
  <2>1. i \in 1..Len(stack)
    BY <1>1
  <2>2. PICK t, g : t = stack[i].taken /\ g = stack[i].args
    OBVIOUS
  <2>3. PICK S : g \in Seq(S) /\ t \in Seq(S)
    BY <1>1, <2>1, <2>2 DEF Each, Taken
  <2>4. Len(t) =< Len(g) /\ \A j \in 1..Len(t) : t[j] = g[j]
    BY <1>1, <2>1, <2>2 DEF Each, Taken
  <2>5. t = SubSeq(g, 1, Len(t))
    <3>1. PICK s : s = SubSeq(g, 1, Len(t))
      OBVIOUS
    <3>2. Len(t) \in Nat /\ Len(g) \in Nat
      BY <2>3
    <3>3. s \in Seq(S) /\ Len(s) = Len(t) /\ \A j \in 1..Len(t) : s[j] = g[j]
      BY <2>3, <2>4, <3>1, <3>2
    <3> QED
      BY <2>3, <2>4, <3>1, <3>3, SeqEqual
  <2> QED
    BY <2>2, <2>5
<1>3. ASSUME At("result"), Top.due # NoValue
      PROVE  regs[IF Call.fn = 0 THEN R0 ELSE ResultReg(program[Call.fn])] = Top.due
  <2>1. stack # <<>> /\ Top.step = "result"
    BY <1>3 DEF At
  <2>2. TopArrives(program, Top, regs, mem, sp, made) /\ Fn = program[Top.fn]
    BY <2>1, TopHas
  <2>3. regs[ResultAt(program, Call)] = Top.due
    BY <1>3, <2>1, <2>2 DEF TopArrives, Call
  <2> QED
    BY <2>3 DEF ResultAt
<1> QED
  BY <1>2, <1>3 DEF ValuesArrive

\* The values of a call arrive, for every program.
THEOREM ValuesAlwaysArrive == FrameSpec => []ValuesArrive
<1> QED
  BY ArriveInit, ArriveKeeps, ArriveHolds, PTL DEF FrameSpec

-----------------------------------------------------------------------------
\* Memory is written in whole words.
Whole(m) == \A a \in DOMAIN m : a \in Int /\ a % UNITS_PER_WORD = 0
WholeOwn(p) == \A n \in DOMAIN p : \A l \in p[n].own : l[1] = "word" => l[2] % UNITS_PER_WORD = 0
WholeInv == CallInv /\ WholeOwn(program) /\ Whole(mem) /\ made \in Nat

\* The stack pointer is a multiple of a word, and it is not above where the last
\* activation began.
LEMMA WholeSp ==
  ASSUME CallInv, stack # <<>>
  PROVE  sp \in Int /\ sp % UNITS_PER_WORD = 0 /\ Top.top \in Int /\ sp =< Top.top
<1>1. /\ sp \in Int /\ Top.top \in Int /\ sp = Top.top - Offset(Fn, Top.step)
      /\ Fn = program[Top.fn] /\ Frame1(program, Top, sp)
  BY TopIs
<1>2. (sp + Offset(Fn, Top.step)) % 8 = 0
  BY DEF CallInv, AlignInv, PointerOK
<1>3. Top.fn \in DOMAIN program
  BY <1>1 DEF Frame1
<1>4. Balanced(Fn)
  BY <1>1, <1>3 DEF CallInv, AlignInv, ProgramOK
<1>5. PICK g \in Nat, v \in Nat, fr \in Nat : g = Len(Fn.general) /\ v = Len(Fn.vfp) /\ fr = Fn.frame
  BY <1>4 DEF Balanced
<1>6. (4 * (g + v) + fr) % 8 = 0
  BY <1>4, <1>5 DEF Balanced, Offset, UNITS_PER_WORD
<1>7. Offset(Fn, Top.step) \in {0, 4 * g, 4 * (g + v), 4 * (g + v) + fr}
  <2>1. 4 * (g + v) + 0 = 4 * (g + v)
    BY <1>5
  <2> QED
    BY <1>5, <2>1 DEF Offset, UNITS_PER_WORD
<1>8. PICK o : o = Offset(Fn, Top.step)
  OBVIOUS
<1>9. o \in Nat /\ o % 4 = 0
  <2>1. \A x \in Nat, y \in Nat : (4 * x + y) % 8 = 0 => y % 4 = 0
    OBVIOUS
  <2>2. PICK h \in Nat : h = g + v
    OBVIOUS
  <2>3. fr % 4 = 0
    BY <1>5, <1>6, <2>1, <2>2
  <2>4. o \in {0, 4 * g, 4 * h, 4 * h + fr}
    BY <1>7, <1>8, <2>2
  <2>5. \A x \in Nat, y \in Nat : (4 * x) % 4 = 0 /\ 4 * x \in Nat /\ (y % 4 = 0 => (4 * x + y) % 4 = 0)
    OBVIOUS
  <2>6. 4 * g \in Nat /\ (4 * g) % 4 = 0 /\ 4 * h \in Nat /\ (4 * h) % 4 = 0
    BY <1>5, <2>2, <2>5
  <2>7. 4 * h + fr \in Nat /\ (4 * h + fr) % 4 = 0
    <3>1. (4 * h + fr) % 4 = 0
      BY <2>3, <2>5, Zenon
    <3>2. 4 * h + fr \in Nat
      OBVIOUS
    <3> QED
      BY <3>1, <3>2
  <2> QED
    BY <2>4, <2>6, <2>7
<1>10. (sp + o) % 8 = 0 /\ sp = Top.top - o
  BY <1>1, <1>2, <1>8
<1>11. sp % 4 = 0
  <2>1. \A x \in Int, y \in Nat : (x + y) % 8 = 0 /\ y % 4 = 0 => x % 4 = 0
    OBVIOUS
  <2> QED
    BY <1>1, <1>9, <1>10, <2>1
<1> QED
  BY <1>1, <1>9, <1>10, <1>11 DEF UNITS_PER_WORD

\* Words stored from a multiple of a word on.
LEMMA StoreWhole ==
  ASSUME NEW m, NEW at, NEW v, Whole(m), at \in Int, at % UNITS_PER_WORD = 0, Len(v) \in Nat
  PROVE  Whole(Store(m, at, v))
<1>1. PICK n \in Nat : n = Len(v)
  OBVIOUS
<1>2. DOMAIN Store(m, at, v) = DOMAIN m \cup Words(at, n)
  BY <1>1 DEF Store
<1>3. ASSUME NEW a \in Words(at, n) PROVE a \in Int /\ a % UNITS_PER_WORD = 0
  <2>1. PICK i \in 1..n : a = at + 4 * (i - 1)
    BY DEF Words, UNITS_PER_WORD
  <2>2. PICK j \in Nat : j = i - 1
    BY <2>1
  <2>3. a = at + 4 * j
    BY <2>1, <2>2
  <2> QED
    BY <2>2, <2>3 DEF UNITS_PER_WORD
<1> QED
  BY <1>2, <1>3 DEF Whole

\* As many values as registers.
LEMMA ValuesCount ==
  ASSUME NEW rs, NEW S, rs \in Seq(S)
  PROVE  Len(Values(rs)) = Len(rs) /\ Len(rs) \in Nat
<1>1. PICK n \in Nat : n = Len(rs) /\ DOMAIN rs = 1..n
  OBVIOUS
<1>2. Values(rs) = [i \in 1..n |-> regs[rs[i]]]
  BY <1>1 DEF Values
<1>3. PICK v : v = [i \in 1..n |-> regs[rs[i]]]
  OBVIOUS
<1>4. PICK T : T = {v[i] : i \in 1..n}
  OBVIOUS
<1>5. v \in [1..n -> T]
  BY <1>3, <1>4
<1>6. v \in Seq(T) /\ Len(v) = n
  BY <1>1, <1>5
<1> QED
  BY <1>1, <1>2, <1>3, <1>6

\* A step that writes no new word.
LEMMA SameWords ==
  ASSUME WholeInv, CallInv', program' = program, DOMAIN mem' = DOMAIN mem, made' \in {made, made + 1}
  PROVE  WholeInv'
<1>1. Whole(mem') /\ made' \in Nat
  BY DEF WholeInv, Whole
<1> QED
  BY <1>1 DEF WholeInv

\* A step that writes words.
LEMMA MoreWords ==
  ASSUME WholeInv, CallInv', program' = program, made' = made, Whole(mem')
  PROVE  WholeInv'
BY DEF WholeInv

\* push and vpush write whole words.
LEMMA WholePush == WholeInv /\ (Push \/ VPush) => WholeInv'
<1> SUFFICES ASSUME WholeInv, Push \/ VPush PROVE WholeInv'
  OBVIOUS
<1>1. CallInv /\ CallInv' /\ Whole(mem) /\ stack # <<>> /\ program' = program /\ made' = made
  BY PushCalls, VPushCalls DEF WholeInv, Push, VPush, At
<1>2. sp \in Int /\ sp % 4 = 0
  BY <1>1, WholeSp DEF UNITS_PER_WORD
<1>3. PICK rs, S : rs \in Seq(S) /\ sp' = sp - UNITS_PER_WORD * Len(rs) /\ mem' = Store(mem, sp', Values(rs))
  <2>1. Fn.general \in Seq((4..11) \cup {LR}) /\ Fn.vfp \in Seq(32..47)
    BY <1>1, TopIs DEF SavedApart
  <2> QED
    BY <2>1 DEF Push, VPush
<1>4. PICK n \in Nat : n = Len(rs) /\ Len(Values(rs)) = n
  BY <1>3, ValuesCount
<1>5. PICK at : at = sp'
  OBVIOUS
<1>6. at \in Int /\ at % UNITS_PER_WORD = 0
  BY <1>2, <1>3, <1>4, <1>5 DEF UNITS_PER_WORD
<1>7. Whole(mem')
  BY <1>1, <1>3, <1>4, <1>5, <1>6, StoreWhole
<1> QED
  BY <1>1, <1>7, MoreWords

\* Arrays and slots are whole words.
LEMMA WholeWork == WholeInv /\ Work => WholeInv'
<1> SUFFICES ASSUME WholeInv, Work PROVE WholeInv'
  OBVIOUS
<1>1. CallInv /\ CallInv' /\ Whole(mem) /\ WholeOwn(program) /\ stack # <<>> /\ program' = program /\ made' = made
  BY WorkCalls DEF WholeInv, Work, At
<1>2. sp \in Int /\ sp % 4 = 0
  BY <1>1, WholeSp DEF UNITS_PER_WORD
<1>3. Fn = program[Top.fn] /\ Top.fn \in DOMAIN program /\ Sound(Fn)
  BY <1>1, TopIs DEF Frame1
<1>4. PICK w : /\ w = {sp + l[2] : l \in {o \in Fn.own : o[1] = "word"}}
               /\ DOMAIN mem' = DOMAIN mem \cup w
  BY DEF Work
<1>5. ASSUME NEW a \in w PROVE a \in Int /\ a % UNITS_PER_WORD = 0
  <2>1. PICK l \in Fn.own : l[1] = "word" /\ a = sp + l[2]
    BY <1>4
  <2>2. l[2] \in Nat
    BY <1>3, <2>1 DEF Sound
  <2>3. l[2] % UNITS_PER_WORD = 0
    BY <1>1, <1>3, <2>1 DEF WholeOwn
  <2>4. PICK b \in Nat : b = l[2] /\ b % 4 = 0 /\ a = sp + b
    BY <2>1, <2>2, <2>3 DEF UNITS_PER_WORD
  <2>5. \A x \in Int, y \in Nat : x % 4 = 0 /\ y % 4 = 0 => (x + y) % 4 = 0
    OBVIOUS
  <2>6. PICK x \in Int : x = sp /\ x % 4 = 0
    BY <1>2
  <2>7. (x + b) % 4 = 0
    BY <2>4, <2>5, <2>6, Zenon
  <2>8. x + b \in Int
    OBVIOUS
  <2> QED
    BY <2>4, <2>6, <2>7, <2>8 DEF UNITS_PER_WORD
<1>6. Whole(mem')
  BY <1>1, <1>4, <1>5 DEF Whole
<1> QED
  BY <1>1, <1>6, MoreWords

\* Parameters on the stack are whole words.
LEMMA WholePlace == WholeInv /\ PlaceParameter => WholeInv'
<1> SUFFICES ASSUME WholeInv, PlaceParameter PROVE WholeInv'
  OBVIOUS
<1>1. /\ CallInv /\ CallInv' /\ Whole(mem) /\ stack # <<>> /\ program' = program /\ made' = made
      /\ Top.step = "place" /\ Top.left > 0
  BY PlaceParameterCalls DEF WholeInv, PlaceParameter, At
<1>2. sp \in Int /\ sp % 4 = 0
  BY <1>1, WholeSp DEF UNITS_PER_WORD
<1>3. /\ Top.call \in DOMAIN Fn.calls /\ Sound(Fn) /\ Placed = PlacedOf(Fn, Top.call)
      /\ Top.left \in 1..Len(PlacedOf(Fn, Top.call))
  <2>1. Fn = program[Top.fn] /\ Frame1(program, Top, sp) /\ Sound(Fn)
    BY <1>1, TopIs
  <2>2. Top.call \in DOMAIN Fn.calls /\ Top.left \in 0..Len(PlacedOf(Fn, Top.call))
    BY <1>1, <2>1 DEF Frame1
  <2>3. Len(PlacedOf(Fn, Top.call)) \in Nat
    BY <2>1, <2>2, PlacedKinds
  <2>4. Placed = PlacedOf(Fn, Top.call)
    BY DEF Placed, PlacedOf, Earlier, EarlierOf, Call
  <2> QED
    BY <1>1, <2>1, <2>2, <2>3, <2>4
<1>4. PICK k, n, icnt, fcnt, v :
        /\ k = Placed /\ n = Top.left /\ icnt = Before(k, n, "int") /\ fcnt = Before(k, n, "float")
        /\ v = <<Value("arg", Top.call, n)>>
  OBVIOUS
<1>5. IF InRegister(k[n], icnt, fcnt) THEN mem' = mem ELSE mem' = Store(mem, sp + OnStack(icnt, fcnt), v)
  BY <1>4 DEF PlaceParameter
<1>6. CASE InRegister(k[n], icnt, fcnt)
  BY <1>1, <1>5, <1>6, MoreWords
<1>7. CASE ~ InRegister(k[n], icnt, fcnt)
  <2>1. PICK d \in Nat : d = OnStack(icnt, fcnt) /\ d % 4 = 0
    BY <1>3, <1>4, <1>7, PlacedWhere DEF UNITS_PER_WORD
  <2>2. sp + d \in Int /\ (sp + d) % UNITS_PER_WORD = 0
    BY <1>2, <2>1 DEF UNITS_PER_WORD
  <2>3. Len(v) \in Nat
    BY <1>4
  <2>4. Whole(mem')
    BY <1>1, <1>5, <1>7, <2>1, <2>2, <2>3, StoreWhole
  <2> QED
    BY <1>1, <2>4, MoreWords
<1> QED
  BY <1>6, <1>7

\* No word has been written when the program begins.
LEMMA WholeInit == FrameInit => WholeInv
<1> SUFFICES ASSUME FrameInit PROVE WholeInv
  OBVIOUS
<1>1. CallInv
  BY CallInit
<1>2. PICK p \in Programs : program = [n \in DOMAIN p |-> Compiled(p[n])]
  BY DEF FrameInit
<1>3. ASSUME NEW n \in DOMAIN p, NEW l \in Own(p[n]), l[1] = "word" PROVE l[2] % UNITS_PER_WORD = 0
  <2>1. p[n] \in Source
    BY WellFormed
  <2> QED
    BY <1>3, <2>1, OwnPlaces DEF UNITS_PER_WORD
<1>4. WholeOwn(program)
  <2>1. DOMAIN program = DOMAIN p /\ \A n \in DOMAIN p : program[n].own = Own(p[n])
    BY <1>2 DEF Compiled
  <2> QED
    BY <1>3, <2>1 DEF WholeOwn
<1>5. Whole(mem) /\ made \in Nat
  BY DEF FrameInit, Whole
<1> QED
  BY <1>1, <1>4, <1>5 DEF WholeInv

\* Every step writes whole words.
LEMMA WholeKeeps == WholeInv /\ [FrameNext]_frameVars => WholeInv'
<1> SUFFICES ASSUME WholeInv, [FrameNext]_frameVars PROVE WholeInv'
  OBVIOUS
<1>1. CallInv'
  BY StepsKeep DEF WholeInv
<1>2. CASE Push \/ VPush
  BY <1>2, WholePush
<1>3. CASE Work
  BY <1>3, WholeWork
<1>4. CASE PlaceParameter
  BY <1>4, WholePlace
<1>5. CASE CallExternal
  <2>1. program' = program /\ made' = made /\ DOMAIN mem' = DOMAIN mem
    BY <1>5 DEF CallExternal
  <2> QED
    BY <1>1, <2>1, SameWords
<1>6. CASE CallFunction
  <2>1. program' = program /\ made' = made + 1 /\ mem' = mem
    BY <1>6 DEF CallFunction
  <2> QED
    BY <1>1, <2>1, SameWords
<1>7. CASE \/ SetUpFp \/ DecrementSp \/ TakeParameter \/ BeginCall \/ SkipCall \/ TakeResult \/ SetResult
           \/ RecoverSp \/ VPop \/ Pop \/ Leave \/ Returned \/ UNCHANGED frameVars
  <2>1. program' = program /\ made' = made /\ mem' = mem
    BY <1>7 DEF SetUpFp, DecrementSp, TakeParameter, BeginCall, SkipCall, TakeResult, SetResult, RecoverSp,
                VPop, Pop, Leave, Returned, frameVars
  <2> QED
    BY <1>1, <2>1, SameWords
<1> QED
  BY <1>2, <1>3, <1>4, <1>5, <1>6, <1>7 DEF FrameNext

\* Frame's type invariant from the inductive one.
LEMMA WholeHolds == WholeInv => FrameTypeOK
<1> SUFFICES ASSUME WholeInv PROVE FrameTypeOK
  OBVIOUS
<1>1. CallInv /\ Framed(program, stack, sp) /\ sp \in Int /\ made \in Nat /\ DOMAIN regs = 0..47
  BY DEF WholeInv, CallInv, AlignInv, PointerOK
<1>2. ASSUME NEW i \in DOMAIN stack PROVE stack[i].fn \in DOMAIN program /\ stack[i].top >= sp
  <2>1. i \in 1..Len(stack) /\ stack # <<>>
    BY <1>1 DEF Framed
  <2>2. /\ Top = stack[Len(stack)] /\ Len(stack) \in Nat \ {0} /\ Top.top \in Int /\ sp =< Top.top
    BY <1>1, <2>1, TopIs, WholeSp
  <2>3. Len(stack) \in 1..Len(stack)
    BY <2>2
  <2>4. Top.top =< stack[i].top
    BY <1>1, <2>1, <2>2, <2>3 DEF Framed
  <2>5. stack[i].fn \in DOMAIN program /\ stack[i].top \in Int
    BY <1>1, <2>1 DEF Framed, Frame1
  <2> QED
    BY <1>1, <2>2, <2>4, <2>5
<1> QED
  BY <1>1, <1>2 DEF FrameTypeOK, WholeInv, Whole

\* Frame's types, for every program.
THEOREM FrameTypes == FrameSpec => []FrameTypeOK
<1> QED
  BY WholeInit, WholeKeeps, WholeHolds, PTL DEF FrameSpec
=============================================================================
