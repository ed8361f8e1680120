--------------------------- MODULE Intervals_proofs ---------------------------
(***************************************************************************)
(* For every graph, every code and every choice of hard registers: the     *)
(* walk that builds the life ranges leaves no point uncovered at which a   *)
(* register may still be read (Covers), nothing that is live is written    *)
(* over by what shares its hard register (NoClobber), the lists of the     *)
(* hard registers are sorted, as intersects_at needs them                  *)
(* (ScanFindsOverlap), use_pos misses no operand (UsesComplete), an        *)
(* argument keeps its register up to the call (ArgumentsKept), and         *)
(* SPILL_REG is never free (SpillRegReserved).                             *)
(***************************************************************************)
EXTENDS LiveIntervals, Exactness_proofs

\* A range is the pair of its ends.
Span == Nat \X Nat

CoveredBy(s, t) == \E g \in DOMAIN s : s[g][1] =< t /\ t < s[g][2]

\* The ranges of a list are not empty, do not touch, and come in order.
Sorted(s) ==
  /\ s \in Seq(Span)
  /\ \A g \in DOMAIN s : s[g][1] < s[g][2]
  /\ \A g, h \in DOMAIN s : g < h => s[g][2] < s[h][1]

\* No range of the list ends at t or earlier.
EndsAfter(s, t) == \A g \in DOMAIN s : t < s[g][2]

\* The first range of the list begins at t or earlier.
StartsBy(s, t) == s # <<>> /\ s[1][1] =< t

-----------------------------------------------------------------------------
\* Elements of a list of ranges.
LEMMA SpanOf ==
  ASSUME NEW s \in Seq(Span)
  PROVE  /\ Len(s) \in Nat /\ DOMAIN s = 1..Len(s)
         /\ \A g \in DOMAIN s : s[g] \in Span /\ s[g][1] \in Nat /\ s[g][2] \in Nat /\ g \in Nat
         /\ s # <<>> => 1 \in DOMAIN s
<1>1. Len(s) \in Nat /\ DOMAIN s = 1..Len(s)
  BY LenProperties
<1>2. \A g \in DOMAIN s : s[g] \in Span
  BY <1>1, ElementOfSeq
<1>3. s # <<>> => 1 \in DOMAIN s
  BY <1>1, EmptySeq
<1> QED
  BY <1>1, <1>2, <1>3 DEF Span

\* A range instead of the first one.
LEMMA HeadReplaced ==
  ASSUME NEW S, NEW s \in Seq(S), s # <<>>, NEW d \in S, NEW t, t = <<d>> \o Tail(s)
  PROVE  /\ t \in Seq(S) /\ Len(t) = Len(s) /\ DOMAIN t = DOMAIN s
         /\ t[1] = d /\ \A i \in DOMAIN s : i # 1 => t[i] = s[i]
<1>1. /\ Tail(s) \in Seq(S) /\ Len(Tail(s)) = Len(s) - 1 /\ Len(s) \in Nat \ {0}
      /\ \A i \in 1..Len(Tail(s)) : Tail(s)[i] = s[i + 1]
      /\ DOMAIN s = 1..Len(s)
  BY HeadTailProperties, EmptySeq, LenProperties
<1>2. PICK u : u = Tail(s)
  OBVIOUS
<1>3. u \in Seq(S) /\ t = <<d>> \o u
  BY <1>1, <1>2
<1>4. /\ t \in Seq(S) /\ Len(t) = Len(u) + 1 /\ Len(u) \in Nat
      /\ DOMAIN t = 1..(Len(u) + 1)
      /\ t[1] = d /\ \A i \in 1..Len(u) : t[i + 1] = u[i]
  BY <1>3, FrontOf
<1>5. Len(t) = Len(s) /\ DOMAIN t = DOMAIN s
  BY <1>1, <1>2, <1>4
<1>6. ASSUME NEW i \in DOMAIN s, i # 1 PROVE t[i] = s[i]
  <2>1. i - 1 \in 1..Len(u) /\ i - 1 + 1 = i
    BY <1>1, <1>2, <1>6
  <2>2. t[i - 1 + 1] = u[i - 1] /\ u[i - 1] = s[i - 1 + 1]
    BY <1>1, <1>2, <1>4, <2>1
  <2> QED
    BY <2>1, <2>2
<1> QED
  BY <1>4, <1>5, <1>6

\* A range that takes the place of the first one and ends no earlier before the next.
LEMMA ReplaceSorted ==
  ASSUME NEW s, Sorted(s), s # <<>>, NEW f \in Nat, NEW to \in Nat, f < to,
         \A g \in DOMAIN s : g # 1 => to < s[g][1],
         NEW t, t = << <<f, to>> >> \o Tail(s)
  PROVE  /\ Sorted(t) /\ t # <<>> /\ DOMAIN t = DOMAIN s /\ 1 \in DOMAIN t /\ t[1] = <<f, to>>
         /\ \A g \in DOMAIN s : g # 1 => t[g] = s[g]
<1>1. s \in Seq(Span) /\ <<f, to>> \in Span
  BY DEF Sorted, Span
<1>2. /\ t \in Seq(Span) /\ Len(t) = Len(s) /\ DOMAIN t = DOMAIN s /\ t[1] = <<f, to>>
      /\ \A i \in DOMAIN s : i # 1 => t[i] = s[i]
  BY <1>1, HeadReplaced
<1>3. 1 \in DOMAIN t /\ \A g \in DOMAIN s : g \in Nat /\ g >= 1
  BY <1>1, <1>2, SpanOf
<1>4. t[1][1] = f /\ t[1][2] = to
  BY <1>2
<1>5. \A g \in DOMAIN t : t[g][1] < t[g][2]
  BY <1>2, <1>4 DEF Sorted
<1>6. ASSUME NEW g \in DOMAIN t, NEW h \in DOMAIN t, g < h PROVE t[g][2] < t[h][1]
  <2>1. h # 1 /\ t[h] = s[h]
    BY <1>2, <1>3, <1>6
  <2>2. CASE g = 1
    BY <1>2, <1>4, <2>1, <2>2
  <2>3. CASE g # 1
    <3>1. t[g] = s[g]
      BY <1>2, <2>3
    <3> QED
      BY <1>2, <1>6, <2>1, <3>1 DEF Sorted
  <2> QED
    BY <2>2, <2>3
<1>7. t # <<>>
  BY <1>2, <1>3
<1> QED
  BY <1>2, <1>3, <1>5, <1>6, <1>7 DEF Sorted

\* A range before all the others.
LEMMA FrontSorted ==
  ASSUME NEW s, Sorted(s), NEW f \in Nat, NEW to \in Nat, f < to,
         s # <<>> => to < s[1][1],
         NEW t, t = << <<f, to>> >> \o s
  PROVE  /\ Sorted(t) /\ t # <<>> /\ 1 \in DOMAIN t /\ t[1] = <<f, to>>
         /\ \A g \in DOMAIN t : g = 1 \/ (g - 1 \in DOMAIN s /\ t[g] = s[g - 1])
         /\ \A g \in DOMAIN s : g + 1 \in DOMAIN t /\ t[g + 1] = s[g]
<1>1. s \in Seq(Span) /\ <<f, to>> \in Span
  BY DEF Sorted, Span
<1>2. /\ t \in Seq(Span) /\ Len(t) = Len(s) + 1 /\ Len(s) \in Nat
      /\ DOMAIN t = 1..(Len(s) + 1) /\ DOMAIN s = 1..Len(s)
      /\ t[1] = <<f, to>> /\ \A i \in 1..Len(s) : t[i + 1] = s[i]
  BY <1>1, FrontOf
<1>3. ASSUME NEW g \in DOMAIN t, g # 1 PROVE g - 1 \in DOMAIN s /\ t[g] = s[g - 1]
  <2>1. g - 1 \in 1..Len(s) /\ g - 1 + 1 = g
    BY <1>2, <1>3
  <2> QED
    BY <1>2, <2>1
<1>4. \A g \in DOMAIN s : g + 1 \in DOMAIN t /\ t[g + 1] = s[g]
  BY <1>2
<1>5. t[1][1] = f /\ t[1][2] = to
  BY <1>2
<1>6. ASSUME NEW g \in DOMAIN s PROVE to < s[g][1]
  <2>1. 1 \in DOMAIN s /\ s # <<>> /\ (g = 1 \/ 1 < g)
    BY <1>2
  <2>2. s[1][2] < s[g][1] \/ g = 1
    BY <2>1 DEF Sorted
  <2>3. to < s[1][1] /\ s[1][1] < s[1][2]
    BY <2>1 DEF Sorted
  <2>4. s[1][1] \in Nat /\ s[1][2] \in Nat /\ s[g][1] \in Nat
    BY <1>1, <2>1, SpanOf
  <2> QED
    BY <2>2, <2>3, <2>4
<1>7. \A g \in DOMAIN t : t[g][1] < t[g][2]
  BY <1>3, <1>5 DEF Sorted
<1>8. ASSUME NEW g \in DOMAIN t, NEW h \in DOMAIN t, g < h PROVE t[g][2] < t[h][1]
  <2>1. h # 1 /\ h - 1 \in DOMAIN s /\ t[h] = s[h - 1]
    BY <1>2, <1>3, <1>8
  <2>2. CASE g = 1
    BY <1>5, <1>6, <2>1, <2>2
  <2>3. CASE g # 1
    <3>1. g - 1 \in DOMAIN s /\ t[g] = s[g - 1] /\ g - 1 < h - 1
      BY <1>2, <1>3, <1>8, <2>3
    <3> QED
      BY <2>1, <3>1 DEF Sorted
  <2> QED
    BY <2>2, <2>3
<1>9. t # <<>> /\ 1 \in DOMAIN t
  BY <1>2
<1> QED
  BY <1>2, <1>3, <1>4, <1>7, <1>8, <1>9 DEF Sorted

\* add_range: what was covered stays covered, and so is what is added.
LEMMA AddRangeOK ==
  ASSUME NEW s, Sorted(s), NEW f \in Nat, NEW to \in Nat, f < to, EndsAfter(s, to - 1),
         NEW t, t = AddRange(s, f, to)
  PROVE  /\ Sorted(t) /\ EndsAfter(t, to - 1) /\ StartsBy(t, f)
         /\ \A x \in Nat : StartsBy(s, x) => StartsBy(t, x)
         /\ \A x \in Nat : CoveredBy(s, x) \/ (f =< x /\ x < to) => CoveredBy(t, x)
<1>0. /\ s \in Seq(Span) /\ DOMAIN s = 1..Len(s) /\ Len(s) \in Nat
      /\ \A g \in DOMAIN s : s[g][1] \in Nat /\ s[g][2] \in Nat /\ g \in Nat /\ s[g][1] < s[g][2]
      /\ s # <<>> => 1 \in DOMAIN s
  BY SpanOf DEF Sorted
<1>1. CASE s # <<>> /\ s[1][1] =< to
  <2>l. PICK l, h : l = Lo(f, s[1][1]) /\ h = Hi(to, s[1][2])
    OBVIOUS
  <2>0. 1 \in DOMAIN s /\ s[1][1] \in Nat /\ s[1][2] \in Nat /\ s[1][1] < s[1][2]
    BY <1>0, <1>1
  <2>1. to =< s[1][2]
    <3>1. to - 1 < s[1][2]
      BY <2>0 DEF EndsAfter
    <3> QED
      BY <2>0, <3>1
  <2>2. /\ l \in Nat /\ h \in Nat /\ l < h /\ l =< f /\ l =< s[1][1] /\ h = s[1][2]
        /\ to =< h /\ to - 1 < h
    BY <2>0, <2>1, <2>l DEF Lo, Hi
  <2>3. t = << <<l, h>> >> \o Tail(s)
    BY <1>1, <2>l DEF AddRange
  <2>4. \A g \in DOMAIN s : g # 1 => h < s[g][1]
    <3> SUFFICES ASSUME NEW g \in DOMAIN s, g # 1 PROVE h < s[g][1]
      OBVIOUS
    <3>1. 1 < g
      BY <1>0
    <3> QED
      BY <2>0, <2>2, <3>1 DEF Sorted
  <2>5. /\ Sorted(t) /\ t # <<>> /\ DOMAIN t = DOMAIN s /\ 1 \in DOMAIN t /\ t[1] = <<l, h>>
        /\ \A g \in DOMAIN s : g # 1 => t[g] = s[g]
    <3>0. s # <<>> /\ l \in Nat /\ h \in Nat /\ l < h
      BY <1>1, <2>2
    <3>1. Sorted(t)
      BY <2>3, <2>4, <3>0, ReplaceSorted, Zenon
    <3>4. DOMAIN t = DOMAIN s
      BY <1>1, <2>2, <2>3, <2>4, ReplaceSorted
    <3>5. 1 \in DOMAIN t
      BY <2>0, <3>4
    <3>6. t # <<>>
      BY <3>5
    <3>2. t[1] = <<l, h>>
      BY <1>1, <2>2, <2>3, <2>4, ReplaceSorted
    <3>3. \A g \in DOMAIN s : g # 1 => t[g] = s[g]
      BY <1>1, <2>2, <2>3, <2>4, ReplaceSorted
    <3> QED
      BY <3>1, <3>2, <3>3, <3>4, <3>5, <3>6
  <2>6. t[1][1] = l /\ t[1][2] = h
    BY <2>5
  <2>7. EndsAfter(t, to - 1)
    BY <2>2, <2>5, <2>6 DEF EndsAfter
  <2>8. StartsBy(t, f) /\ \A x \in Nat : StartsBy(s, x) => StartsBy(t, x)
    BY <2>0, <2>2, <2>5, <2>6 DEF StartsBy
  <2>9. ASSUME NEW x \in Nat, CoveredBy(s, x) \/ (f =< x /\ x < to) PROVE CoveredBy(t, x)
    <3>1. CASE f =< x /\ x < to
      <4>1. l =< x /\ x < h
        BY <2>2, <3>1
      <4> QED
        BY <2>5, <2>6, <4>1 DEF CoveredBy
    <3>2. CASE CoveredBy(s, x)
      <4>1. PICK g \in DOMAIN s : s[g][1] =< x /\ x < s[g][2]
        BY <3>2 DEF CoveredBy
      <4>2. t[g][1] =< x /\ x < t[g][2]
        <5>1. CASE g = 1
          BY <2>0, <2>2, <2>6, <4>1, <5>1
        <5>2. CASE g # 1
          BY <2>5, <4>1, <5>2
        <5> QED
          BY <5>1, <5>2
      <4> QED
        BY <2>5, <4>2 DEF CoveredBy
    <3> QED
      BY <2>9, <3>1, <3>2
  <2> QED
    BY <2>5, <2>7, <2>8, <2>9
<1>2. CASE ~ (s # <<>> /\ s[1][1] =< to)
  <2>1. t = << <<f, to>> >> \o s
    BY <1>2 DEF AddRange
  <2>2. ASSUME s # <<>> PROVE to < s[1][1]
    <3>1. 1 \in DOMAIN s /\ ~ (s[1][1] =< to)
      BY <1>0, <1>2, <2>2
    <3> QED
      BY <1>0, <3>1
  <2>3. /\ Sorted(t) /\ t # <<>> /\ 1 \in DOMAIN t /\ t[1] = <<f, to>>
        /\ \A g \in DOMAIN t : g = 1 \/ (g - 1 \in DOMAIN s /\ t[g] = s[g - 1])
        /\ \A g \in DOMAIN s : g + 1 \in DOMAIN t /\ t[g + 1] = s[g]
    <3>1. Sorted(t) /\ 1 \in DOMAIN t
      BY <2>1, <2>2, FrontSorted, ZenonT(30)
    <3>5. t # <<>>
      BY <3>1
    <3>2. t[1] = <<f, to>>
      BY <2>1, <2>2, FrontSorted
    <3>3. \A g \in DOMAIN t : g = 1 \/ (g - 1 \in DOMAIN s /\ t[g] = s[g - 1])
      BY <2>1, <2>2, FrontSorted
    <3>4. \A g \in DOMAIN s : g + 1 \in DOMAIN t /\ t[g + 1] = s[g]
      BY <2>1, <2>2, FrontSorted
    <3> QED
      BY <3>1, <3>2, <3>3, <3>4, <3>5
  <2>4. t[1][1] = f /\ t[1][2] = to
    BY <2>3
  <2>5. EndsAfter(t, to - 1)
    <3> SUFFICES ASSUME NEW g \in DOMAIN t PROVE to - 1 < t[g][2]
      BY DEF EndsAfter
    <3> QED
      BY <2>3, <2>4 DEF EndsAfter
  <2>6. StartsBy(t, f) /\ \A x \in Nat : StartsBy(s, x) => StartsBy(t, x)
    <3>1. StartsBy(t, f)
      BY <2>3, <2>4 DEF StartsBy
    <3>2. ASSUME NEW x \in Nat, StartsBy(s, x) PROVE f =< x
      BY <1>0, <2>2, <3>2 DEF StartsBy
    <3> QED
      BY <2>3, <2>4, <3>1, <3>2 DEF StartsBy
  <2>7. ASSUME NEW x \in Nat, CoveredBy(s, x) \/ (f =< x /\ x < to) PROVE CoveredBy(t, x)
    <3>1. CASE f =< x /\ x < to
      BY <2>3, <2>4, <3>1 DEF CoveredBy
    <3>2. CASE CoveredBy(s, x)
      <4>1. PICK g \in DOMAIN s : s[g][1] =< x /\ x < s[g][2]
        BY <3>2 DEF CoveredBy
      <4>2. g + 1 \in DOMAIN t /\ t[g + 1][1] =< x /\ x < t[g + 1][2]
        BY <2>3, <4>1
      <4> QED
        BY <4>2 DEF CoveredBy
    <3> QED
      BY <2>7, <3>1, <3>2
  <2> QED
    BY <2>3, <2>5, <2>6, <2>7
<1> QED
  BY <1>1, <1>2

\* add_def: covered from the definition on as before, and at the definition.
LEMMA AddDefOK ==
  ASSUME NEW s, Sorted(s), NEW p \in Nat, EndsAfter(s, p), NEW t, t = AddDef(s, p)
  PROVE  /\ Sorted(t) /\ EndsAfter(t, p) /\ CoveredBy(t, p)
         /\ \A x \in Nat : p =< x /\ CoveredBy(s, x) => CoveredBy(t, x)
<1>0. /\ s \in Seq(Span) /\ DOMAIN s = 1..Len(s) /\ Len(s) \in Nat
      /\ \A g \in DOMAIN s : s[g][1] \in Nat /\ s[g][2] \in Nat /\ g \in Nat /\ s[g][1] < s[g][2]
      /\ s # <<>> => 1 \in DOMAIN s
  BY SpanOf DEF Sorted
<1>1. CASE s # <<>> /\ s[1][1] =< p
  <2>e. PICK e : e = s[1][2]
    OBVIOUS
  <2>1. 1 \in DOMAIN s /\ e \in Nat /\ p < e /\ <<p, e>> \in Span
    BY <1>0, <1>1, <2>e DEF EndsAfter, Span
  <2>2. t = [s EXCEPT ![1] = <<p, e>>]
    BY <1>1, <2>e DEF AddDef
  <2>3. /\ t \in Seq(Span) /\ DOMAIN t = DOMAIN s /\ t[1] = <<p, e>>
        /\ \A g \in DOMAIN s : g # 1 => t[g] = s[g]
    <3>1. 1 \in 1..Len(s)
      BY <1>0, <2>1
    <3>2. /\ [s EXCEPT ![1] = <<p, e>>] \in Seq(Span)
          /\ \A j \in 1 .. Len(s) : [s EXCEPT ![1] = <<p, e>>][j] = IF j = 1 THEN <<p, e>> ELSE s[j]
      BY <1>0, <2>1, <3>1, ExceptSeq
    <3>3. DOMAIN t = DOMAIN s
      BY <2>2
    <3> QED
      BY <1>0, <2>1, <2>2, <3>2, <3>3
  <2>4. t[1][1] = p /\ t[1][2] = e
    BY <2>3
  <2>5. \A g \in DOMAIN t : t[g][1] < t[g][2]
    BY <1>0, <2>1, <2>3, <2>4
  <2>6. ASSUME NEW g \in DOMAIN t, NEW h \in DOMAIN t, g < h PROVE t[g][2] < t[h][1]
    <3>1. h # 1 /\ t[h] = s[h] /\ t[g][2] = s[g][2]
      BY <1>0, <2>3, <2>4, <2>6, <2>e
    <3> QED
      BY <2>3, <2>6, <3>1 DEF Sorted
  <2>7. EndsAfter(t, p)
    BY <2>1, <2>3, <2>4 DEF EndsAfter
  <2>8. CoveredBy(t, p)
    BY <2>1, <2>3, <2>4 DEF CoveredBy
  <2>9. ASSUME NEW x \in Nat, p =< x, CoveredBy(s, x) PROVE CoveredBy(t, x)
    <3>1. PICK g \in DOMAIN s : s[g][1] =< x /\ x < s[g][2]
      BY <2>9 DEF CoveredBy
    <3>2. t[g][1] =< x /\ x < t[g][2]
      BY <2>3, <2>4, <2>9, <2>e, <3>1
    <3> QED
      BY <2>3, <3>2 DEF CoveredBy
  <2> QED
    BY <2>3, <2>5, <2>6, <2>7, <2>8, <2>9 DEF Sorted
<1>2. CASE ~ (s # <<>> /\ s[1][1] =< p)
  <2>1. t = AddRange(s, p, p + 1)
    BY <1>2 DEF AddDef
  <2>2. p + 1 \in Nat /\ p < p + 1 /\ p + 1 - 1 = p
    OBVIOUS
  <2>3. /\ Sorted(t) /\ EndsAfter(t, p + 1 - 1)
        /\ \A x \in Nat : CoveredBy(s, x) \/ (p =< x /\ x < p + 1) => CoveredBy(t, x)
    BY <2>1, <2>2, AddRangeOK
  <2> QED
    BY <2>2, <2>3
<1> QED
  BY <1>1, <1>2

\* handle_instruction, for one register: what begins at the start of the block goes
\* on doing so unless the instruction writes it, and an operand does.
LEMMA RangesAtOK ==
  ASSUME NEW r \in Reg, NEW insn, NEW u \in Nat, NEW f \in Nat, NEW s,
         s = ranges[r], Sorted(s), EndsAfter(s, u), f =< u,
         BeforeStart \in Nat, BeforeStart < u, CallerSave \subseteq Hard,
         NEW t, t = RangesAt(r, insn, u, f)
  PROVE  /\ Sorted(t) /\ EndsAfter(t, u - 1)
         /\ \A x \in Nat : u =< x /\ CoveredBy(s, x) => CoveredBy(t, x)
         /\ r \in Written(insn) => CoveredBy(t, u)
         /\ r \in insn.in \/ (r \notin insn.out /\ StartsBy(s, BeforeStart)) =>
              StartsBy(t, BeforeStart)
<1>n. PICK bs \in Nat : bs = BeforeStart
  OBVIOUS
<1>c. PICK called : called = IF insn.kind = "call" /\ r \in CallerSave
                             THEN AddRange(s, f, u + 1) ELSE s
  OBVIOUS
<1>d. PICK defined : defined = IF r \in insn.out THEN AddDef(called, u) ELSE called
  OBVIOUS
<1>t. t = IF r \in insn.in THEN AddRange(defined, bs, u) ELSE defined
  BY <1>n, <1>c, <1>d DEF RangesAt
<1>1. /\ Sorted(called) /\ EndsAfter(called, u)
      /\ \A x \in Nat : CoveredBy(s, x) => CoveredBy(called, x)
      /\ insn.kind = "call" /\ r \in CallerSave => CoveredBy(called, u)
      /\ StartsBy(s, bs) => StartsBy(called, bs)
  <2>1. CASE insn.kind = "call" /\ r \in CallerSave
    <3>1. called = AddRange(s, f, u + 1)
      BY <1>c, <2>1
    <3>2. u + 1 \in Nat /\ f < u + 1 /\ u + 1 - 1 = u /\ u < u + 1
      OBVIOUS
    <3>3. EndsAfter(s, u + 1 - 1)
      BY <3>2
    <3>4. /\ Sorted(called) /\ EndsAfter(called, u + 1 - 1)
          /\ \A x \in Nat : StartsBy(s, x) => StartsBy(called, x)
          /\ \A x \in Nat : CoveredBy(s, x) \/ (f =< x /\ x < u + 1) => CoveredBy(called, x)
      BY <3>1, <3>2, <3>3, AddRangeOK
    <3> QED
      BY <3>2, <3>4
  <2>2. CASE ~ (insn.kind = "call" /\ r \in CallerSave)
    BY <1>c, <2>2
  <2> QED
    BY <2>1, <2>2
<1>2. /\ Sorted(defined) /\ EndsAfter(defined, u)
      /\ \A x \in Nat : u =< x /\ CoveredBy(s, x) => CoveredBy(defined, x)
      /\ r \in Written(insn) => CoveredBy(defined, u)
      /\ r \notin insn.out /\ StartsBy(s, bs) => StartsBy(defined, bs)
  <2>1. CASE r \in insn.out
    <3>1. defined = AddDef(called, u)
      BY <1>d, <2>1
    <3>2. /\ Sorted(defined) /\ EndsAfter(defined, u) /\ CoveredBy(defined, u)
          /\ \A x \in Nat : u =< x /\ CoveredBy(called, x) => CoveredBy(defined, x)
      BY <1>1, <3>1, AddDefOK
    <3> QED
      BY <1>1, <2>1, <3>2
  <2>2. CASE r \notin insn.out
    <3>1. defined = called
      BY <1>d, <2>2
    <3>2. r \in Written(insn) => insn.kind = "call" /\ r \in CallerSave
      BY <2>2 DEF Written
    <3> QED
      BY <1>1, <2>2, <3>1, <3>2
  <2> QED
    BY <2>1, <2>2
<1>3. CASE r \in insn.in
  <2>1. t = AddRange(defined, bs, u)
    BY <1>t, <1>3
  <2>2. EndsAfter(defined, u - 1)
    <3>1. \A g \in DOMAIN defined : defined[g][2] \in Nat
      BY <1>2, SpanOf DEF Sorted
    <3> QED
      BY <1>2, <3>1 DEF EndsAfter
  <2>3. /\ Sorted(t) /\ EndsAfter(t, u - 1) /\ StartsBy(t, bs)
        /\ \A x \in Nat : CoveredBy(defined, x) \/ (bs =< x /\ x < u) => CoveredBy(t, x)
    BY <1>2, <1>n, <2>1, <2>2, AddRangeOK
  <2> QED
    BY <1>2, <1>n, <2>3
<1>4. CASE r \notin insn.in
  <2>1. t = defined
    BY <1>t, <1>4
  <2>2. EndsAfter(t, u - 1)
    <3>1. \A g \in DOMAIN defined : defined[g][2] \in Nat
      BY <1>2, SpanOf DEF Sorted
    <3> QED
      BY <1>2, <2>1, <3>1 DEF EndsAfter
  <2> QED
    BY <1>2, <1>4, <1>n, <2>1, <2>2
<1> QED
  BY <1>3, <1>4

-----------------------------------------------------------------------------
\* The function Intersects is written with, and what it computes on a sorted list.
ScanDef(f, s, b, e) ==
  f = [i \in 1..(Len(s) + 1) |->
        IF i > Len(s) THEN FALSE
        ELSE IF s[i][1] < b THEN IF s[i][2] =< b THEN f[i + 1] ELSE TRUE
        ELSE IF b < s[i][1] THEN s[i][1] < e
        ELSE IF s[i][1] = s[i][2] THEN f[i + 1] ELSE b # e]

OverlapFrom(s, i, b, e) == \E g \in DOMAIN s : i =< g /\ Overlap(s[g][1], s[g][2], b, e)

\* Whether a range overlaps with one of a sorted list is seen at its first
\* range, or at its first range shows nothing.
LEMMA OverlapSteps ==
  ASSUME NEW s, Sorted(s), NEW b \in Nat, NEW e \in Nat, b =< e, NEW i \in 1..Len(s)
  PROVE  /\ s[i][1] < b /\ s[i][2] =< b => (OverlapFrom(s, i, b, e) <=> OverlapFrom(s, i + 1, b, e))
         /\ s[i][1] < b /\ ~ (s[i][2] =< b) => OverlapFrom(s, i, b, e)
         /\ b < s[i][1] => (OverlapFrom(s, i, b, e) <=> s[i][1] < e)
         /\ ~ (s[i][1] < b) /\ ~ (b < s[i][1]) => (OverlapFrom(s, i, b, e) <=> b # e)
         /\ s[i][1] # s[i][2]
<1>0. /\ s \in Seq(Span) /\ DOMAIN s = 1..Len(s) /\ Len(s) \in Nat /\ i \in DOMAIN s
      /\ \A g \in DOMAIN s : s[g][1] \in Nat /\ s[g][2] \in Nat /\ g \in Nat /\ s[g][1] < s[g][2]
  BY SpanOf DEF Sorted
<1>1. \A g \in DOMAIN s : i =< g => g = i \/ (i + 1 =< g /\ i < g)
  BY <1>0
<1>2. \A g \in DOMAIN s : i + 1 =< g => i =< g
  BY <1>0
<1>3. \A g \in DOMAIN s : i < g => s[i][2] < s[g][1]
  BY <1>0 DEF Sorted
<1>4. ASSUME s[i][1] < b, s[i][2] =< b
      PROVE  OverlapFrom(s, i, b, e) <=> OverlapFrom(s, i + 1, b, e)
  <2>1. ~ Overlap(s[i][1], s[i][2], b, e)
    BY <1>0, <1>4 DEF Overlap
  <2> QED
    BY <1>0, <1>1, <1>2, <2>1 DEF OverlapFrom
<1>5. ASSUME s[i][1] < e, b < s[i][2] PROVE OverlapFrom(s, i, b, e)
  BY <1>0, <1>5 DEF OverlapFrom, Overlap
<1>6. ASSUME e =< s[i][1] PROVE ~ OverlapFrom(s, i, b, e)
  <2> SUFFICES ASSUME NEW g \in DOMAIN s, i =< g, s[g][1] < e PROVE FALSE
    BY DEF OverlapFrom, Overlap
  <2>1. g # i
    BY <1>0, <1>6
  <2>2. s[i][2] < s[g][1]
    BY <1>1, <1>3, <2>1
  <2> QED
    BY <1>0, <1>6, <2>2
<1>7. b < s[i][1] => (OverlapFrom(s, i, b, e) <=> s[i][1] < e)
  <2> SUFFICES ASSUME b < s[i][1] PROVE OverlapFrom(s, i, b, e) <=> s[i][1] < e
    OBVIOUS
  <2>1. b < s[i][2] /\ (s[i][1] < e \/ e =< s[i][1]) /\ ~ (s[i][1] < e /\ e =< s[i][1])
    BY <1>0
  <2> QED
    BY <1>5, <1>6, <2>1
<1>8. ~ (s[i][1] < b) /\ ~ (b < s[i][1]) => (OverlapFrom(s, i, b, e) <=> b # e)
  <2> SUFFICES ASSUME ~ (s[i][1] < b), ~ (b < s[i][1]) PROVE OverlapFrom(s, i, b, e) <=> b # e
    OBVIOUS
  <2>1. /\ b < s[i][2] /\ (b # e => s[i][1] < e) /\ (b = e => e =< s[i][1])
    BY <1>0
  <2> QED
    BY <1>5, <1>6, <2>1
<1>9. s[i][1] < b /\ ~ (s[i][2] =< b) => s[i][1] < e /\ b < s[i][2]
  BY <1>0
<1> QED
  BY <1>0, <1>4, <1>5, <1>7, <1>8, <1>9

\* The recursive function in intersects_at's model has a value: overlap from a place on
\* satisfies its equation.
LEMMA ScanExists ==
  ASSUME NEW s, Sorted(s), NEW b \in Nat, NEW e \in Nat, b =< e
  PROVE  \E f : ScanDef(f, s, b, e)
<1> DEFINE f == [i \in 1..(Len(s) + 1) |-> OverlapFrom(s, i, b, e)]
           h == [i \in 1..(Len(s) + 1) |->
                  IF i > Len(s) THEN FALSE
                  ELSE IF s[i][1] < b THEN IF s[i][2] =< b THEN f[i + 1] ELSE TRUE
                  ELSE IF b < s[i][1] THEN s[i][1] < e
                  ELSE IF s[i][1] = s[i][2] THEN f[i + 1] ELSE b # e]
<1>0. s \in Seq(Span) /\ DOMAIN s = 1..Len(s) /\ Len(s) \in Nat
  BY SpanOf DEF Sorted
<1>1. ASSUME NEW i \in 1..(Len(s) + 1) PROVE f[i] = h[i]
  <2>1. CASE i > Len(s)
    <3>1. ~ OverlapFrom(s, i, b, e)
      BY <1>0, <2>1 DEF OverlapFrom
    <3>2. f[i] = FALSE
      BY <3>1 DEF OverlapFrom
    <3>3. h[i] = FALSE
      BY <2>1
    <3> QED
      BY <3>2, <3>3
  <2>2. CASE ~ (i > Len(s))
    <3>1. i \in 1..Len(s) /\ i + 1 \in 1..(Len(s) + 1)
      BY <1>0, <2>2
    <3>2. f[i + 1] = OverlapFrom(s, i + 1, b, e) /\ f[i] = OverlapFrom(s, i, b, e)
      BY <3>1
    <3>3. f[i + 1] \in BOOLEAN /\ f[i] \in BOOLEAN /\ (s[i][1] < e) \in BOOLEAN
      <4>1. OverlapFrom(s, i + 1, b, e) \in BOOLEAN /\ OverlapFrom(s, i, b, e) \in BOOLEAN
        BY Zenon DEF OverlapFrom
      <4>2. (s[i][1] < e) \in BOOLEAN
        OBVIOUS
      <4> HIDE DEF f
      <4> QED
        BY <3>2, <4>1, <4>2, Zenon
    <3>4. /\ s[i][1] < b /\ s[i][2] =< b => (f[i] <=> f[i + 1])
          /\ s[i][1] < b /\ ~ (s[i][2] =< b) => f[i]
          /\ b < s[i][1] => (f[i] <=> s[i][1] < e)
          /\ ~ (s[i][1] < b) /\ ~ (b < s[i][1]) => (f[i] <=> b # e)
          /\ s[i][1] # s[i][2]
      <4> HIDE DEF f
      <4> QED
        BY <3>1, <3>2, OverlapSteps
    <3>5. h[i] = IF s[i][1] < b THEN IF s[i][2] =< b THEN f[i + 1] ELSE TRUE
                 ELSE IF b < s[i][1] THEN s[i][1] < e
                 ELSE IF s[i][1] = s[i][2] THEN f[i + 1] ELSE b # e
      BY <2>2
    <3> HIDE DEF f, h
    <3>6. CASE s[i][1] < b /\ s[i][2] =< b
      BY <3>3, <3>4, <3>5, <3>6, Zenon
    <3>7. CASE s[i][1] < b /\ ~ (s[i][2] =< b)
      BY <3>3, <3>4, <3>5, <3>7, Zenon
    <3>8. CASE ~ (s[i][1] < b) /\ b < s[i][1]
      BY <3>3, <3>4, <3>5, <3>8, Zenon
    <3>9. CASE ~ (s[i][1] < b) /\ ~ (b < s[i][1])
      BY <3>3, <3>4, <3>5, <3>9, Zenon
    <3> QED
      BY <3>6, <3>7, <3>8, <3>9, Zenon
  <2> QED
    BY <2>1, <2>2
<1>2. f = h
  <2>1. f = [i \in 1..(Len(s) + 1) |-> f[i]] /\ h = [i \in 1..(Len(s) + 1) |-> h[i]]
    OBVIOUS
  <2> HIDE DEF f, h
  <2> QED
    BY <1>1, <2>1, Zenon
<1> QED
  BY <1>2 DEF ScanDef

\* intersects_at, on a sorted list, finds an overlap if there is one.
LEMMA IntersectsOK ==
  ASSUME NEW s, Sorted(s), NEW b \in Nat, NEW e \in Nat, b =< e
  PROVE  Intersects(s, b, e) <=> \E g \in DOMAIN s : Overlap(s[g][1], s[g][2], b, e)
<1> DEFINE f == CHOOSE g : ScanDef(g, s, b, e)
<1>0. s \in Seq(Span) /\ DOMAIN s = 1..Len(s) /\ Len(s) \in Nat
  BY SpanOf DEF Sorted
<1>1. Intersects(s, b, e) = f[1]
  BY DEF Intersects, ScanDef
<1>2. ScanDef(f, s, b, e)
  BY ScanExists
<1> HIDE DEF f
<1> DEFINE T == {d \in Nat : d =< Len(s) /\ ~ (f[Len(s) + 1 - d] <=> OverlapFrom(s, Len(s) + 1 - d, b, e))}
<1>3. T = {}
  <2> SUFFICES ASSUME T # {} PROVE FALSE
    OBVIOUS
  <2>1. PICK d \in T : d \in Nat /\ \A m \in T : d =< m
    <3>1. T \subseteq Nat
      OBVIOUS
    <3> HIDE DEF T
    <3> QED
      BY <3>1, Smallest
  <2>2. PICK i \in 1..(Len(s) + 1) : i = Len(s) + 1 - d
    BY <1>0
  <2>3. ~ (f[i] <=> OverlapFrom(s, i, b, e))
    BY <2>1, <2>2
  <2>4. f[i] = IF i > Len(s) THEN FALSE
               ELSE IF s[i][1] < b THEN IF s[i][2] =< b THEN f[i + 1] ELSE TRUE
               ELSE IF b < s[i][1] THEN s[i][1] < e
               ELSE IF s[i][1] = s[i][2] THEN f[i + 1] ELSE b # e
    BY <1>2 DEF ScanDef
  <2>5. CASE i > Len(s)
    <3>1. ~ OverlapFrom(s, i, b, e)
      BY <1>0, <2>5 DEF OverlapFrom
    <3> QED
      BY <2>3, <2>4, <2>5, <3>1
  <2>6. CASE ~ (i > Len(s))
    <3>1. i \in 1..Len(s)
      BY <1>0, <2>6
    <3>2. f[i + 1] <=> OverlapFrom(s, i + 1, b, e)
      <4>1. d - 1 \in Nat /\ d - 1 =< Len(s) /\ Len(s) + 1 - (d - 1) = i + 1 /\ ~ (d =< d - 1)
        BY <1>0, <2>1, <2>2, <3>1
      <4>2. d - 1 \notin T
        <5> HIDE DEF T
        <5> QED
          BY <2>1, <4>1
      <4> QED
        BY <4>1, <4>2
    <3>3. /\ s[i][1] < b /\ s[i][2] =< b => (OverlapFrom(s, i, b, e) <=> OverlapFrom(s, i + 1, b, e))
          /\ s[i][1] < b /\ ~ (s[i][2] =< b) => OverlapFrom(s, i, b, e)
          /\ b < s[i][1] => (OverlapFrom(s, i, b, e) <=> s[i][1] < e)
          /\ ~ (s[i][1] < b) /\ ~ (b < s[i][1]) => (OverlapFrom(s, i, b, e) <=> b # e)
          /\ s[i][1] # s[i][2]
      BY <3>1, OverlapSteps
    <3> QED
      BY <2>3, <2>4, <2>6, <3>2, <3>3, Zenon
  <2> QED
    BY <2>5, <2>6
<1>4. f[1] <=> OverlapFrom(s, 1, b, e)
  <2>1. Len(s) \in Nat /\ Len(s) =< Len(s) /\ Len(s) + 1 - Len(s) = 1
    BY <1>0
  <2>2. Len(s) \notin T
    BY <1>3
  <2> QED
    BY <2>1, <2>2
<1>5. OverlapFrom(s, 1, b, e) <=> \E g \in DOMAIN s : Overlap(s[g][1], s[g][2], b, e)
  <2>1. \A g \in DOMAIN s : 1 =< g
    BY <1>0
  <2> QED
    BY <2>1 DEF OverlapFrom
<1> QED
  BY <1>1, <1>4, <1>5

-----------------------------------------------------------------------------
\* The numbers of the first n blocks.
NumbersUpTo(f, n) ==
  /\ f \in [1..n -> Nat \ {0}] /\ f[1] = 1
  /\ \A j \in 2..n : f[j] = f[j - 1] + Len(code[rpo[j - 1]])

NumbersDef(f) ==
  f = [j \in 1..(Len(rpo) + 1) |-> IF j = 1 THEN 1 ELSE f[j - 1] + Len(code[rpo[j - 1]])]

\* They can be given, one block after the other.
LEMMA NumbersExist ==
  ASSUME rpo \in Seq(Block), code \in [Block -> Seq(Insn)]
  PROVE  \E f : NumbersUpTo(f, Len(rpo) + 1)
<1>0. Len(rpo) \in Nat /\ \A j \in 1..Len(rpo) : Len(code[rpo[j]]) \in Nat
  <2>1. Len(rpo) \in Nat /\ \A j \in 1..Len(rpo) : rpo[j] \in Block
    BY LenProperties, ElementOfSeq
  <2>2. \A b \in Block : Len(code[b]) \in Nat
    BY LenProperties
  <2> QED
    BY <2>1, <2>2
<1> DEFINE T == {n \in Nat : 1 =< n /\ n =< Len(rpo) + 1 /\ ~ (\E f : NumbersUpTo(f, n))}
<1>1. T = {}
  <2> SUFFICES ASSUME T # {} PROVE FALSE
    OBVIOUS
  <2>1. PICK n \in T : n \in Nat /\ \A m \in T : n =< m
    <3>1. T \subseteq Nat
      OBVIOUS
    <3> HIDE DEF T
    <3> QED
      BY <3>1, Smallest
  <2>2. CASE n = 1
    <3> DEFINE f == [j \in 1..1 |-> 1]
    <3>1. f \in [1..1 -> Nat \ {0}] /\ f[1] = 1 /\ \A j \in 2..1 : FALSE
      OBVIOUS
    <3>2. NumbersUpTo(f, 1)
      BY <3>1 DEF NumbersUpTo
    <3> QED
      BY <2>1, <2>2, <3>2
  <2>3. CASE n # 1
    <3>1. PICK o \in Nat : n = o + 1 /\ 1 =< o /\ o =< Len(rpo)
      <4>1. n - 1 \in Nat /\ n = n - 1 + 1 /\ 1 =< n - 1 /\ n - 1 =< Len(rpo)
        BY <1>0, <2>1, <2>3
      <4> QED
        BY <4>1
    <3>2. PICK g : NumbersUpTo(g, o)
      <4>1. o \notin T
        <5> HIDE DEF T
        <5> QED
          BY <2>1, <3>1
      <4> QED
        BY <1>0, <3>1, <4>1
    <3>3. /\ g \in [1..o -> Nat \ {0}] /\ g[1] = 1
          /\ \A j \in 2..o : g[j] = g[j - 1] + Len(code[rpo[j - 1]])
      BY <3>2 DEF NumbersUpTo
    <3>c. PICK c \in Nat : c = Len(code[rpo[o]])
      BY <1>0, <3>1
    <3> DEFINE f == [j \in 1..(o + 1) |-> IF j = o + 1 THEN g[o] + c ELSE g[j]]
    <3>4. g[o] \in Nat \ {0}
      BY <3>1, <3>3
    <3>5. f \in [1..(o + 1) -> Nat \ {0}] /\ f[1] = 1
      BY <3>1, <3>3, <3>4
    <3>6. ASSUME NEW j \in 2..(o + 1) PROVE f[j] = f[j - 1] + Len(code[rpo[j - 1]])
      <4>1. CASE j = o + 1
        <5>1. j - 1 = o /\ f[j] = g[o] + c /\ f[o] = g[o]
          BY <3>1, <4>1
        <5> QED
          BY <3>c, <5>1
      <4>2. CASE j # o + 1
        <5>1. j \in 2..o /\ f[j] = g[j] /\ f[j - 1] = g[j - 1]
          BY <3>1, <4>2
        <5> QED
          BY <3>3, <5>1
      <4> QED
        BY <4>1, <4>2
    <3>7. NumbersUpTo(f, o + 1)
      <4> HIDE DEF f
      <4> QED
        BY <3>5, <3>6 DEF NumbersUpTo
    <3> QED
      BY <2>1, <3>1, <3>7
  <2> QED
    BY <2>2, <2>3
<1>2. Len(rpo) + 1 \in Nat /\ 1 =< Len(rpo) + 1 /\ Len(rpo) + 1 =< Len(rpo) + 1
  BY <1>0
<1>3. Len(rpo) + 1 \notin T
  BY <1>1
<1> QED
  BY <1>2, <1>3

\* The first instruction of every block has a number, one more entry gives the
\* number after the last, and the numbers grow along the order.
NumbersOK(f) ==
  /\ f \in [1..(Len(rpo) + 1) -> Nat \ {0}] /\ f[1] = 1
  /\ \A j \in 1..Len(rpo) : f[j + 1] = f[j] + Len(code[rpo[j]])
  /\ \A i, j \in 1..(Len(rpo) + 1) : i =< j => f[i] =< f[j]

\* The numbers LinearNumbers gives are increasing along the order.
LEMMA LinearNumbersOK ==
  ASSUME rpo \in Seq(Block), code \in [Block -> Seq(Insn)]
  PROVE  NumbersOK(LinearNumbers)
<1>0. Len(rpo) \in Nat /\ \A j \in 1..Len(rpo) : Len(code[rpo[j]]) \in Nat
  <2>1. Len(rpo) \in Nat /\ \A j \in 1..Len(rpo) : rpo[j] \in Block
    BY LenProperties, ElementOfSeq
  <2>2. \A b \in Block : Len(code[b]) \in Nat
    BY LenProperties
  <2> QED
    BY <2>1, <2>2
<1>1. PICK g : NumbersUpTo(g, Len(rpo) + 1)
  BY NumbersExist
<1>2. \A j \in 1..(Len(rpo) + 1) : j = 1 \/ (j \in 2..(Len(rpo) + 1))
  BY <1>0
<1>3. NumbersDef(g)
  <2> DEFINE h == [j \in 1..(Len(rpo) + 1) |-> IF j = 1 THEN 1 ELSE g[j - 1] + Len(code[rpo[j - 1]])]
  <2>1. \A j \in 1..(Len(rpo) + 1) : g[j] = h[j]
    BY <1>1, <1>2 DEF NumbersUpTo
  <2>2. g = [j \in 1..(Len(rpo) + 1) |-> g[j]] /\ h = [j \in 1..(Len(rpo) + 1) |-> h[j]]
    BY <1>1 DEF NumbersUpTo
  <2>3. g = h
    <3> HIDE DEF h
    <3> QED
      BY <2>1, <2>2, Zenon
  <2> QED
    BY <2>3 DEF NumbersDef
<1> DEFINE f == LinearNumbers
<1>4. NumbersDef(f)
  <2>1. LinearNumbers = CHOOSE x : NumbersDef(x)
    BY DEF LinearNumbers, NumbersDef
  <2> QED
    BY <1>3, <2>1
<1> HIDE DEF f
<1>5. DOMAIN f = 1..(Len(rpo) + 1) /\ f[1] = 1
  BY <1>0, <1>4 DEF NumbersDef
<1>6. ASSUME NEW j \in 1..Len(rpo) PROVE f[j + 1] = f[j] + Len(code[rpo[j]])
  <2>1. j + 1 \in 1..(Len(rpo) + 1) /\ j + 1 # 1 /\ j + 1 - 1 = j
    BY <1>0
  <2> QED
    BY <1>4, <2>1 DEF NumbersDef
<1>7. \A j \in 1..(Len(rpo) + 1) : f[j] \in Nat \ {0}
  <2> DEFINE T == {j \in Nat : j \in 1..(Len(rpo) + 1) /\ f[j] \notin Nat \ {0}}
  <2> SUFFICES ASSUME T # {} PROVE FALSE
    OBVIOUS
  <2>1. PICK n \in T : n \in Nat /\ \A m \in T : n =< m
    <3>1. T \subseteq Nat
      OBVIOUS
    <3> HIDE DEF T
    <3> QED
      BY <3>1, Smallest
  <2>2. n # 1
    BY <1>5
  <2>3. n - 1 \in 1..Len(rpo) /\ n - 1 + 1 = n /\ n - 1 \in 1..(Len(rpo) + 1) /\ ~ (n =< n - 1)
    BY <1>0, <2>1, <2>2
  <2>4. f[n - 1] \in Nat \ {0}
    <3>1. n - 1 \notin T
      <4> HIDE DEF T
      <4> QED
        BY <2>1, <2>3
    <3> QED
      BY <2>3, <3>1
  <2>5. f[n] = f[n - 1] + Len(code[rpo[n - 1]])
    BY <1>6, <2>3
  <2>6. f[n] \in Nat \ {0}
    BY <1>0, <2>3, <2>4, <2>5
  <2> QED
    BY <2>6
<1>8. f \in [1..(Len(rpo) + 1) -> Nat \ {0}]
  <2>1. f = [j \in 1..(Len(rpo) + 1) |-> f[j]]
    BY <1>4, <1>5 DEF NumbersDef
  <2> QED
    BY <1>7, <2>1
<1>9. ASSUME NEW i \in 1..(Len(rpo) + 1), NEW j \in 1..(Len(rpo) + 1), i =< j PROVE f[i] =< f[j]
  <2> DEFINE T == {m \in Nat : i =< m /\ m \in 1..(Len(rpo) + 1) /\ ~ (f[i] =< f[m])}
  <2> SUFFICES ASSUME T # {} PROVE FALSE
    BY <1>9
  <2>1. PICK n \in T : n \in Nat /\ \A m \in T : n =< m
    <3>1. T \subseteq Nat
      OBVIOUS
    <3> HIDE DEF T
    <3> QED
      BY <3>1, Smallest
  <2>2. n # i
    BY <1>7
  <2>3. n - 1 \in 1..Len(rpo) /\ n - 1 + 1 = n /\ n - 1 \in 1..(Len(rpo) + 1) /\ i =< n - 1 /\ ~ (n =< n - 1)
    BY <1>0, <2>1, <2>2
  <2>4. f[i] =< f[n - 1]
    <3>1. n - 1 \notin T
      <4> HIDE DEF T
      <4> QED
        BY <2>1, <2>3
    <3> QED
      BY <2>3, <3>1
  <2>5. f[n] = f[n - 1] + Len(code[rpo[n - 1]])
    BY <1>6, <2>3
  <2>6. f[i] =< f[n]
    <3>1. Len(code[rpo[n - 1]]) \in Nat /\ f[n - 1] \in Nat /\ f[i] \in Nat
      BY <1>0, <1>7, <2>3
    <3> QED
      BY <2>4, <2>5, <3>1
  <2> QED
    BY <2>6
<1> QED
  BY <1>5, <1>6, <1>8, <1>9 DEF NumbersOK, f

-----------------------------------------------------------------------------
\* A point of time: after instruction m of the j-th block.
Time(j, m) == firstUid[j] + m - 1

\* What the walk, which comes from the end of the code, has behind it.
GapPast(j, m) ==
  \/ phase \in {"end", "done"} \/ wb < j
  \/ phase = "insn" /\ j = wb /\ wk =< m
InsnPast(j, i) ==
  \/ phase \in {"end", "done"} \/ wb < j
  \/ phase = "insn" /\ j = wb /\ wk < i

\* Where it is.
Front == IF phase = "leave" THEN firstUid[wb + 1] - 1 ELSE firstUid[wb] + wk - 1

NumbersGiven ==
  /\ phase \in {"live", "leave", "insn", "end", "done"}
  /\ phase = "live" => firstUid = <<>> /\ \A r \in Reg : usePos[r] = <<>>
  /\ phase # "live" => pc = "done" /\ NumbersOK(firstUid) /\ wb \in 1..Len(rpo)
  /\ phase \in {"leave", "insn"} => AfterEnd = firstUid[wb + 1]
  /\ phase = "insn" => wk \in 0..Len(code[Block_])

ListsOK ==
  /\ lrBegin \in [Reg -> Nat] /\ lrEnd \in [Reg -> Nat]
  /\ ranges \in [Reg -> Seq(Span)] /\ usePos \in [Reg -> Seq(Nat)]
  /\ \A r \in Reg : Sorted(ranges[r])
  /\ phase \in {"leave", "insn"} => \A r \in Reg : EndsAfter(ranges[r], Front)

\* A point behind the walk at which a register is live is covered; the beginning
\* of the single life range may still be to come, in the same block.
CoverOK ==
  \A j \in DOMAIN rpo : \A m \in 0..Len(code[rpo[j]]) : \A r \in point[rpo[j]][m] :
    phase # "live" /\ GapPast(j, m) =>
      /\ CoveredBy(ranges[r], Time(j, m)) /\ Time(j, m) < lrEnd[r]
      /\ \/ lrBegin[r] =< Time(j, m)
         \/ phase = "insn" /\ j = wb /\ r \in point[rpo[j]][wk]

\* What is live at the current point has a range from the start of the block.
OpenOK == phase = "insn" => \A r \in point[rpo[wb]][wk] : StartsBy(ranges[r], BeforeStart)

\* An instruction behind the walk is in the ranges of what it writes or destroys.
WrittenOK ==
  \A j \in DOMAIN rpo : \A i \in DOMAIN code[rpo[j]] : \A r \in Written(code[rpo[j]][i]) :
    phase # "live" /\ InsnPast(j, i) =>
      /\ CoveredBy(ranges[r], Uid(j, i))
      /\ r \notin Hard => lrBegin[r] =< Uid(j, i) /\ Uid(j, i) =< lrEnd[r]

\* use_pos has the instructions behind the walk that name the register.
Names(insn, r) == r \in insn.out \/ r \in insn.in
UsesOK ==
  \A r \in Reg :
    /\ \A m, n \in DOMAIN usePos[r] : m < n => usePos[r][n] =< usePos[r][m]
    /\ phase # "live" =>
         /\ \A n \in DOMAIN usePos[r] : \E j \in DOMAIN rpo : \E i \in DOMAIN code[rpo[j]] :
              InsnPast(j, i) /\ Names(code[rpo[j]][i], r) /\ usePos[r][n] = Uid(j, i)
         /\ \A j \in DOMAIN rpo : \A i \in DOMAIN code[rpo[j]] :
              InsnPast(j, i) /\ Names(code[rpo[j]][i], r) =>
                \E n \in DOMAIN usePos[r] : usePos[r][n] = Uid(j, i)

IntervalInv == NumbersGiven /\ ListsOK /\ CoverOK /\ OpenOK /\ WrittenOK /\ UsesOK

\* What the rounds have left.
LEMMA Left ==
  ASSUME Inv, WalkInv, pc = "done"
  PROVE  /\ rpo \in Seq(Block) /\ code \in [Block -> Seq(Insn)] /\ Len(rpo) \in Nat
         /\ DOMAIN rpo = 1..Len(rpo) /\ 1 \in 1..Len(rpo) /\ Len(rpo) \in 1..Len(rpo)
         /\ \A j \in 1..Len(rpo) :
              /\ rpo[j] \in Block /\ code[rpo[j]] \in Seq(Insn) /\ Len(code[rpo[j]]) \in Nat
              /\ DOMAIN code[rpo[j]] = 1..Len(code[rpo[j]])
              /\ code[rpo[j]] = <<>> <=> Len(code[rpo[j]]) = 0
<1>1. rpo \in Seq(Block) /\ code \in [Block -> Seq(Insn)] /\ rpo # <<>>
  BY DEF Inv, TypeOK, OrderTypeOK, WalkInv, OnceOK
<1>2. Len(rpo) \in Nat \ {0} /\ DOMAIN rpo = 1..Len(rpo)
  BY <1>1, LenProperties, EmptySeq
<1>3. ASSUME NEW j \in 1..Len(rpo)
      PROVE  /\ rpo[j] \in Block /\ code[rpo[j]] \in Seq(Insn) /\ Len(code[rpo[j]]) \in Nat
             /\ DOMAIN code[rpo[j]] = 1..Len(code[rpo[j]])
             /\ code[rpo[j]] = <<>> <=> Len(code[rpo[j]]) = 0
  <2>1. rpo[j] \in Block
    BY <1>1, ElementOfSeq
  <2>2. PICK c \in Seq(Insn) : c = code[rpo[j]]
    BY <1>1, <2>1
  <2>3. Len(c) \in Nat /\ DOMAIN c = 1..Len(c)
    BY LenProperties
  <2>4. c = <<>> <=> Len(c) = 0
    <3>1. c # <<>> => Len(c) \in Nat \ {0}
      BY EmptySeq
    <3>2. c = <<>> => Len(c) = 0
      BY EmptySeq
    <3> QED
      BY <3>1, <3>2
  <2> QED
    BY <2>1, <2>2, <2>3, <2>4
<1> QED
  BY <1>1, <1>2, <1>3

\* What an instruction names and destroys are registers, and so is what is live.
LEMMA LeftSets ==
  ASSUME Inv, WalkInv, pc = "done", NEW j \in 1..Len(rpo)
  PROVE  /\ \A i \in 1..Len(code[rpo[j]]) :
              /\ code[rpo[j]][i].in \subseteq Reg /\ code[rpo[j]][i].out \subseteq Reg
              /\ Written(code[rpo[j]][i]) \subseteq Reg
              /\ point[rpo[j]][i] \subseteq point[rpo[j]][i - 1] \cup code[rpo[j]][i].out
              /\ point[rpo[j]][i - 1] \subseteq point[rpo[j]][i] \cup code[rpo[j]][i].in
              /\ \A r \in point[rpo[j]][i - 1] :
                   r \in code[rpo[j]][i].in \/ (r \in point[rpo[j]][i] /\ r \notin code[rpo[j]][i].out)
         /\ \A m \in 0..Len(code[rpo[j]]) : point[rpo[j]][m] \subseteq Reg
         /\ point[rpo[j]][Len(code[rpo[j]])] = liveout[rpo[j]]
         /\ point[rpo[j]][0] \subseteq livein[rpo[j]] /\ livein[rpo[j]] \subseteq Reg
<1>1. /\ rpo[j] \in Block /\ code[rpo[j]] \in Seq(Insn) /\ j \in DOMAIN rpo
      /\ DOMAIN code[rpo[j]] = 1..Len(code[rpo[j]])
  BY Left
<1>2. Consistent(rpo[j])
  BY <1>1, DoneConsistent
<1>3. livein[rpo[j]] \subseteq Reg /\ point[rpo[j]] \in [0..Len(code[rpo[j]]) -> SUBSET Reg]
  BY <1>1 DEF Inv, TypeOK
<1>4. ASSUME NEW i \in 1..Len(code[rpo[j]])
      PROVE  /\ code[rpo[j]][i].in \subseteq Reg /\ code[rpo[j]][i].out \subseteq Reg
             /\ Written(code[rpo[j]][i]) \subseteq Reg
             /\ point[rpo[j]][i] \subseteq point[rpo[j]][i - 1] \cup code[rpo[j]][i].out
             /\ point[rpo[j]][i - 1] \subseteq point[rpo[j]][i] \cup code[rpo[j]][i].in
             /\ \A r \in point[rpo[j]][i - 1] :
                  r \in code[rpo[j]][i].in \/ (r \in point[rpo[j]][i] /\ r \notin code[rpo[j]][i].out)
  <2>1. code[rpo[j]][i] \in Insn
    BY <1>1, ElementOfSeq
  <2>2. PICK insn : insn = code[rpo[j]][i]
    OBVIOUS
  <2>3. insn.in \subseteq Reg /\ insn.out \subseteq Reg
    BY <2>1, <2>2 DEF Insn
  <2>4. Written(insn) \subseteq Reg
    BY <2>3, HardAssumption DEF Written
  <2>5. point[rpo[j]][i - 1] = Before(insn, point[rpo[j]][i])
    BY <1>2, <2>2 DEF Consistent
  <2> QED
    BY <2>2, <2>3, <2>4, <2>5 DEF Before
<1> QED
  BY <1>2, <1>3, <1>4 DEF Consistent

\* Whether or not a block is empty, before its start and after its end are where
\* its numbers say.
LEMMA Borders ==
  ASSUME Inv, WalkInv, NumbersGiven, phase \in {"leave", "insn"}
  PROVE  /\ wb \in 1..Len(rpo) /\ wb \in Nat /\ wb + 1 \in 1..(Len(rpo) + 1) /\ pc = "done"
         /\ firstUid[wb] \in Nat \ {0} /\ firstUid[wb + 1] \in Nat
         /\ firstUid[wb + 1] = firstUid[wb] + Len(code[rpo[wb]])
         /\ Len(code[rpo[wb]]) \in Nat
         /\ AfterEnd = firstUid[wb + 1] /\ BeforeStart = firstUid[wb] - 1
         /\ BeforeStart \in Nat /\ AfterEnd \in Nat /\ BeforeStart < AfterEnd
<1>1. /\ wb \in 1..Len(rpo) /\ NumbersOK(firstUid) /\ AfterEnd = firstUid[wb + 1] /\ pc = "done"
  BY DEF NumbersGiven
<1>2. /\ Len(rpo) \in Nat /\ Len(code[rpo[wb]]) \in Nat
      /\ code[rpo[wb]] = <<>> => Len(code[rpo[wb]]) = 0
  BY <1>1, Left
<1>3. wb \in 1..(Len(rpo) + 1) /\ wb + 1 \in 1..(Len(rpo) + 1) /\ wb \in Nat
  BY <1>1, <1>2
<1>4. /\ firstUid[wb] \in Nat \ {0} /\ firstUid[wb + 1] \in Nat \ {0}
      /\ firstUid[wb + 1] = firstUid[wb] + Len(code[rpo[wb]])
  BY <1>1, <1>3 DEF NumbersOK
<1>5. BeforeStart = firstUid[wb] - 1
  <2>1. CASE code[rpo[wb]] = <<>>
    <3>1. BeforeStart = firstUid[wb + 1] - 1
      BY <1>1, <2>1 DEF BeforeStart, Block_
    <3>2. firstUid[wb + 1] = firstUid[wb]
      BY <1>2, <1>4, <2>1
    <3> QED
      BY <3>1, <3>2
  <2>2. CASE code[rpo[wb]] # <<>>
    BY <2>2 DEF BeforeStart, Block_
  <2> QED
    BY <2>1, <2>2
<1>6. BeforeStart \in Nat /\ AfterEnd \in Nat /\ BeforeStart < AfterEnd
  BY <1>1, <1>2, <1>4, <1>5
<1> QED
  BY <1>1, <1>2, <1>3, <1>4, <1>5, <1>6

\* What is behind the walk is later in the code.
LEMMA PastIsLater ==
  ASSUME Inv, WalkInv, NumbersGiven, phase \in {"leave", "insn"}, NEW j \in 1..Len(rpo)
  PROVE  /\ firstUid[j] \in Nat \ {0}
         /\ \A m \in 0..Len(code[rpo[j]]) :
              Time(j, m) \in Nat /\ (GapPast(j, m) => Front =< Time(j, m))
         /\ \A i \in 1..Len(code[rpo[j]]) :
              Uid(j, i) = Time(j, i) /\ Uid(j, i) \in Nat /\ (InsnPast(j, i) => Front < Uid(j, i))
<1>1. /\ NumbersOK(firstUid) /\ pc = "done" /\ wb \in 1..Len(rpo) /\ wb + 1 \in 1..(Len(rpo) + 1)
      /\ wb \in Nat /\ firstUid[wb + 1] = firstUid[wb] + Len(code[rpo[wb]])
      /\ firstUid[wb] \in Nat \ {0} /\ Len(code[rpo[wb]]) \in Nat
  BY Borders DEF NumbersGiven
<1>2. Len(rpo) \in Nat /\ Len(code[rpo[j]]) \in Nat
  BY <1>1, Left
<1>3. j \in 1..(Len(rpo) + 1) /\ j \in Nat
  BY <1>2
<1>4. firstUid[j] \in Nat \ {0}
  BY <1>1, <1>3 DEF NumbersOK
<1>5. wb < j => firstUid[wb + 1] =< firstUid[j]
  <2> SUFFICES ASSUME wb < j PROVE firstUid[wb + 1] =< firstUid[j]
    OBVIOUS
  <2>1. wb + 1 =< j
    BY <1>1, <1>3
  <2> QED
    BY <1>1, <1>3, <2>1 DEF NumbersOK
<1>6. phase = "insn" => wk \in 0..Len(code[rpo[wb]])
  BY DEF NumbersGiven, Block_
<1>7. Front \in Int /\ Front < firstUid[wb + 1]
  BY <1>1, <1>6 DEF Front
<1>8. ASSUME NEW m \in 0..Len(code[rpo[j]])
      PROVE  Time(j, m) \in Nat /\ (GapPast(j, m) => Front =< Time(j, m))
  <2>1. Time(j, m) \in Nat /\ m \in Nat
    BY <1>2, <1>4 DEF Time
  <2>2. ASSUME wb < j PROVE Front =< Time(j, m)
    <3>1. firstUid[wb + 1] - 1 =< Time(j, m)
      BY <1>1, <1>4, <1>5, <2>1, <2>2 DEF Time
    <3> QED
      BY <1>1, <1>7, <2>1, <3>1
  <2>3. ASSUME phase = "insn", j = wb, wk =< m PROVE Front =< Time(j, m)
    BY <1>1, <1>6, <2>1, <2>3 DEF Time, Front
  <2> QED
    BY <2>1, <2>2, <2>3 DEF GapPast
<1>9. ASSUME NEW i \in 1..Len(code[rpo[j]])
      PROVE  Uid(j, i) = Time(j, i) /\ Uid(j, i) \in Nat /\ (InsnPast(j, i) => Front < Uid(j, i))
  <2>1. Uid(j, i) = Time(j, i) /\ Uid(j, i) \in Nat /\ i \in Nat \ {0}
    BY <1>2, <1>4 DEF Time, Uid
  <2>2. ASSUME wb < j PROVE Front < Uid(j, i)
    <3>1. firstUid[wb + 1] =< Uid(j, i)
      BY <1>1, <1>4, <1>5, <2>1, <2>2 DEF Uid
    <3> QED
      BY <1>1, <1>7, <2>1, <3>1
  <2>3. ASSUME phase = "insn", j = wb, wk < i PROVE Front < Uid(j, i)
    BY <1>1, <1>6, <2>1, <2>3 DEF Uid, Front
  <2> QED
    BY <2>1, <2>2, <2>3 DEF InsnPast
<1> QED
  BY <1>4, <1>8, <1>9

-----------------------------------------------------------------------------
\* The walk changes nothing of the order and the live sets.
LEMMA RestKeeps ==
  ASSUME Inv, WalkInv, UNCHANGED vars
  PROVE  /\ Inv' /\ WalkInv' /\ succs' = succs /\ rpo' = rpo /\ code' = code
         /\ point' = point /\ livein' = livein /\ liveout' = liveout /\ pc' = pc
  BY NextInv, WalkStep DEF vars, orderVars, liveVars

\* The ranges before the walk begins.
LEMMA FirstRanges ==
  ASSUME NEW a \in Nat \ {0}, NEW t, t = AddRange(AddDef(<<>>, 0), 0, a)
  PROVE  Sorted(t) /\ EndsAfter(t, a - 1)
<1>0. PICK s : s = AddDef(<<>>, 0)
  OBVIOUS
<1>1. Sorted(<<>>) /\ EndsAfter(<<>>, 0)
  BY EmptySeq DEF Sorted, EndsAfter
<1>2. Sorted(s)
  BY <1>0, <1>1, AddDefOK
<1>3. s = << <<0, 1>> >>
  <2>1. AddDef(<<>>, 0) = << <<0, 0 + 1>> >> \o <<>>
    BY DEF AddDef, AddRange
  <2>2. << <<0, 1>> >> \in Seq(Span) /\ 0 + 1 = 1
    BY DEF Span
  <2>3. << <<0, 1>> >> \o <<>> = << <<0, 1>> >>
    BY <2>2, ConcatEmptySeq
  <2> QED
    BY <1>0, <2>1, <2>2, <2>3
<1>4. s # <<>> /\ s[1][1] = 0 /\ s[1][2] = 1 /\ \A g \in DOMAIN s : g = 1
  BY <1>3
<1>5. t = << <<0, a>> >> \o Tail(s)
  <2>1. t = << <<Lo(0, s[1][1]), Hi(a, s[1][2])>> >> \o Tail(s)
    BY <1>0, <1>4 DEF AddRange
  <2>2. Lo(0, s[1][1]) = 0 /\ Hi(a, s[1][2]) = a
    BY <1>4 DEF Lo, Hi
  <2> QED
    BY <2>1, <2>2
<1>6. 0 \in Nat /\ a \in Nat /\ 0 < a /\ s # <<>>
  BY <1>4
<1>7. \A g \in DOMAIN s : g # 1 => a < s[g][1]
  BY <1>4
<1>8. Sorted(t)
  BY <1>2, <1>5, <1>6, <1>7, ReplaceSorted, Zenon
<1>9. DOMAIN t = DOMAIN s
  BY <1>2, <1>5, <1>6, <1>7, ReplaceSorted
<1>10. t[1] = <<0, a>>
  BY <1>2, <1>5, <1>6, <1>7, ReplaceSorted
<1>11. EndsAfter(t, a - 1)
  <2>1. \A g \in DOMAIN t : t[g][2] = a
    BY <1>4, <1>9, <1>10
  <2> QED
    BY <2>1 DEF EndsAfter
<1> QED
  BY <1>8, <1>11

\* The numbers are given, and nothing is behind the walk.
LEMMA StartStep == ASSUME Inv, WalkInv, IntervalInv, StartWalk PROVE IntervalInv'
<1>k. /\ Inv' /\ WalkInv' /\ rpo' = rpo /\ code' = code /\ point' = point /\ pc' = "done"
      /\ pc = "done" /\ phase = "live" /\ phase' = "leave" /\ usePos' = usePos
      /\ firstUid' = LinearNumbers /\ wb' = Len(rpo) /\ last' = 0
  BY RestKeeps DEF StartWalk
<1>1. /\ rpo \in Seq(Block) /\ code \in [Block -> Seq(Insn)] /\ Len(rpo) \in Nat
      /\ DOMAIN rpo = 1..Len(rpo) /\ Len(rpo) \in 1..Len(rpo)
  BY <1>k, Left
<1>2. NumbersOK(LinearNumbers)
  BY <1>1, LinearNumbersOK
<1>3. NumbersOK(firstUid)'
  BY <1>k, <1>2 DEF NumbersOK
<1>4. NumbersGiven'
  BY <1>k, <1>1, <1>3 DEF NumbersGiven, AfterEnd, InsnOrder
<1>a. PICK a \in Nat \ {0} : a = LinearNumbers[Len(rpo) + 1]
  <2>1. Len(rpo) + 1 \in 1..(Len(rpo) + 1)
    BY <1>1
  <2> QED
    BY <1>2, <2>1 DEF NumbersOK
<1>5. /\ lrBegin' = [r \in Reg |-> IF r \in Unavailable THEN 0 ELSE a]
      /\ lrEnd' = [r \in Reg |-> IF r \in Unavailable THEN a ELSE 0]
      /\ ranges' = [r \in Reg |-> IF r \in Unavailable
                                  THEN AddRange(AddDef(<<>>, 0), 0, a) ELSE <<>>]
  BY <1>a DEF StartWalk
<1>6. /\ lrBegin' \in [Reg -> Nat] /\ lrEnd' \in [Reg -> Nat]
  BY <1>5
<1>7. Front' = a - 1
  BY <1>a, <1>k DEF Front
<1>8. ASSUME NEW r \in Reg PROVE Sorted(ranges'[r]) /\ EndsAfter(ranges'[r], a - 1)
  <2>1. CASE r \in Unavailable
    BY <1>5, <2>1, FirstRanges
  <2>2. CASE r \notin Unavailable
    <3>1. ranges'[r] = <<>>
      BY <1>5, <2>2
    <3> QED
      BY <3>1, EmptySeq DEF Sorted, EndsAfter
  <2> QED
    BY <2>1, <2>2
<1>9. ListsOK'
  <2>1. ranges' \in [Reg -> Seq(Span)]
    <3>1. \A r \in Reg : ranges'[r] \in Seq(Span)
      BY <1>8 DEF Sorted
    <3> QED
      BY <1>5, <3>1
  <2> QED
    BY <1>k, <1>6, <1>7, <1>8, <2>1 DEF ListsOK, IntervalInv, Sorted, EndsAfter
<1>10. \A j \in DOMAIN rpo : \A i : ~ GapPast(j, i)' /\ ~ InsnPast(j, i)'
  BY <1>k, <1>1 DEF GapPast, InsnPast
<1>11. CoverOK' /\ OpenOK' /\ WrittenOK'
  BY <1>k, <1>10 DEF CoverOK, OpenOK, WrittenOK
<1>12. UsesOK'
  <2>1. \A r \in Reg : usePos'[r] = <<>>
    BY <1>k DEF IntervalInv, NumbersGiven
  <2> QED
    BY <1>k, <1>10, <2>1 DEF UsesOK
<1> QED
  BY <1>4, <1>9, <1>11, <1>12 DEF IntervalInv

\* bitmap_iterate over the live-out set.
LEMMA LeaveStep == ASSUME Inv, WalkInv, IntervalInv, LeaveBackwards PROVE IntervalInv'
<1>k. /\ Inv' /\ WalkInv' /\ rpo' = rpo /\ code' = code /\ point' = point /\ pc' = pc
      /\ phase = "leave" /\ phase' = "insn" /\ usePos' = usePos /\ lrBegin' = lrBegin
      /\ firstUid' = firstUid /\ wb' = wb /\ last' = last /\ wk' = Len(code[rpo[wb]])
  BY RestKeeps DEF LeaveBackwards, Block_
<1>i. NumbersGiven /\ ListsOK /\ CoverOK /\ WrittenOK /\ UsesOK
  BY DEF IntervalInv
<1>b. /\ wb \in 1..Len(rpo) /\ wb \in Nat /\ wb + 1 \in 1..(Len(rpo) + 1) /\ pc = "done"
      /\ firstUid[wb] \in Nat \ {0} /\ firstUid[wb + 1] \in Nat
      /\ firstUid[wb + 1] = firstUid[wb] + Len(code[rpo[wb]])
      /\ Len(code[rpo[wb]]) \in Nat
      /\ AfterEnd = firstUid[wb + 1] /\ BeforeStart = firstUid[wb] - 1
      /\ BeforeStart \in Nat /\ AfterEnd \in Nat /\ BeforeStart < AfterEnd
  BY <1>k, <1>i, Borders
<1>1. DOMAIN rpo = 1..Len(rpo)
  BY <1>b, Left
<1>n. PICK a \in Nat, bs \in Nat, l \in Nat :
        a = AfterEnd /\ bs = BeforeStart /\ l = Len(code[rpo[wb]])
  BY <1>b
<1>2. NumbersGiven'
  <2>1. NumbersOK(firstUid)'
    BY <1>k, <1>i DEF NumbersOK, NumbersGiven
  <2> QED
    BY <1>k, <1>i, <1>b, <2>1 DEF NumbersGiven, AfterEnd, InsnOrder, Block_
<1>3. Front = a - 1 /\ Front' = a - 1 /\ BeforeStart' = BeforeStart
  BY <1>k, <1>b, <1>n, SMTT(30) DEF Front, BeforeStart, AfterEnd, InsnOrder, Block_
<1>4. /\ lrEnd' = [r \in Reg |-> IF r \in liveout[rpo[wb]] THEN Hi(lrEnd[r], a) ELSE lrEnd[r]]
      /\ ranges' = [r \in Reg |-> IF r \in liveout[rpo[wb]]
                                  THEN AddRange(ranges[r], bs, a) ELSE ranges[r]]
  BY <1>n DEF LeaveBackwards, Block_
<1>5. ASSUME NEW r \in Reg
      PROVE  /\ Sorted(ranges'[r]) /\ EndsAfter(ranges'[r], a - 1)
             /\ \A x \in Nat : CoveredBy(ranges[r], x) => CoveredBy(ranges'[r], x)
             /\ r \in liveout[rpo[wb]] =>
                  /\ StartsBy(ranges'[r], bs)
                  /\ \A x \in Nat : bs =< x /\ x < a => CoveredBy(ranges'[r], x)
             /\ lrEnd[r] \in Nat /\ lrEnd'[r] \in Nat /\ lrEnd[r] =< lrEnd'[r]
             /\ r \in liveout[rpo[wb]] => a =< lrEnd'[r]
  <2>1. Sorted(ranges[r]) /\ EndsAfter(ranges[r], a - 1)
    BY <1>k, <1>i, <1>3 DEF ListsOK
  <2>2. lrEnd[r] \in Nat
    BY <1>i DEF ListsOK
  <2>3. CASE r \in liveout[rpo[wb]]
    <3>1. ranges'[r] = AddRange(ranges[r], bs, a) /\ lrEnd'[r] = Hi(lrEnd[r], a)
      BY <1>4, <2>3
    <3>2. bs < a
      BY <1>b, <1>n
    <3>s. PICK s, t : s = ranges[r] /\ t = ranges'[r]
      OBVIOUS
    <3>3. /\ Sorted(t) /\ EndsAfter(t, a - 1) /\ StartsBy(t, bs)
          /\ \A x \in Nat : CoveredBy(s, x) \/ (bs =< x /\ x < a) => CoveredBy(t, x)
      BY <2>1, <3>1, <3>2, <3>s, AddRangeOK
    <3>4. lrEnd'[r] \in Nat /\ lrEnd[r] =< lrEnd'[r] /\ a =< lrEnd'[r]
      BY <2>2, <3>1 DEF Hi
    <3> QED
      BY <2>2, <3>3, <3>4, <3>s
  <2>4. CASE r \notin liveout[rpo[wb]]
    <3>1. ranges'[r] = ranges[r] /\ lrEnd'[r] = lrEnd[r]
      BY <1>4, <2>4
    <3> QED
      BY <2>1, <2>2, <2>4, <3>1
  <2> QED
    BY <2>3, <2>4
<1>6. ListsOK'
  <2>0. \A r \in Reg : ranges'[r] \in Seq(Span)
    BY <1>5 DEF Sorted
  <2>1. /\ lrBegin' \in [Reg -> Nat] /\ lrEnd' \in [Reg -> Nat] /\ ranges' \in [Reg -> Seq(Span)]
        /\ usePos' \in [Reg -> Seq(Nat)]
    BY <1>k, <1>i, <1>4, <1>5, <2>0 DEF ListsOK
  <2>2. \A r \in Reg : Sorted(ranges'[r]) /\ EndsAfter(ranges'[r], Front')
    BY <1>3, <1>5
  <2> QED
    BY <2>1, <2>2 DEF ListsOK, Sorted, EndsAfter
<1>7. \A j \in 1..Len(rpo) : \A i \in 1..Len(code[rpo[j]]) : InsnPast(j, i)' => InsnPast(j, i)
  BY <1>k, <1>b DEF InsnPast
<1>7a. \A j \in 1..Len(rpo) : \A i \in 1..Len(code[rpo[j]]) : InsnPast(j, i) => InsnPast(j, i)'
  BY <1>k, <1>b DEF InsnPast
<1>8. \A j \in 1..Len(rpo) : \A m \in 0..Len(code[rpo[j]]) :
        GapPast(j, m)' => GapPast(j, m) \/ (j = wb /\ m = l)
  BY <1>k, <1>b, <1>n DEF GapPast
<1>9. \A j, m : Time(j, m)' = Time(j, m) /\ Uid(j, m)' = Uid(j, m)
  BY <1>k DEF Time, Uid
<1>10. \A j \in 1..Len(rpo) : \A m \in 0..Len(code[rpo[j]]) :
         /\ Time(j, m) \in Nat /\ point[rpo[j]][m] \subseteq Reg
  BY <1>k, <1>i, <1>b, PastIsLater, LeftSets
<1>11. point[rpo[wb]][l] = liveout[rpo[wb]] /\ liveout[rpo[wb]] \subseteq Reg
  <2>1. Len(code[rpo[wb]]) \in 0..Len(code[rpo[wb]])
    BY <1>b
  <2> QED
    BY <1>b, <1>n, <2>1, LeftSets, SMTT(30)
<1>12. CoverOK'
  <2> SUFFICES ASSUME NEW j \in 1..Len(rpo), NEW m \in 0..Len(code[rpo[j]]),
                      NEW r \in point[rpo[j]][m], GapPast(j, m)'
               PROVE  /\ CoveredBy(ranges'[r], Time(j, m)) /\ Time(j, m) < lrEnd'[r]
                      /\ \/ lrBegin[r] =< Time(j, m)
                         \/ j = wb /\ r \in point[rpo[j]][l]
    BY <1>k, <1>1, <1>9, <1>n, SMTT(30) DEF CoverOK, CoveredBy
  <2>1. r \in Reg /\ Time(j, m) \in Nat
    BY <1>10
  <2>2. CASE GapPast(j, m)
    <3>1. /\ CoveredBy(ranges[r], Time(j, m)) /\ Time(j, m) < lrEnd[r]
          /\ lrBegin[r] =< Time(j, m)
      BY <1>k, <1>i, <1>1, <2>2 DEF CoverOK
    <3>2. Time(j, m) < lrEnd'[r]
      BY <1>5, <2>1, <3>1
    <3> QED
      BY <1>5, <2>1, <3>1, <3>2
  <2>3. CASE j = wb /\ m = l
    <3>1. Time(j, m) = a - 1 /\ bs =< Time(j, m) /\ Time(j, m) < a /\ r \in liveout[rpo[wb]]
      <4>1. PICK f \in Nat \ {0} : f = firstUid[wb]
        BY <1>b
      <4>2. a = f + l /\ bs = f - 1
        BY <1>b, <1>n, <4>1
      <4>3. Time(j, m) = f + l - 1
        BY <2>3, <4>1 DEF Time
      <4>4. Time(j, m) = a - 1 /\ bs =< Time(j, m) /\ Time(j, m) < a
        BY <4>2, <4>3
      <4> QED
        BY <1>11, <2>3, <4>4
    <3>2. a =< lrEnd'[r] /\ lrEnd'[r] \in Nat /\ CoveredBy(ranges'[r], Time(j, m))
      BY <1>5, <2>1, <3>1
    <3> QED
      BY <2>1, <2>3, <3>1, <3>2
  <2> QED
    BY <1>8, <2>2, <2>3
<1>13. OpenOK'
  <2>1. \A r \in point[rpo[wb]][l] : r \in Reg /\ StartsBy(ranges'[r], bs)
    BY <1>5, <1>11
  <2> QED
    BY <1>k, <1>3, <1>n, <2>1 DEF OpenOK, StartsBy
<1>14. WrittenOK'
  <2> SUFFICES ASSUME NEW j \in DOMAIN rpo, NEW i \in DOMAIN code[rpo[j]],
                      NEW r \in Written(code[rpo[j]][i]), InsnPast(j, i)'
               PROVE  /\ CoveredBy(ranges'[r], Uid(j, i))
                      /\ r \notin Hard => lrBegin[r] =< Uid(j, i) /\ Uid(j, i) =< lrEnd'[r]
    BY <1>k, <1>9 DEF WrittenOK, CoveredBy, Written
  <2>0. j \in 1..Len(rpo) /\ i \in 1..Len(code[rpo[j]]) /\ InsnPast(j, i)
    <3>1. j \in 1..Len(rpo) /\ DOMAIN code[rpo[j]] = 1..Len(code[rpo[j]])
      BY <1>1, <1>b, Left
    <3> QED
      BY <1>7, <3>1
  <2>1. r \in Reg /\ Uid(j, i) \in Nat /\ i \in DOMAIN code[rpo[j]]
    <3>1. Written(code[rpo[j]][i]) \subseteq Reg
      BY <1>b, <2>0, LeftSets
    <3>2. Uid(j, i) \in Nat
      BY <1>k, <1>i, <2>0, PastIsLater
    <3> QED
      BY <3>1, <3>2
  <2>2. /\ CoveredBy(ranges[r], Uid(j, i))
        /\ r \notin Hard => lrBegin[r] =< Uid(j, i) /\ Uid(j, i) =< lrEnd[r]
    BY <1>k, <1>i, <2>0 DEF WrittenOK
  <2> QED
    BY <1>5, <2>1, <2>2
<1>15. UsesOK'
  <2>1. \A j \in 1..Len(rpo) : DOMAIN code[rpo[j]] = 1..Len(code[rpo[j]])
    BY <1>b, Left
  <2>2. \A j \in DOMAIN rpo : \A i \in DOMAIN code[rpo[j]] : InsnPast(j, i)' <=> InsnPast(j, i)
    BY <1>1, <1>7, <1>7a, <2>1
  <2> QED
    BY <1>k, <1>i, <1>9, <2>2 DEF UsesOK
<1> QED
  BY <1>2, <1>6, <1>12, <1>13, <1>14, <1>15 DEF IntervalInv

\* The call's marker lies in its block, before the call.
LEMMA MarkerOK == ASSUME NEW s, NEW i \in Nat \ {0} PROVE Marker(s, i) \in 1..i
<1> DEFINE M == {j \in 1..i : s[j].kind = "marker"}
<1>1. CASE M = {}
  BY <1>1 DEF Marker
<1>2. CASE M # {}
  <2> DEFINE T == {d \in Nat : i - d \in M}
  <2>1. T # {} /\ T \subseteq Nat
    <3>1. PICK j \in M : TRUE
      BY <1>2
    <3>2. i - j \in Nat /\ i - (i - j) = j
      BY <3>1
    <3> QED
      BY <3>1, <3>2
  <2>2. PICK d \in T : d \in Nat /\ \A m \in T : d =< m
    <3> HIDE DEF T
    <3> QED
      BY <2>1, Smallest
  <2>3. i - d \in M /\ \A m \in M : m =< i - d
    <3> SUFFICES ASSUME NEW m \in M PROVE m =< i - d
      BY <2>2
    <3>1. i - m \in Nat /\ i - (i - m) = m
      OBVIOUS
    <3>2. i - m \in T
      BY <3>1
    <3>3. d =< i - m
      BY <2>2, <3>2
    <3> QED
      BY <2>2, <3>1, <3>3
  <2>4. Marker(s, i) \in M
    <3>1. Marker(s, i) = CHOOSE j \in M : \A m \in M : m =< j
      BY <1>2 DEF Marker
    <3> HIDE DEF M, T
    <3> QED
      BY <2>3, <3>1
  <2> QED
    BY <2>4
<1> QED
  BY <1>1, <1>2

\* Where the elements of two joined lists are.
LEMMA Joined ==
  ASSUME NEW S, NEW a \in Seq(S), NEW b \in Seq(S), NEW c, c = a \o b
  PROVE  /\ c \in Seq(S) /\ Len(a) \in Nat /\ Len(b) \in Nat
         /\ DOMAIN a = 1..Len(a) /\ DOMAIN b = 1..Len(b) /\ DOMAIN c = 1..(Len(a) + Len(b))
         /\ Len(c) = Len(a) + Len(b)
         /\ \A i \in 1..Len(a) : c[i] = a[i]
         /\ \A i \in 1..(Len(a) + Len(b)) :
              ~ (i =< Len(a)) => i - Len(a) \in 1..Len(b) /\ c[i] = b[i - Len(a)]
<1>1. /\ Len(a) \in Nat /\ Len(b) \in Nat /\ DOMAIN a = 1..Len(a) /\ DOMAIN b = 1..Len(b)
  BY LenProperties
<1>2. /\ c \in Seq(S) /\ Len(c) = Len(a) + Len(b)
      /\ \A i \in 1..(Len(a) + Len(b)) : c[i] = IF i =< Len(a) THEN a[i] ELSE b[i - Len(a)]
  BY ConcatProperties
<1>3. DOMAIN c = 1..(Len(a) + Len(b))
  BY <1>2, LenProperties
<1>4. PICK m \in Nat, n \in Nat : m = Len(a) /\ n = Len(b)
  BY <1>1
<1>5. \A i \in 1..m : i \in 1..(m + n) /\ i =< m
  OBVIOUS
<1>6. \A i \in 1..(m + n) : ~ (i =< m) => i - m \in 1..n
  OBVIOUS
<1>7. \A i \in 1..Len(a) : c[i] = a[i]
  BY <1>2, <1>4, <1>5
<1>8. \A i \in 1..(Len(a) + Len(b)) :
        ~ (i =< Len(a)) => i - Len(a) \in 1..Len(b) /\ c[i] = b[i - Len(a)]
  BY <1>2, <1>4, <1>6
<1> QED
  BY <1>1, <1>2, <1>3, <1>7, <1>8

\* A list in order, the greatest number first, and one that has not gone below u.
Falling(s) == \A m, n \in DOMAIN s : m < n => s[n] =< s[m]
NotBelow(s, u) == \A n \in DOMAIN s : u =< s[n]

\* t has what s has, in the same places, and u if yes says so.
Adds(t, s, u, yes) ==
  /\ \A n \in DOMAIN t : (n \in DOMAIN s /\ t[n] = s[n]) \/ (t[n] = u /\ yes)
  /\ \A n \in DOMAIN s : n \in DOMAIN t /\ t[n] = s[n]
  /\ yes => \E n \in DOMAIN t : t[n] = u

\* insert_usage_position_before, which keeps the list in order.
LEMMA NamedOK ==
  ASSUME NEW s \in Seq(Nat), NEW u \in Nat, NotBelow(s, u), Falling(s),
         NEW r, NEW insn, NEW t, t = s \o Named(r, insn, u)
  PROVE  t \in Seq(Nat) /\ Falling(t) /\ Adds(t, s, u, Names(insn, r))
<1> DEFINE A == IF r \in insn.out THEN <<u>> ELSE <<>>
           B == IF r \in insn.in THEN <<u>> ELSE <<>>
<1>1. /\ A \in Seq(Nat)
      /\ \A i \in 1..Len(A) : A[i] = u
  <2>1. CASE r \in insn.out
    BY <2>1
  <2>2. CASE r \notin insn.out
    BY <2>2
  <2> QED
    BY <2>1, <2>2
<1>2. /\ B \in Seq(Nat)
      /\ \A i \in 1..Len(B) : B[i] = u
  <2>1. CASE r \in insn.in
    BY <2>1
  <2>2. CASE r \notin insn.in
    BY <2>2
  <2> QED
    BY <2>1, <2>2
<1>n. PICK N : N = Named(r, insn, u)
  OBVIOUS
<1>a. /\ r \in insn.out => Len(A) = 1
      /\ r \notin insn.out => Len(A) = 0
  OBVIOUS
<1>b. /\ r \in insn.in => Len(B) = 1
      /\ r \notin insn.in => Len(B) = 0
  OBVIOUS
<1>3. N = A \o B
  BY <1>n DEF Named
<1> HIDE DEF A, B
<1>4. /\ N \in Seq(Nat) /\ Len(A) \in Nat /\ Len(B) \in Nat /\ Len(N) = Len(A) + Len(B)
      /\ \A i \in 1..Len(A) : N[i] = A[i]
      /\ \A i \in 1..(Len(A) + Len(B)) :
           ~ (i =< Len(A)) => i - Len(A) \in 1..Len(B) /\ N[i] = B[i - Len(A)]
  BY <1>1, <1>2, <1>3, Joined
<1>5. PICK la \in Nat, lb \in Nat, ln \in Nat : la = Len(A) /\ lb = Len(B) /\ ln = Len(N) /\ ln = la + lb
  BY <1>4, SMTT(30)
<1>6. ASSUME NEW i \in 1..ln PROVE N[i] = u
  <2>1. CASE i =< la
    <3>1. i \in 1..la
      BY <2>1
    <3> QED
      BY <1>1, <1>4, <1>5, <3>1
  <2>2. CASE ~ (i =< la)
    <3>1. i - la \in 1..lb /\ i \in 1..(la + lb)
      BY <1>5, <2>2
    <3>2. N[i] = B[i - la]
      BY <1>4, <1>5, <2>2, <3>1
    <3> QED
      BY <1>2, <1>5, <3>1, <3>2
  <2> QED
    BY <2>1, <2>2
<1>7. Names(insn, r) <=> 1 =< ln
  <2>1. CASE Names(insn, r)
    <3>1. la = 1 \/ lb = 1
      BY <1>a, <1>b, <1>5, <2>1 DEF Names
    <3> QED
      BY <1>5, <2>1, <3>1
  <2>2. CASE ~ Names(insn, r)
    <3>1. la = 0 /\ lb = 0
      BY <1>a, <1>b, <1>5, <2>2 DEF Names
    <3> QED
      BY <1>5, <2>2, <3>1
  <2> QED
    BY <2>1, <2>2
<1>j. /\ t \in Seq(Nat) /\ Len(s) \in Nat /\ DOMAIN s = 1..Len(s)
      /\ DOMAIN t = 1..(Len(s) + Len(N))
      /\ \A i \in 1..Len(s) : t[i] = s[i]
      /\ \A i \in 1..(Len(s) + Len(N)) :
           ~ (i =< Len(s)) => i - Len(s) \in 1..Len(N) /\ t[i] = N[i - Len(s)]
  <2>1. t = s \o N
    BY <1>n
  <2> QED
    <3>1. PICK v \in Seq(Nat) : v = N
      BY <1>4
    <3>2. t = s \o v
      BY <2>1, <3>1
    <3> HIDE <1>1, <1>2, <1>3, <1>4, <1>6
    <3>3. /\ t \in Seq(Nat) /\ Len(s) \in Nat /\ DOMAIN s = 1..Len(s)
          /\ DOMAIN t = 1..(Len(s) + Len(v))
      BY <3>2, Joined
    <3>4. \A i \in 1..Len(s) : t[i] = s[i]
      BY <3>2, Joined
    <3>5. \A i \in 1..(Len(s) + Len(v)) :
            ~ (i =< Len(s)) => i - Len(s) \in 1..Len(v) /\ t[i] = v[i - Len(s)]
      BY <3>2, Joined
    <3> QED
      BY <3>1, <3>3, <3>4, <3>5
<1>l. PICK ls \in Nat : ls = Len(s)
  BY <1>j
<1>8. /\ t \in Seq(Nat) /\ DOMAIN s = 1..ls /\ DOMAIN t = 1..(ls + ln)
      /\ \A i \in 1..ls : t[i] = s[i]
      /\ \A i \in 1..(ls + ln) : ~ (i =< ls) => i - ls \in 1..ln /\ t[i] = N[i - ls]
  BY <1>j, <1>l, <1>5
<1>9. \A i \in 1..ls : i \in 1..(ls + ln)
  OBVIOUS
<1>10. \A n \in DOMAIN s : n \in DOMAIN t /\ t[n] = s[n]
  BY <1>8, <1>9
<1>11. ASSUME NEW n \in DOMAIN t
       PROVE  (n \in DOMAIN s /\ t[n] = s[n]) \/ (t[n] = u /\ Names(insn, r) /\ ls < n)
  <2>1. CASE n =< ls
    <3>1. n \in 1..ls
      BY <1>8, <2>1
    <3>2. n \in DOMAIN s
      BY <1>8, <3>1
    <3> QED
      BY <1>10, <3>2
  <2>2. CASE ~ (n =< ls)
    <3>0. n \in 1..(ls + ln)
      BY <1>8
    <3>1. n - ls \in 1..ln /\ t[n] = N[n - ls]
      BY <1>8, <2>2, <3>0
    <3>2. ls < n /\ 1 =< ln
      BY <2>2, <3>0, <3>1
    <3> QED
      BY <1>6, <1>7, <3>1, <3>2
  <2> QED
    BY <2>1, <2>2
<1>e. \A i \in DOMAIN s : s[i] \in Nat /\ i =< ls /\ i \in Nat
  BY <1>8, <1>j, ElementOfSeq
<1>12. ASSUME NEW m \in DOMAIN t, NEW n \in DOMAIN t, m < n PROVE t[n] =< t[m]
  <2>1. CASE n \in DOMAIN s /\ t[n] = s[n]
    <3>1. m \in DOMAIN s
      BY <1>8, <1>12, <2>1
    <3>2. t[m] = s[m]
      BY <1>10, <3>1
    <3> QED
      BY <1>12, <2>1, <3>1, <3>2 DEF Falling
  <2>2. CASE t[n] = u
    <3>1. CASE m \in DOMAIN s /\ t[m] = s[m]
      BY <1>e, <2>2, <3>1 DEF NotBelow
    <3>2. CASE t[m] = u
      BY <2>2, <3>2
    <3> QED
      BY <1>11, <3>1, <3>2
  <2> QED
    BY <1>11, <2>1, <2>2
<1>13. ASSUME Names(insn, r) PROVE \E n \in DOMAIN t : t[n] = u
  <2>1. ls + 1 \in 1..(ls + ln) /\ ~ (ls + 1 =< ls)
    BY <1>5, <1>7, <1>13
  <2>2. ls + 1 \in DOMAIN t
    BY <1>8, <2>1
  <2>3. ls + 1 \notin DOMAIN s
    BY <1>8
  <2>4. t[ls + 1] = u
    BY <1>11, <2>2, <2>3
  <2> QED
    BY <2>2, <2>4
<1> QED
  BY <1>8, <1>10, <1>11, <1>12, <1>13 DEF Falling, Adds

\* One instruction: handle_method_arguments for a call, then the outputs, then
\* the inputs.
LEMMA InsnStep == ASSUME Inv, WalkInv, IntervalInv, WalkBack PROVE IntervalInv'
<1>k. /\ Inv' /\ WalkInv' /\ rpo' = rpo /\ code' = code /\ point' = point /\ pc' = pc
      /\ phase = "insn" /\ phase' = "insn" /\ wk > 0 /\ wk' = wk - 1
      /\ firstUid' = firstUid /\ wb' = wb /\ last' = last
  BY RestKeeps DEF WalkBack
<1>i. NumbersGiven /\ ListsOK /\ CoverOK /\ OpenOK /\ WrittenOK /\ UsesOK
  BY DEF IntervalInv
<1>b. /\ wb \in 1..Len(rpo) /\ wb \in Nat /\ wb + 1 \in 1..(Len(rpo) + 1) /\ pc = "done"
      /\ firstUid[wb] \in Nat \ {0} /\ firstUid[wb + 1] \in Nat
      /\ firstUid[wb + 1] = firstUid[wb] + Len(code[rpo[wb]])
      /\ Len(code[rpo[wb]]) \in Nat
      /\ AfterEnd = firstUid[wb + 1] /\ BeforeStart = firstUid[wb] - 1
      /\ BeforeStart \in Nat /\ AfterEnd \in Nat /\ BeforeStart < AfterEnd
  BY <1>k, <1>i, Borders
<1>1. DOMAIN rpo = 1..Len(rpo)
  BY <1>b, Left
<1>n. PICK bs \in Nat, l \in Nat, q \in Nat \ {0}, b1 \in Nat \ {0} :
        /\ bs = BeforeStart /\ l = Len(code[rpo[wb]]) /\ q = wk /\ b1 = firstUid[wb]
        /\ bs = b1 - 1 /\ q =< l
  BY <1>k, <1>i, <1>b, SMTT(30) DEF NumbersGiven, Block_
<1>x. PICK x : x = code[rpo[wb]][wk]
  OBVIOUS
<1>u. PICK u \in Nat : u = Uid(wb, wk) /\ u = b1 + q - 1 /\ bs < u
  BY <1>n DEF Uid
<1>f. PICK f \in Nat : f = CallStart(x, u) /\ f =< u
  <2>1. CASE x.kind = "call"
    <3>1. PICK m \in 1..q : m = Marker(code[rpo[wb]], wk)
      BY <1>n, MarkerOK
    <3>2. CallStart(x, u) = b1 + m - 1
      BY <1>n, <2>1, <3>1 DEF CallStart, Uid, Block_
    <3>3. b1 + m - 1 \in Nat /\ b1 + m - 1 =< u
      BY <1>u, <3>1
    <3> QED
      BY <3>2, <3>3
  <2>2. CASE x.kind # "call"
    BY <2>2 DEF CallStart
  <2> QED
    BY <2>1, <2>2
<1>d. PICK clob : clob = IF x.kind = "call" THEN CallerSave ELSE {}
  OBVIOUS
<1>2. NumbersGiven'
  <2>1. NumbersOK(firstUid)'
    BY <1>k, <1>i DEF NumbersOK, NumbersGiven
  <2>2. AfterEnd' = AfterEnd
    BY <1>k DEF AfterEnd, InsnOrder
  <2>3. wk' \in 0..Len(code[rpo[wb]])
    BY <1>k, <1>n
  <2> QED
    BY <1>k, <1>i, <1>b, <2>1, <2>2, <2>3 DEF NumbersGiven, Block_
<1>3. Front = u /\ Front' = u - 1 /\ BeforeStart' = BeforeStart
  <2>1. Front = u
    BY <1>k, <1>n, <1>u DEF Front
  <2>2. Front' = u - 1
    BY <1>k, <1>n, <1>u, SMTT(30) DEF Front
  <2> QED
    BY <1>k, <2>1, <2>2 DEF BeforeStart, AfterEnd, InsnOrder, Block_
<1>4. /\ lrBegin' = [r \in Reg |->
           LET b == IF r \in clob THEN Lo(lrBegin[r], f) ELSE lrBegin[r] IN
           IF r \in x.out THEN Lo(b, u) ELSE b]
      /\ lrEnd' = [r \in Reg |->
           LET e == IF r \in clob THEN Hi(lrEnd[r], u + 1) ELSE lrEnd[r] IN
           IF r \in x.out \cup x.in THEN Hi(e, u) ELSE e]
      /\ ranges' = [r \in Reg |-> RangesAt(r, x, u, f)]
      /\ usePos' = [r \in Reg |-> usePos[r] \o Named(r, x, u)]
  BY <1>x, <1>u, <1>f, <1>d DEF WalkBack, Block_
<1>5. ASSUME NEW r \in Reg
      PROVE  /\ Sorted(ranges'[r]) /\ EndsAfter(ranges'[r], u - 1)
             /\ \A y \in Nat : u =< y /\ CoveredBy(ranges[r], y) => CoveredBy(ranges'[r], y)
             /\ r \in Written(x) => CoveredBy(ranges'[r], u)
             /\ r \in x.in \/ (r \notin x.out /\ StartsBy(ranges[r], bs)) =>
                  StartsBy(ranges'[r], bs)
  <2>1. Sorted(ranges[r]) /\ EndsAfter(ranges[r], u)
    BY <1>k, <1>i, <1>3 DEF ListsOK
  <2>2. PICK s, t : s = ranges[r] /\ t = ranges'[r] /\ t = RangesAt(r, x, u, f)
    BY <1>4
  <2>3. /\ Sorted(t) /\ EndsAfter(t, u - 1)
        /\ \A y \in Nat : u =< y /\ CoveredBy(s, y) => CoveredBy(t, y)
        /\ r \in Written(x) => CoveredBy(t, u)
        /\ r \in x.in \/ (r \notin x.out /\ StartsBy(s, BeforeStart)) => StartsBy(t, BeforeStart)
    <3>1. /\ s = ranges[r] /\ Sorted(s) /\ EndsAfter(s, u) /\ f \in Nat /\ f =< u
          /\ BeforeStart \in Nat /\ BeforeStart < u /\ CallerSave \subseteq Hard
      BY <1>n, <1>u, <1>f, <2>1, <2>2, HardAssumption
    <3> QED
      BY <2>2, <3>1, RangesAtOK, ZenonT(30)
  <2> QED
    BY <1>n, <2>2, <2>3
<1>5a. ASSUME NEW r \in Reg
       PROVE  /\ lrBegin[r] \in Nat /\ lrBegin'[r] \in Nat /\ lrBegin'[r] =< lrBegin[r]
              /\ r \in x.out => lrBegin'[r] =< u
              /\ lrEnd[r] \in Nat /\ lrEnd'[r] \in Nat /\ lrEnd[r] =< lrEnd'[r]
              /\ r \in x.out \/ r \in x.in => u =< lrEnd'[r]
  <2>1. lrBegin[r] \in Nat /\ lrEnd[r] \in Nat
    BY <1>i DEF ListsOK
  <2>2. PICK b : b = IF r \in clob THEN Lo(lrBegin[r], f) ELSE lrBegin[r]
    OBVIOUS
  <2>3. b \in Nat /\ b =< lrBegin[r]
    BY <2>1, <2>2 DEF Lo
  <2>4. lrBegin'[r] = IF r \in x.out THEN Lo(b, u) ELSE b
    BY <1>4, <2>2
  <2>5. PICK e : e = IF r \in clob THEN Hi(lrEnd[r], u + 1) ELSE lrEnd[r]
    OBVIOUS
  <2>6. e \in Nat /\ lrEnd[r] =< e
    BY <2>1, <2>5 DEF Hi
  <2>7. lrEnd'[r] = IF r \in x.out \cup x.in THEN Hi(e, u) ELSE e
    BY <1>4, <2>5
  <2>8. /\ lrBegin'[r] \in Nat /\ lrBegin'[r] =< lrBegin[r]
        /\ r \in x.out => lrBegin'[r] =< u
    BY <2>1, <2>3, <2>4 DEF Lo
  <2>9. /\ lrEnd'[r] \in Nat /\ lrEnd[r] =< lrEnd'[r]
        /\ r \in x.out \/ r \in x.in => u =< lrEnd'[r]
    BY <2>1, <2>6, <2>7 DEF Hi
  <2> QED
    BY <2>1, <2>8, <2>9
<1>6. \A j \in 1..Len(rpo) : \A i \in 1..Len(code[rpo[j]]) :
        InsnPast(j, i)' <=> InsnPast(j, i) \/ (j = wb /\ i = q)
  BY <1>k, <1>n DEF InsnPast
<1>7. \A j \in 1..Len(rpo) : \A m \in 0..Len(code[rpo[j]]) :
        GapPast(j, m)' <=> GapPast(j, m) \/ (j = wb /\ m = q - 1)
  BY <1>k, <1>n DEF GapPast
<1>8. \A j, m : Time(j, m)' = Time(j, m) /\ Uid(j, m)' = Uid(j, m)
  BY <1>k DEF Time, Uid
<1>l. /\ q \in 1..Len(code[rpo[wb]]) /\ q \in 0..Len(code[rpo[wb]]) /\ q - 1 \in 0..Len(code[rpo[wb]])
      /\ Time(wb, q) = u /\ Time(wb, q - 1) = u - 1 /\ GapPast(wb, q) /\ x = code[rpo[wb]][q]
      /\ u = Uid(wb, q)
  <2>1. q \in 1..l /\ q \in 0..l /\ q - 1 \in 0..l
    BY <1>n
  <2>2. b1 + q - 1 = u /\ b1 + (q - 1) - 1 = u - 1
    BY <1>n, <1>u, SMTT(30)
  <2>3. Time(wb, q) = u /\ Time(wb, q - 1) = u - 1
    BY <1>n, <2>2 DEF Time
  <2>4. q =< q
    OBVIOUS
  <2>5. GapPast(wb, q)
    BY <1>k, <1>n, <2>4 DEF GapPast
  <2> QED
    BY <1>n, <1>u, <1>x, <2>1, <2>3, <2>5
<1>s. ASSUME NEW r \in point[rpo[wb]][q - 1]
      PROVE  /\ r \in Reg /\ StartsBy(ranges'[r], bs) /\ CoveredBy(ranges'[r], u - 1)
             /\ u =< lrEnd'[r]
  <2>1. /\ r \in Reg
        /\ r \in x.in \/ (r \in point[rpo[wb]][q] /\ r \notin x.out)
    BY <1>b, <1>l, LeftSets
  <2>2. r \in point[rpo[wb]][q] => StartsBy(ranges[r], bs) /\ u < lrEnd[r]
    <3>1. r \in point[rpo[wb]][q] => StartsBy(ranges[r], bs)
      BY <1>i, <1>k, <1>n DEF OpenOK
    <3>2. r \in point[rpo[wb]][q] => Time(wb, q) < lrEnd[r]
      BY <1>i, <1>k, <1>b, <1>1, <1>l DEF CoverOK
    <3> QED
      BY <1>l, <3>1, <3>2
  <2>3. StartsBy(ranges'[r], bs)
    BY <1>5, <2>1, <2>2
  <2>4. u =< lrEnd'[r]
    BY <1>5a, <2>1, <2>2
  <2>5. CoveredBy(ranges'[r], u - 1)
    <3>1. PICK t : t = ranges'[r] /\ Sorted(t) /\ EndsAfter(t, u - 1) /\ StartsBy(t, bs)
      BY <1>5, <2>1, <2>3
    <3>2. 1 \in DOMAIN t /\ t[1][1] \in Nat
      BY <3>1, SpanOf DEF Sorted, StartsBy
    <3>3. t[1][1] =< u - 1 /\ u - 1 < t[1][2]
      BY <1>u, <3>1, <3>2 DEF EndsAfter, StartsBy
    <3> QED
      BY <3>1, <3>2, <3>3 DEF CoveredBy
  <2> QED
    BY <2>1, <2>3, <2>4, <2>5
<1>9. ASSUME NEW r \in Reg
      PROVE  /\ usePos'[r] \in Seq(Nat)
             /\ Falling(usePos'[r])
             /\ \A n \in DOMAIN usePos'[r] :
                  (n \in DOMAIN usePos[r] /\ usePos'[r][n] = usePos[r][n])
                  \/ (usePos'[r][n] = u /\ Names(x, r))
             /\ \A n \in DOMAIN usePos[r] : n \in DOMAIN usePos'[r] /\ usePos'[r][n] = usePos[r][n]
             /\ Names(x, r) => \E n \in DOMAIN usePos'[r] : usePos'[r][n] = u
  <2>1. PICK s, t : s = usePos[r] /\ t = usePos'[r] /\ t = s \o Named(r, x, u)
    BY <1>4
  <2>2. s \in Seq(Nat)
    BY <1>i, <2>1 DEF ListsOK
  <2>3. Falling(s)
    BY <1>i, <2>1 DEF UsesOK, Falling
  <2>4. ASSUME NEW n \in DOMAIN s PROVE u =< s[n]
    <3>1. PICK j \in DOMAIN rpo : \E i \in DOMAIN code[rpo[j]] :
            InsnPast(j, i) /\ Names(code[rpo[j]][i], r) /\ usePos[r][n] = Uid(j, i)
      BY <1>i, <1>k, <2>1, <2>4 DEF UsesOK
    <3>2. PICK i \in DOMAIN code[rpo[j]] : InsnPast(j, i) /\ usePos[r][n] = Uid(j, i)
      BY <3>1
    <3>3. j \in 1..Len(rpo) /\ i \in 1..Len(code[rpo[j]])
      BY <1>1, <1>b, Left
    <3>4. Uid(j, i) \in Nat /\ Front < Uid(j, i)
      BY <1>i, <1>k, <3>2, <3>3, PastIsLater
    <3> QED
      BY <1>3, <2>1, <3>2, <3>4
  <2>b. NotBelow(s, u)
    BY <2>4 DEF NotBelow
  <2>5. t \in Seq(Nat) /\ Falling(t)
    BY <1>u, <2>1, <2>2, <2>3, <2>b, NamedOK
  <2>6. Adds(t, s, u, Names(x, r))
    BY <1>u, <2>1, <2>2, <2>3, <2>b, NamedOK
  <2> QED
    BY <2>1, <2>5, <2>6 DEF Adds
<1>10. ListsOK'
  <2>0. \A r \in Reg : ranges'[r] \in Seq(Span)
    BY <1>5 DEF Sorted
  <2>1. lrBegin' \in [Reg -> Nat] /\ lrEnd' \in [Reg -> Nat] /\ ranges' \in [Reg -> Seq(Span)]
    BY <1>4, <1>5a, <2>0
  <2>2. usePos' \in [Reg -> Seq(Nat)]
    BY <1>4, <1>9
  <2>3. \A r \in Reg : Sorted(ranges'[r]) /\ EndsAfter(ranges'[r], Front')
    BY <1>3, <1>5
  <2> QED
    BY <2>1, <2>2, <2>3 DEF ListsOK, Sorted, EndsAfter
<1>11. CoverOK'
  <2> SUFFICES ASSUME NEW j \in 1..Len(rpo), NEW m \in 0..Len(code[rpo[j]]),
                      NEW r \in point[rpo[j]][m], GapPast(j, m)'
               PROVE  /\ CoveredBy(ranges'[r], Time(j, m)) /\ Time(j, m) < lrEnd'[r]
                      /\ \/ lrBegin'[r] =< Time(j, m)
                         \/ j = wb /\ r \in point[rpo[j]][q - 1]
    BY <1>k, <1>1, <1>8, <1>n, ZenonT(60) DEF CoverOK, CoveredBy
  <2>0. r \in Reg
    BY <1>b, LeftSets
  <2>1. CASE GapPast(j, m)
    <3>1. Time(j, m) \in Nat /\ u =< Time(j, m)
      BY <1>i, <1>k, <1>3, <2>1, PastIsLater
    <3>2. /\ CoveredBy(ranges[r], Time(j, m)) /\ Time(j, m) < lrEnd[r]
          /\ \/ lrBegin[r] =< Time(j, m)
             \/ j = wb /\ r \in point[rpo[j]][q]
      BY <1>i, <1>k, <1>n, <1>1, <2>1 DEF CoverOK
    <3>3. CoveredBy(ranges'[r], Time(j, m))
      BY <1>5, <2>0, <3>1, <3>2
    <3>4. Time(j, m) < lrEnd'[r]
      BY <1>5a, <2>0, <3>1, <3>2
    <3>5. CASE lrBegin[r] =< Time(j, m)
      <4>1. lrBegin'[r] =< Time(j, m)
        BY <1>5a, <2>0, <3>1, <3>5
      <4> QED
        BY <3>3, <3>4, <4>1
    <3>6. CASE j = wb /\ r \in point[rpo[j]][q]
      <4>1. r \in point[rpo[wb]][q - 1] \/ r \in x.out
        BY <1>b, <1>l, <3>6, LeftSets
      <4>2. r \in x.out => lrBegin'[r] =< Time(j, m)
        BY <1>5a, <2>0, <3>1
      <4> QED
        BY <3>3, <3>4, <3>6, <4>1, <4>2
    <3> QED
      BY <3>2, <3>5, <3>6
  <2>2. CASE j = wb /\ m = q - 1
    BY <1>s, <1>l, <1>u, <1>5a, <2>0, <2>2, SMTT(30)
  <2> QED
    BY <1>7, <2>1, <2>2
<1>12. OpenOK'
  BY <1>k, <1>n, <1>s, <1>3 DEF OpenOK, StartsBy
<1>13. WrittenOK'
  <2> SUFFICES ASSUME NEW j \in 1..Len(rpo), NEW i \in 1..Len(code[rpo[j]]),
                      NEW r \in Written(code[rpo[j]][i]), InsnPast(j, i)'
               PROVE  /\ CoveredBy(ranges'[r], Uid(j, i))
                      /\ r \notin Hard => lrBegin'[r] =< Uid(j, i) /\ Uid(j, i) =< lrEnd'[r]
    <3>1. \A j \in 1..Len(rpo) : DOMAIN code[rpo[j]] = 1..Len(code[rpo[j]])
      BY <1>b, Left
    <3>2. \A r, t : CoveredBy(ranges[r], t)' <=> CoveredBy(ranges'[r], t)
      BY DEF CoveredBy
    <3> QED
      BY <1>k, <1>1, <1>8, <3>1, <3>2, SMTT(60) DEF WrittenOK, Written
  <2>0. r \in Reg /\ i \in DOMAIN code[rpo[j]]
    BY <1>b, Left, LeftSets
  <2>1. CASE InsnPast(j, i)
    <3>1. Uid(j, i) \in Nat /\ u =< Uid(j, i)
      BY <1>i, <1>k, <1>3, <2>1, PastIsLater
    <3>2. /\ CoveredBy(ranges[r], Uid(j, i))
          /\ r \notin Hard => lrBegin[r] =< Uid(j, i) /\ Uid(j, i) =< lrEnd[r]
      BY <1>i, <1>k, <1>1, <2>0, <2>1 DEF WrittenOK
    <3>3. CoveredBy(ranges'[r], Uid(j, i))
      BY <1>5, <2>0, <3>1, <3>2
    <3>4. r \notin Hard => lrBegin'[r] =< Uid(j, i) /\ Uid(j, i) =< lrEnd'[r]
      BY <1>5a, <2>0, <3>1, <3>2
    <3> QED
      BY <3>3, <3>4
  <2>2. CASE j = wb /\ i = q
    <3>1. r \in Written(x) /\ Uid(j, i) = u
      BY <1>l, <2>2
    <3>2. CoveredBy(ranges'[r], u)
      BY <1>5, <2>0, <3>1
    <3>3. r \notin Hard => r \in x.out
      BY <3>1, HardAssumption DEF Written
    <3>4. r \in x.out => lrBegin'[r] =< u /\ u =< lrEnd'[r]
      BY <1>5a, <2>0
    <3> QED
      BY <3>1, <3>2, <3>3, <3>4
  <2> QED
    BY <1>6, <2>1, <2>2
<1>14. UsesOK'
  <2> SUFFICES ASSUME NEW r \in Reg
               PROVE  /\ \A n \in DOMAIN usePos'[r] :
                           \E j \in DOMAIN rpo : \E i \in DOMAIN code[rpo[j]] :
                             /\ InsnPast(j, i) \/ (j = wb /\ i = q)
                             /\ Names(code[rpo[j]][i], r)
                             /\ usePos'[r][n] = Uid(j, i)
                      /\ \A j \in DOMAIN rpo : \A i \in DOMAIN code[rpo[j]] :
                           (InsnPast(j, i) \/ (j = wb /\ i = q)) /\ Names(code[rpo[j]][i], r) =>
                             \E n \in DOMAIN usePos'[r] : usePos'[r][n] = Uid(j, i)
    <3>1. \A j \in 1..Len(rpo) : DOMAIN code[rpo[j]] = 1..Len(code[rpo[j]])
      BY <1>b, Left
    <3>2. \A j \in DOMAIN rpo : \A i \in DOMAIN code[rpo[j]] :
            InsnPast(j, i)' <=> InsnPast(j, i) \/ (j = wb /\ i = q)
      BY <1>1, <1>6, <3>1
    <3> QED
      BY <1>k, <1>8, <1>9, <3>2 DEF UsesOK, Falling
  <2>0. \A j \in 1..Len(rpo) : DOMAIN code[rpo[j]] = 1..Len(code[rpo[j]])
    BY <1>b, Left
  <2>1. ASSUME NEW n \in DOMAIN usePos'[r]
        PROVE  \E j \in DOMAIN rpo : \E i \in DOMAIN code[rpo[j]] :
                 /\ InsnPast(j, i) \/ (j = wb /\ i = q)
                 /\ Names(code[rpo[j]][i], r) /\ usePos'[r][n] = Uid(j, i)
    <3>1. CASE n \in DOMAIN usePos[r] /\ usePos'[r][n] = usePos[r][n]
      <4>1. PICK j \in DOMAIN rpo : \E i \in DOMAIN code[rpo[j]] :
              InsnPast(j, i) /\ Names(code[rpo[j]][i], r) /\ usePos[r][n] = Uid(j, i)
        BY <1>i, <1>k, <3>1 DEF UsesOK
      <4>2. PICK i \in DOMAIN code[rpo[j]] :
              InsnPast(j, i) /\ Names(code[rpo[j]][i], r) /\ usePos[r][n] = Uid(j, i)
        BY <4>1
      <4> QED
        BY <3>1, <4>2
    <3>2. CASE usePos'[r][n] = u /\ Names(x, r)
      <4>2. wb \in DOMAIN rpo /\ q \in DOMAIN code[rpo[wb]]
        BY <1>1, <1>b, <1>l, <2>0
      <4> QED
        BY <1>l, <3>2, <4>2
    <3> QED
      BY <1>9, <3>1, <3>2
  <2>2. ASSUME NEW j \in DOMAIN rpo, NEW i \in DOMAIN code[rpo[j]],
               InsnPast(j, i) \/ (j = wb /\ i = q), Names(code[rpo[j]][i], r)
        PROVE  \E n \in DOMAIN usePos'[r] : usePos'[r][n] = Uid(j, i)
    <3>1. CASE InsnPast(j, i)
      <4>1. PICK n \in DOMAIN usePos[r] : usePos[r][n] = Uid(j, i)
        BY <1>i, <1>k, <2>2, <3>1 DEF UsesOK
      <4> QED
        BY <1>9, <4>1
    <3>2. CASE j = wb /\ i = q
      BY <1>9, <1>l, <2>2, <3>2
    <3> QED
      BY <2>2, <3>1, <3>2
  <2> QED
    BY <2>1, <2>2
<1> QED
  BY <1>2, <1>10, <1>11, <1>12, <1>13, <1>14 DEF IntervalInv

\* bitmap_iterate over the live-in set, and on to the block before.
LEMMA EnterStep == ASSUME Inv, WalkInv, IntervalInv, EnterBackwards PROVE IntervalInv'
<1>k. /\ Inv' /\ WalkInv' /\ rpo' = rpo /\ code' = code /\ point' = point /\ pc' = pc
      /\ phase = "insn" /\ wk = 0 /\ wk' = wk /\ usePos' = usePos /\ lrEnd' = lrEnd
      /\ firstUid' = firstUid /\ last' = IF code[rpo[wb]] = <<>> THEN last ELSE firstUid[wb]
  BY RestKeeps DEF EnterBackwards, Block_
<1>t. \/ wb > 1 /\ wb' = wb - 1 /\ phase' = "leave"
      \/ ~ (wb > 1) /\ wb' = wb /\ phase' = "end"
  BY DEF EnterBackwards
<1>i. NumbersGiven /\ ListsOK /\ CoverOK /\ WrittenOK /\ UsesOK
  BY DEF IntervalInv
<1>b. /\ wb \in 1..Len(rpo) /\ wb \in Nat /\ wb + 1 \in 1..(Len(rpo) + 1) /\ pc = "done"
      /\ firstUid[wb] \in Nat \ {0} /\ firstUid[wb + 1] \in Nat
      /\ firstUid[wb + 1] = firstUid[wb] + Len(code[rpo[wb]])
      /\ Len(code[rpo[wb]]) \in Nat
      /\ AfterEnd = firstUid[wb + 1] /\ BeforeStart = firstUid[wb] - 1
      /\ BeforeStart \in Nat /\ AfterEnd \in Nat /\ BeforeStart < AfterEnd
  BY <1>k, <1>i, Borders
<1>1. DOMAIN rpo = 1..Len(rpo) /\ Len(rpo) \in Nat
  BY <1>b, Left
<1>n. PICK bs \in Nat : bs = BeforeStart /\ bs = firstUid[wb] - 1
  BY <1>b
<1>2. NumbersGiven'
  <2>1. NumbersOK(firstUid)'
    BY <1>k, <1>i DEF NumbersOK, NumbersGiven
  <2>2. wb' \in 1..Len(rpo)
    BY <1>t, <1>b, <1>1
  <2>3. phase' = "leave" => wb' + 1 = wb
    BY <1>t, <1>b
  <2>4. AfterEnd' = firstUid[wb]
    <3>1. CASE code[rpo[wb]] = <<>>
      <4>1. Len(code[rpo[wb]]) = 0
        BY <1>b, <3>1, Left
      <4>2. AfterEnd' = AfterEnd
        BY <1>k, <3>1 DEF AfterEnd, InsnOrder
      <4> QED
        BY <1>b, <4>1, <4>2
    <3>2. CASE code[rpo[wb]] # <<>>
      BY <1>k, <1>b, <3>2 DEF AfterEnd, InsnOrder
    <3> QED
      BY <3>1, <3>2
  <2> QED
    BY <1>k, <1>t, <1>b, <2>1, <2>2, <2>3, <2>4 DEF NumbersGiven
<1>3. Front = bs /\ (phase' = "leave" => Front' = bs)
  <2>1. Front = bs
    BY <1>k, <1>b, <1>n DEF Front
  <2>2. phase' = "leave" => wb' + 1 = wb
    BY <1>t, <1>b
  <2> QED
    BY <1>k, <1>n, <2>1, <2>2 DEF Front
<1>4. /\ lrBegin' = [r \in Reg |-> IF r \in livein[rpo[wb]] THEN Lo(lrBegin[r], bs) ELSE lrBegin[r]]
      /\ ranges' = [r \in Reg |-> IF r \in livein[rpo[wb]]
                                  THEN AddDef(ranges[r], bs) ELSE ranges[r]]
  BY <1>n DEF EnterBackwards, BeginAtEntry, Block_
<1>5. ASSUME NEW r \in Reg
      PROVE  /\ Sorted(ranges'[r]) /\ EndsAfter(ranges'[r], bs)
             /\ \A y \in Nat : bs =< y /\ CoveredBy(ranges[r], y) => CoveredBy(ranges'[r], y)
             /\ lrBegin[r] \in Nat /\ lrBegin'[r] \in Nat /\ lrBegin'[r] =< lrBegin[r]
             /\ r \in livein[rpo[wb]] => lrBegin'[r] =< bs
             /\ lrEnd[r] \in Nat
  <2>1. Sorted(ranges[r]) /\ EndsAfter(ranges[r], bs)
    BY <1>k, <1>i, <1>3 DEF ListsOK
  <2>2. lrBegin[r] \in Nat /\ lrEnd[r] \in Nat
    BY <1>i DEF ListsOK
  <2>3. /\ lrBegin'[r] \in Nat /\ lrBegin'[r] =< lrBegin[r]
        /\ r \in livein[rpo[wb]] => lrBegin'[r] =< bs
    BY <1>4, <2>2 DEF Lo
  <2>4. /\ Sorted(ranges'[r]) /\ EndsAfter(ranges'[r], bs)
        /\ \A y \in Nat : bs =< y /\ CoveredBy(ranges[r], y) => CoveredBy(ranges'[r], y)
    <3>1. CASE r \in livein[rpo[wb]]
      <4>1. PICK s, t : s = ranges[r] /\ t = ranges'[r] /\ t = AddDef(s, bs)
        BY <1>4, <3>1
      <4>2. /\ Sorted(t) /\ EndsAfter(t, bs)
            /\ \A y \in Nat : bs =< y /\ CoveredBy(s, y) => CoveredBy(t, y)
        BY <2>1, <4>1, AddDefOK
      <4> QED
        BY <4>1, <4>2
    <3>2. CASE r \notin livein[rpo[wb]]
      <4>1. ranges'[r] = ranges[r]
        BY <1>4, <3>2
      <4> QED
        BY <2>1, <4>1
    <3> QED
      BY <3>1, <3>2
  <2> QED
    BY <2>2, <2>3, <2>4
<1>6. \A j \in 1..Len(rpo) : \A i \in 1..Len(code[rpo[j]]) : InsnPast(j, i)' <=> InsnPast(j, i)
  BY <1>k, <1>t, <1>b DEF InsnPast
<1>7. \A j \in 1..Len(rpo) : \A m \in 0..Len(code[rpo[j]]) : GapPast(j, m)' <=> GapPast(j, m)
  BY <1>k, <1>t, <1>b DEF GapPast
<1>8. \A j, m : Time(j, m)' = Time(j, m) /\ Uid(j, m)' = Uid(j, m)
  BY <1>k DEF Time, Uid
<1>p. phase' # "insn" /\ phase' # "live" /\ phase # "live"
  BY <1>k, <1>t
<1>10. ListsOK'
  <2>0. \A r \in Reg : ranges'[r] \in Seq(Span)
    BY <1>5 DEF Sorted
  <2>1. /\ lrBegin' \in [Reg -> Nat] /\ lrEnd' \in [Reg -> Nat] /\ ranges' \in [Reg -> Seq(Span)]
        /\ usePos' \in [Reg -> Seq(Nat)]
    BY <1>k, <1>i, <1>4, <1>5, <2>0 DEF ListsOK
  <2>2. \A r \in Reg : Sorted(ranges'[r])
    BY <1>5
  <2>3. phase' \in {"leave", "insn"} => \A r \in Reg : EndsAfter(ranges'[r], Front')
    BY <1>p, <1>3, <1>5
  <2> QED
    BY <2>1, <2>2, <2>3 DEF ListsOK, Sorted, EndsAfter
<1>11. CoverOK'
  <2> SUFFICES ASSUME NEW j \in 1..Len(rpo), NEW m \in 0..Len(code[rpo[j]]),
                      NEW r \in point[rpo[j]][m], GapPast(j, m)'
               PROVE  /\ CoveredBy(ranges'[r], Time(j, m)) /\ Time(j, m) < lrEnd[r]
                      /\ lrBegin'[r] =< Time(j, m)
    BY <1>k, <1>1, <1>8 DEF CoverOK, CoveredBy
  <2>0. r \in Reg
    BY <1>b, LeftSets
  <2>1. GapPast(j, m)
    BY <1>7
  <2>2. Time(j, m) \in Nat /\ bs =< Time(j, m)
    BY <1>i, <1>k, <1>3, <2>1, PastIsLater
  <2>3. /\ CoveredBy(ranges[r], Time(j, m)) /\ Time(j, m) < lrEnd[r]
        /\ \/ lrBegin[r] =< Time(j, m)
           \/ j = wb /\ r \in point[rpo[j]][wk]
    BY <1>i, <1>k, <1>p, <1>1, <2>1 DEF CoverOK
  <2>4. CoveredBy(ranges'[r], Time(j, m))
    BY <1>5, <2>0, <2>2, <2>3
  <2>5. CASE lrBegin[r] =< Time(j, m)
    <3>1. lrBegin'[r] =< Time(j, m)
      BY <1>5, <2>0, <2>2, <2>5
    <3> QED
      BY <2>3, <2>4, <3>1
  <2>6. CASE j = wb /\ r \in point[rpo[j]][wk]
    <3>1. r \in livein[rpo[wb]]
      BY <1>k, <1>b, <2>6, LeftSets
    <3>2. lrBegin'[r] =< Time(j, m)
      BY <1>5, <2>0, <2>2, <3>1
    <3> QED
      BY <2>3, <2>4, <3>2
  <2> QED
    BY <2>3, <2>5, <2>6
<1>12. OpenOK'
  BY <1>p DEF OpenOK
<1>13. WrittenOK'
  <2> SUFFICES ASSUME NEW j \in 1..Len(rpo), NEW i \in 1..Len(code[rpo[j]]),
                      NEW r \in Written(code[rpo[j]][i]), InsnPast(j, i)'
               PROVE  /\ CoveredBy(ranges'[r], Uid(j, i))
                      /\ r \notin Hard => lrBegin'[r] =< Uid(j, i) /\ Uid(j, i) =< lrEnd[r]
    <3>1. \A j \in 1..Len(rpo) : DOMAIN code[rpo[j]] = 1..Len(code[rpo[j]])
      BY <1>b, Left
    <3> QED
      BY <1>k, <1>1, <1>8, <3>1 DEF WrittenOK, Written, CoveredBy
  <2>0. r \in Reg /\ i \in DOMAIN code[rpo[j]]
    BY <1>b, Left, LeftSets
  <2>1. InsnPast(j, i)
    BY <1>6
  <2>2. Uid(j, i) \in Nat /\ bs =< Uid(j, i)
    BY <1>i, <1>k, <1>3, <2>1, PastIsLater
  <2>3. /\ CoveredBy(ranges[r], Uid(j, i))
        /\ r \notin Hard => lrBegin[r] =< Uid(j, i) /\ Uid(j, i) =< lrEnd[r]
    BY <1>i, <1>p, <1>1, <2>0, <2>1 DEF WrittenOK
  <2>4. CoveredBy(ranges'[r], Uid(j, i))
    BY <1>5, <2>0, <2>2, <2>3
  <2>5. r \notin Hard => lrBegin'[r] =< Uid(j, i) /\ Uid(j, i) =< lrEnd[r]
    BY <1>5, <2>0, <2>2, <2>3
  <2> QED
    BY <2>4, <2>5
<1>14. UsesOK'
  <2>1. \A j \in 1..Len(rpo) : DOMAIN code[rpo[j]] = 1..Len(code[rpo[j]])
    BY <1>b, Left
  <2>2. \A j \in DOMAIN rpo : \A i \in DOMAIN code[rpo[j]] : InsnPast(j, i)' <=> InsnPast(j, i)
    BY <1>1, <1>6, <2>1
  <2> QED
    BY <1>k, <1>i, <1>p, <1>8, <2>2 DEF UsesOK
<1> QED
  BY <1>2, <1>10, <1>11, <1>12, <1>13, <1>14 DEF IntervalInv

\* Beginnings only move to the front of the code.
LEMMA FinishStep == ASSUME Inv, WalkInv, IntervalInv, FinishWalk PROVE IntervalInv'
<1>k. /\ Inv' /\ WalkInv' /\ rpo' = rpo /\ code' = code /\ point' = point /\ pc' = pc
      /\ phase = "end" /\ phase' = "done" /\ wk' = wk /\ wb' = wb /\ last' = last
      /\ usePos' = usePos /\ lrEnd' = lrEnd /\ ranges' = ranges /\ firstUid' = firstUid
  BY RestKeeps DEF FinishWalk
<1>i. NumbersGiven /\ ListsOK /\ CoverOK /\ WrittenOK /\ UsesOK
  BY DEF IntervalInv
<1>0. pc = "done"
  BY <1>k, <1>i DEF NumbersGiven
<1>1. ASSUME NEW r \in Reg
      PROVE  lrBegin[r] \in Nat /\ lrBegin'[r] \in Nat /\ lrBegin'[r] =< lrBegin[r]
  BY <1>i DEF ListsOK, FinishWalk
<1>2. NumbersGiven'
  BY <1>k, <1>i DEF NumbersGiven, NumbersOK
<1>3. ListsOK'
  <2>1. lrBegin' \in [Reg -> Nat]
    BY <1>1 DEF FinishWalk
  <2> QED
    BY <1>k, <1>i, <2>1 DEF ListsOK, Sorted, EndsAfter
<1>4. /\ DOMAIN rpo = 1..Len(rpo)
      /\ \A j \in 1..Len(rpo) : DOMAIN code[rpo[j]] = 1..Len(code[rpo[j]])
  BY <1>0, Left
<1>5. NumbersOK(firstUid)
  BY <1>k, <1>i DEF NumbersGiven
<1>6. \A j \in 1..Len(rpo) : firstUid[j] \in Nat /\ Len(code[rpo[j]]) \in Nat
  <2>1. \A j \in 1..Len(rpo) : j \in 1..(Len(rpo) + 1)
    BY <1>0, Left
  <2> QED
    BY <1>0, <1>5, <2>1, Left DEF NumbersOK
<1>7. CoverOK'
  <2> SUFFICES ASSUME NEW j \in 1..Len(rpo), NEW m \in 0..Len(code[rpo[j]]),
                      NEW r \in point[rpo[j]][m]
               PROVE  /\ CoveredBy(ranges[r], Time(j, m)) /\ Time(j, m) < lrEnd[r]
                      /\ lrBegin'[r] =< Time(j, m)
    BY <1>k, <1>4 DEF CoverOK, CoveredBy, Time
  <2>1. r \in Reg
    BY <1>0, LeftSets
  <2>2. /\ CoveredBy(ranges[r], Time(j, m)) /\ Time(j, m) < lrEnd[r]
        /\ lrBegin[r] =< Time(j, m)
    BY <1>k, <1>i, <1>4 DEF CoverOK, GapPast
  <2>3. Time(j, m) \in Int
    BY <1>6 DEF Time
  <2> QED
    BY <1>1, <2>1, <2>2, <2>3
<1>8. OpenOK'
  BY <1>k DEF OpenOK
<1>9. WrittenOK'
  <2> SUFFICES ASSUME NEW j \in 1..Len(rpo), NEW i \in 1..Len(code[rpo[j]]),
                      NEW r \in Written(code[rpo[j]][i])
               PROVE  /\ CoveredBy(ranges[r], Uid(j, i))
                      /\ r \notin Hard => lrBegin'[r] =< Uid(j, i) /\ Uid(j, i) =< lrEnd[r]
    BY <1>k, <1>4, SMTT(30) DEF WrittenOK, Written, CoveredBy, Uid, InsnPast
  <2>1. r \in Reg
    BY <1>0, LeftSets
  <2>2. i \in DOMAIN code[rpo[j]] /\ j \in DOMAIN rpo
    BY <1>4
  <2>3. /\ CoveredBy(ranges[r], Uid(j, i))
        /\ r \notin Hard => lrBegin[r] =< Uid(j, i) /\ Uid(j, i) =< lrEnd[r]
    BY <1>k, <1>i, <2>2 DEF WrittenOK, InsnPast
  <2>4. Uid(j, i) \in Int
    BY <1>6 DEF Uid
  <2> QED
    BY <1>1, <2>1, <2>3, <2>4
<1>10. UsesOK'
  BY <1>k, <1>i DEF UsesOK, InsnPast, Uid
<1> QED
  BY <1>2, <1>3, <1>7, <1>8, <1>9, <1>10 DEF IntervalInv

\* While the live sets are computed nothing is behind the walk.
LEMMA LiveStep ==
  ASSUME IntervalInv, phase = "live", UNCHANGED <<phase, intervalVars>>
  PROVE  IntervalInv'
<1>k. /\ phase' = "live" /\ wk' = wk /\ wb' = wb /\ last' = last /\ lrBegin' = lrBegin
      /\ usePos' = usePos /\ lrEnd' = lrEnd /\ ranges' = ranges /\ firstUid' = firstUid
  BY DEF intervalVars
<1>i. NumbersGiven /\ ListsOK /\ UsesOK
  BY DEF IntervalInv
<1>1. NumbersGiven'
  BY <1>k, <1>i DEF NumbersGiven
<1>2. ListsOK'
  BY <1>k, <1>i DEF ListsOK, Sorted, EndsAfter
<1>3. CoverOK' /\ OpenOK' /\ WrittenOK'
  BY <1>k DEF CoverOK, OpenOK, WrittenOK
<1>4. UsesOK'
  BY <1>k, <1>i DEF UsesOK
<1> QED
  BY <1>1, <1>2, <1>3, <1>4 DEF IntervalInv

\* A step that changes nothing.
LEMMA IdleStep == ASSUME IntervalInv, UNCHANGED allVars PROVE IntervalInv'
<1>k. /\ phase' = phase /\ wk' = wk /\ wb' = wb /\ last' = last /\ lrBegin' = lrBegin
      /\ usePos' = usePos /\ lrEnd' = lrEnd /\ ranges' = ranges /\ firstUid' = firstUid
      /\ rpo' = rpo /\ code' = code /\ point' = point /\ pc' = pc
  BY DEF allVars, intervalVars, vars, orderVars, liveVars
<1>i. NumbersGiven /\ ListsOK /\ CoverOK /\ OpenOK /\ WrittenOK /\ UsesOK
  BY DEF IntervalInv
<1>1. NumbersGiven'
  BY <1>k, <1>i DEF NumbersGiven, NumbersOK, AfterEnd, InsnOrder, Block_
<1>2. ListsOK'
  BY <1>k, <1>i DEF ListsOK, Sorted, EndsAfter, Front
<1>3. CoverOK'
  BY <1>k, <1>i DEF CoverOK, CoveredBy, GapPast, Time
<1>4. OpenOK'
  BY <1>k, <1>i DEF OpenOK, StartsBy, BeforeStart, AfterEnd, InsnOrder, Block_
<1>5. WrittenOK'
  BY <1>k, <1>i DEF WrittenOK, Written, CoveredBy, InsnPast, Uid
<1>6. UsesOK'
  BY <1>k, <1>i DEF UsesOK, InsnPast, Uid
<1> QED
  BY <1>1, <1>2, <1>3, <1>4, <1>5, <1>6 DEF IntervalInv

-----------------------------------------------------------------------------
\* The invariant of a whole run of linear_scan_regalloc up to the scan: the
\* blocks are numbered and the live sets solved as in modules Liveness_proofs
\* and Exactness_proofs, and the ranges are right for what the walk has behind it.
THEOREM IntervalInvariance == IntervalSpec => [](Inv /\ WalkInv /\ IntervalInv)
<1>1. IntervalInit => Inv /\ WalkInv /\ IntervalInv
  <2> SUFFICES ASSUME IntervalInit PROVE Inv /\ WalkInv /\ IntervalInv
    OBVIOUS
  <2>1. Inv /\ WalkInv
    BY InitInv, WalkInit DEF IntervalInit
  <2>2. /\ phase = "live" /\ firstUid = <<>>
        /\ lrBegin = [r \in Reg |-> 0] /\ lrEnd = [r \in Reg |-> 0]
        /\ ranges = [r \in Reg |-> <<>>] /\ usePos = [r \in Reg |-> <<>>]
    BY DEF IntervalInit
  <2>3. <<>> \in Seq(Nat) /\ <<>> \in Seq(Span) /\ Sorted(<<>>)
    BY EmptySeq DEF Sorted
  <2>4. NumbersGiven
    BY <2>2 DEF NumbersGiven
  <2>5. ListsOK
    BY <2>2, <2>3 DEF ListsOK
  <2>6. CoverOK /\ OpenOK /\ WrittenOK
    BY <2>2 DEF CoverOK, OpenOK, WrittenOK
  <2>7. UsesOK
    BY <2>2 DEF UsesOK
  <2> QED
    BY <2>1, <2>4, <2>5, <2>6, <2>7 DEF IntervalInv
<1>2. Inv /\ WalkInv /\ IntervalInv /\ [IntervalNext]_allVars => (Inv /\ WalkInv /\ IntervalInv)'
  <2> SUFFICES ASSUME Inv, WalkInv, IntervalInv, [IntervalNext]_allVars
               PROVE  Inv' /\ WalkInv' /\ IntervalInv'
    OBVIOUS
  <2>1. CASE LiveSets
    <3>1. Inv' /\ WalkInv'
      BY <2>1, NextInv, WalkStep DEF LiveSets
    <3> QED
      BY <2>1, <3>1, LiveStep DEF LiveSets
  <2>2. CASE StartWalk
    BY <2>2, RestKeeps, StartStep DEF StartWalk
  <2>3. CASE LeaveBackwards
    BY <2>3, RestKeeps, LeaveStep DEF LeaveBackwards
  <2>4. CASE WalkBack
    BY <2>4, RestKeeps, InsnStep DEF WalkBack
  <2>5. CASE EnterBackwards
    BY <2>5, RestKeeps, EnterStep DEF EnterBackwards
  <2>6. CASE FinishWalk
    BY <2>6, RestKeeps, FinishStep DEF FinishWalk
  <2>7. CASE UNCHANGED allVars
    BY <2>7, RestKeeps, IdleStep DEF allVars
  <2> QED
    BY <2>1, <2>2, <2>3, <2>4, <2>5, <2>6, <2>7 DEF IntervalNext
<1> QED
  BY <1>1, <1>2, PTL DEF IntervalSpec

\* The types of the walk's variables.
THEOREM IntervalTypeHolds == IntervalSpec => []IntervalTypeOK
<1>1. Inv /\ WalkInv /\ IntervalInv => IntervalTypeOK
  <2> SUFFICES ASSUME Inv, WalkInv, IntervalInv PROVE IntervalTypeOK
    OBVIOUS
  <2>i. NumbersGiven /\ ListsOK
    BY DEF IntervalInv
  <2>1. firstUid \in Seq(Nat)
    <3>1. CASE phase = "live"
      BY <2>i, <3>1, EmptySeq DEF NumbersGiven
    <3>2. CASE phase # "live"
      <4>1. Len(rpo) + 1 \in Nat
        BY <2>i, <3>2, Left DEF NumbersGiven
      <4>2. firstUid \in [1..(Len(rpo) + 1) -> Nat]
        BY <2>i, <3>2 DEF NumbersGiven, NumbersOK
      <4> QED
        BY <4>1, <4>2, IsASeq
    <3> QED
      BY <3>1, <3>2
  <2>2. ranges \in [Reg -> Seq(Nat \X Nat)] /\ usePos \in [Reg -> Seq(Nat)]
    BY <2>i DEF ListsOK, Span
  <2>4. phase # "live" => wb \in DOMAIN rpo
    BY <2>i, Left DEF NumbersGiven
  <2> QED
    BY <2>i, <2>1, <2>2, <2>4 DEF IntervalTypeOK, NumbersGiven, ListsOK
<1> QED
  BY <1>1, IntervalInvariance, PTL

\* At the end every point of the code at which a register is live lies in its ranges.
LEMMA FoundIsCovered ==
  ASSUME Inv, WalkInv, IntervalInv, phase = "done",
         NEW j \in DOMAIN rpo, NEW m \in 0..Len(code[rpo[j]]), NEW r \in point[rpo[j]][m]
  PROVE  /\ CoveredBy(ranges[r], Time(j, m))
         /\ lrBegin[r] =< Time(j, m) /\ Time(j, m) < lrEnd[r]
BY DEF IntervalInv, CoverOK, GapPast

\* What the walk has left when it is over.
LEMMA AtEnd ==
  ASSUME Inv, WalkInv, IntervalInv, phase = "done"
  PROVE  /\ pc = "done" /\ NumbersOK(firstUid) /\ Len(rpo) \in Nat
         /\ DOMAIN rpo = 1..Len(rpo) /\ InsnOrder \in Nat
         /\ \A r \in Reg : lrBegin[r] \in Nat /\ lrEnd[r] \in Nat /\ Sorted(ranges[r])
         /\ \A j \in 1..Len(rpo) :
              /\ DOMAIN code[rpo[j]] = 1..Len(code[rpo[j]]) /\ Len(code[rpo[j]]) \in Nat
              /\ firstUid[j] \in Nat \ {0} /\ firstUid[j + 1] \in Nat
              /\ firstUid[j + 1] = firstUid[j] + Len(code[rpo[j]])
              /\ firstUid[j + 1] =< InsnOrder
<1>1. pc = "done" /\ NumbersOK(firstUid)
  BY DEF IntervalInv, NumbersGiven
<1>2. /\ Len(rpo) \in Nat /\ DOMAIN rpo = 1..Len(rpo)
      /\ \A j \in 1..Len(rpo) :
           DOMAIN code[rpo[j]] = 1..Len(code[rpo[j]]) /\ Len(code[rpo[j]]) \in Nat
  BY <1>1, Left
<1>3. \A r \in Reg : lrBegin[r] \in Nat /\ lrEnd[r] \in Nat /\ Sorted(ranges[r])
  BY DEF IntervalInv, ListsOK
<1>4. Len(rpo) + 1 \in 1..(Len(rpo) + 1)
  BY <1>2
<1>5. InsnOrder \in Nat
  BY <1>1, <1>4 DEF InsnOrder, NumbersOK
<1>6. ASSUME NEW j \in 1..Len(rpo)
      PROVE  /\ firstUid[j] \in Nat \ {0} /\ firstUid[j + 1] \in Nat
             /\ firstUid[j + 1] = firstUid[j] + Len(code[rpo[j]])
             /\ firstUid[j + 1] =< InsnOrder
  <2>1. /\ j \in 1..(Len(rpo) + 1) /\ j + 1 \in 1..(Len(rpo) + 1) /\ j + 1 =< Len(rpo) + 1
    BY <1>2
  <2> QED
    BY <1>1, <1>4, <2>1 DEF NumbersOK, InsnOrder
<1> QED
  BY <1>1, <1>2, <1>3, <1>5, <1>6

\* No point of time at which some path may still read a register is left out of
\* its range, although there is one range for the whole linear order and the walk
\* sees neither loops nor the jumps over blocks.
THEOREM CoversHolds == IntervalSpec => []Covers
<1>1. Inv /\ WalkInv /\ IntervalInv => Covers
  <2> SUFFICES ASSUME Inv, WalkInv, IntervalInv, phase = "done", NEW r \in Reg,
                      NEW j \in DOMAIN rpo, NEW i \in 1..(Len(code[rpo[j]]) + 1),
                      <<rpo[j], i>> \in LiveGaps(r)
               PROVE  IF r \in Hard THEN \E g \in DOMAIN ranges[r] :
                                           ranges[r][g][1] =< Point(j, i) /\ Point(j, i) < ranges[r][g][2]
                      ELSE lrBegin[r] =< Point(j, i) /\ Point(j, i) < lrEnd[r]
    BY DEF Covers
  <2>1. pc = "done" /\ Len(code[rpo[j]]) \in Nat /\ firstUid[j] \in Nat
    BY AtEnd
  <2>2. i \in Nat /\ i - 1 \in 0..Len(code[rpo[j]])
    BY <2>1
  <2>3. Point(j, i) = Time(j, i - 1)
    BY <2>1, <2>2 DEF Point, Time
  <2>4. r \in point[rpo[j]][i - 1]
    BY <2>1, <2>2, FoundAtPoint
  <2>5. /\ CoveredBy(ranges[r], Time(j, i - 1))
        /\ lrBegin[r] =< Time(j, i - 1) /\ Time(j, i - 1) < lrEnd[r]
    BY <2>2, <2>4, FoundIsCovered
  <2> QED
    BY <2>3, <2>5 DEF CoveredBy
<1> QED
  BY <1>1, IntervalInvariance, PTL

\* Whatever an instruction writes or destroys is in conflict with every virtual
\* register that is live behind it, so that the scan cannot give both the same
\* hard register.
THEOREM NoClobberHolds == IntervalSpec => []NoClobber
<1>1. Inv /\ WalkInv /\ IntervalInv => NoClobber
  <2> SUFFICES ASSUME Inv, WalkInv, IntervalInv, phase = "done", NEW v \in Virtual,
                      NEW j \in DOMAIN rpo, NEW i \in DOMAIN code[rpo[j]],
                      <<rpo[j], i + 1>> \in LiveGaps(v), v \notin code[rpo[j]][i].out,
                      NEW r \in Written(code[rpo[j]][i])
               PROVE  Conflict(r, v)
    BY DEF NoClobber
  <2>0. v \in Reg /\ v \notin Hard
    BY DEF Virtual
  <2>1. /\ pc = "done" /\ Len(code[rpo[j]]) \in Nat /\ firstUid[j] \in Nat \ {0}
        /\ i \in 1..Len(code[rpo[j]]) /\ j \in 1..Len(rpo)
    BY AtEnd
  <2>2. /\ i + 1 \in Nat /\ (i + 1) - 1 = i
        /\ i \in 0..Len(code[rpo[j]]) /\ i - 1 \in 0..Len(code[rpo[j]])
    BY <2>1
  <2>u. PICK u \in Nat : u = Uid(j, i) /\ Time(j, i) = u /\ Time(j, i - 1) = u - 1
    BY <2>1 DEF Uid, Time
  <2>3. v \in point[rpo[j]][i]
    BY <2>0, <2>1, <2>2, FoundAtPoint
  <2>4. v \in point[rpo[j]][i - 1] /\ r \in Reg
    BY <2>1, <2>3, LeftSets
  <2>5. /\ lrBegin[v] \in Nat /\ lrEnd[v] \in Nat /\ lrBegin[r] \in Nat /\ lrEnd[r] \in Nat
        /\ Sorted(ranges[r])
    BY <2>0, <2>4, AtEnd
  <2>6. u < lrEnd[v]
    BY <2>2, <2>3, <2>u, FoundIsCovered
  <2>7. lrBegin[v] =< u - 1
    BY <2>2, <2>4, <2>u, FoundIsCovered
  <2>8. /\ CoveredBy(ranges[r], u)
        /\ r \notin Hard => lrBegin[r] =< u /\ u =< lrEnd[r]
    BY <2>u DEF IntervalInv, WrittenOK, InsnPast
  <2>9. CASE r \in Hard
    <3>1. PICK g \in DOMAIN ranges[r] : ranges[r][g][1] =< u /\ u < ranges[r][g][2]
      BY <2>8 DEF CoveredBy
    <3>2. ranges[r][g][1] \in Nat /\ ranges[r][g][2] \in Nat
      BY <2>5, SpanOf DEF Sorted
    <3>3. Overlap(ranges[r][g][1], ranges[r][g][2], lrBegin[v], lrEnd[v])
      BY <2>5, <2>6, <2>7, <2>u, <3>1, <3>2 DEF Overlap
    <3>4. lrBegin[v] =< lrEnd[v]
      BY <2>5, <2>6, <2>7, <2>u
    <3>5. Intersects(ranges[r], lrBegin[v], lrEnd[v])
      BY <2>5, <3>3, <3>4, IntersectsOK
    <3> QED
      BY <2>9, <3>5 DEF Conflict
  <2>10. CASE r \notin Hard
    BY <2>5, <2>6, <2>7, <2>8, <2>u, <2>10 DEF Conflict, Overlap
  <2> QED
    BY <2>9, <2>10
<1> QED
  BY <1>1, IntervalInvariance, PTL

\* intersects_at, which stops at the first range beyond its argument, finds every
\* overlap, because the lists of the hard registers are sorted.
THEOREM ScanFindsOverlapHolds == IntervalSpec => []ScanFindsOverlap
<1>1. Inv /\ WalkInv /\ IntervalInv => ScanFindsOverlap
  <2> SUFFICES ASSUME Inv, WalkInv, IntervalInv, phase = "done", NEW h \in Hard,
                      NEW b \in 0..InsnOrder, NEW e \in 0..InsnOrder, b =< e
               PROVE  Intersects(ranges[h], b, e) <=>
                        \E g \in DOMAIN ranges[h] :
                          Overlap(ranges[h][g][1], ranges[h][g][2], b, e)
    BY DEF ScanFindsOverlap
  <2>1. h \in Reg
    BY HardAssumption
  <2>2. Sorted(ranges[h]) /\ InsnOrder \in Nat
    BY <2>1, AtEnd
  <2>3. b \in Nat /\ e \in Nat
    BY <2>2
  <2> QED
    BY <2>2, <2>3, IntersectsOK
<1> QED
  BY <1>1, IntervalInvariance, PTL

\* use_pos has exactly the instructions that name the register, the last one first:
\* the rewriting of a spilled register's operands misses none.
THEOREM UsesCompleteHolds == IntervalSpec => []UsesComplete
<1>1. Inv /\ WalkInv /\ IntervalInv => UsesComplete
  <2> SUFFICES ASSUME Inv, WalkInv, IntervalInv, phase = "done", NEW r \in Reg
               PROVE  /\ \A m, n \in DOMAIN usePos[r] : m < n => usePos[r][n] =< usePos[r][m]
                      /\ {usePos[r][n] : n \in DOMAIN usePos[r]} =
                           {u \in 1..(InsnOrder - 1) :
                              \E j \in DOMAIN rpo : \E i \in DOMAIN code[rpo[j]] :
                                u = Uid(j, i) /\ r \in code[rpo[j]][i].out \cup code[rpo[j]][i].in}
    BY DEF UsesComplete
  <2>1. /\ \A m, n \in DOMAIN usePos[r] : m < n => usePos[r][n] =< usePos[r][m]
        /\ \A n \in DOMAIN usePos[r] : \E j \in DOMAIN rpo : \E i \in DOMAIN code[rpo[j]] :
             Names(code[rpo[j]][i], r) /\ usePos[r][n] = Uid(j, i)
        /\ \A j \in DOMAIN rpo : \A i \in DOMAIN code[rpo[j]] :
             Names(code[rpo[j]][i], r) => \E n \in DOMAIN usePos[r] : usePos[r][n] = Uid(j, i)
    BY DEF IntervalInv, UsesOK, InsnPast
  <2>2. ASSUME NEW j \in DOMAIN rpo, NEW i \in DOMAIN code[rpo[j]]
        PROVE  Uid(j, i) \in 1..(InsnOrder - 1)
    <3>1. /\ InsnOrder \in Nat /\ j \in 1..Len(rpo) /\ i \in 1..Len(code[rpo[j]])
          /\ Len(code[rpo[j]]) \in Nat /\ firstUid[j] \in Nat \ {0} /\ firstUid[j + 1] \in Nat
          /\ firstUid[j + 1] = firstUid[j] + Len(code[rpo[j]])
          /\ firstUid[j + 1] =< InsnOrder
      BY AtEnd
    <3> QED
      BY <3>1, SMTT(30) DEF Uid
  <2>3. \A j \in DOMAIN rpo : \A i \in DOMAIN code[rpo[j]] :
          Names(code[rpo[j]][i], r) <=> r \in code[rpo[j]][i].out \cup code[rpo[j]][i].in
    BY DEF Names
  <2> QED
    BY <2>1, <2>2, <2>3
<1> QED
  BY <1>1, IntervalInvariance, PTL

-----------------------------------------------------------------------------
\* One range has everything from a to b; the first one has.
Stretch(s, a, b) == \E g \in DOMAIN s : s[g][1] =< a /\ b < s[g][2]
FirstStretch(s, a, b) == s # <<>> /\ s[1][1] =< a /\ b < s[1][2]

\* The first range is one of them.
LEMMA FirstIsStretch ==
  ASSUME NEW s \in Seq(Span), NEW a, NEW b, FirstStretch(s, a, b)
  PROVE  Stretch(s, a, b)
<1>1. 1 \in DOMAIN s BY SpanOf DEF FirstStretch
<1> QED BY <1>1 DEF Stretch, FirstStretch

\* add_range cuts no stretch, and one that begins no later than the new range
\* ends and is the first one grows to its beginning.
LEMMA AddRangeKeeps ==
  ASSUME NEW s, Sorted(s), NEW f \in Nat, NEW to \in Nat, f < to, NEW t, t = AddRange(s, f, to)
  PROVE  /\ \A a, b \in Nat : Stretch(s, a, b) => Stretch(t, a, b)
         /\ \A a, b \in Nat : FirstStretch(s, a, b) /\ a =< to =>
              FirstStretch(t, a, b) /\ FirstStretch(t, f, b)
         /\ FirstStretch(t, f, to - 1)
<1>0. /\ s \in Seq(Span) /\ DOMAIN s = 1..Len(s) /\ Len(s) \in Nat
      /\ \A g \in DOMAIN s : s[g][1] \in Nat /\ s[g][2] \in Nat /\ g \in Nat
      /\ s # <<>> => 1 \in DOMAIN s
  BY SpanOf DEF Sorted
<1>1. CASE s # <<>> /\ s[1][1] =< to
  <2>0. 1 \in DOMAIN s /\ s[1][1] \in Nat /\ s[1][2] \in Nat BY <1>0, <1>1
  <2>1. PICK l \in Nat, h \in Nat : l = Lo(f, s[1][1]) /\ h = Hi(to, s[1][2])
    BY <2>0 DEF Lo, Hi
  <2>2. l =< f /\ l =< s[1][1] /\ to =< h /\ s[1][2] =< h BY <2>0, <2>1 DEF Lo, Hi
  <2>3. t = << <<l, h>> >> \o Tail(s) BY <1>1, <2>1 DEF AddRange
  <2>4. <<l, h>> \in Span BY <2>1 DEF Span
  <2>5. /\ t \in Seq(Span) /\ DOMAIN t = DOMAIN s /\ t[1] = <<l, h>>
        /\ \A g \in DOMAIN s : g # 1 => t[g] = s[g]
    BY ONLY <1>0, <1>1, <2>3, <2>4, HeadReplaced
  <2>6. t[1][1] = l /\ t[1][2] = h BY <2>5
  <2>7. t # <<>> BY <2>0, <2>5
  <2>8. ASSUME NEW a \in Nat, NEW b \in Nat, Stretch(s, a, b) PROVE Stretch(t, a, b)
    <3>1. PICK g \in DOMAIN s : s[g][1] =< a /\ b < s[g][2] BY <2>8 DEF Stretch
    <3>2. t[g][1] =< a /\ b < t[g][2]
      <4>1. CASE g = 1
        BY ONLY <2>0, <2>1, <2>2, <2>6, <3>1, <4>1, a \in Nat, b \in Nat
      <4>2. CASE g # 1 BY <2>5, <3>1, <4>2
      <4> QED BY <4>1, <4>2
    <3> QED BY <2>5, <3>2 DEF Stretch
  <2>9. ASSUME NEW a \in Nat, NEW b \in Nat, FirstStretch(s, a, b)
        PROVE  FirstStretch(t, a, b) /\ FirstStretch(t, f, b)
    <3>1. s[1][1] =< a /\ b < s[1][2] BY <2>9 DEF FirstStretch
    <3>2. l =< a /\ b < h /\ l =< f BY ONLY <2>0, <2>1, <2>2, <3>1, a \in Nat, b \in Nat
    <3> QED BY ONLY <2>6, <2>7, <3>2 DEF FirstStretch
  <2>10. FirstStretch(t, f, to - 1)
    <3>1. to - 1 < h BY <2>2
    <3> QED BY ONLY <2>2, <2>6, <2>7, <3>1 DEF FirstStretch
  <2> QED BY <2>8, <2>9, <2>10
<1>2. CASE ~ (s # <<>> /\ s[1][1] =< to)
  <2>1. t = << <<f, to>> >> \o s BY <1>2 DEF AddRange
  <2>2. s # <<>> => to < s[1][1] BY <1>0, <1>2
  <2>3. /\ t # <<>> /\ 1 \in DOMAIN t /\ t[1] = <<f, to>>
        /\ \A g \in DOMAIN s : g + 1 \in DOMAIN t /\ t[g + 1] = s[g]
    BY ONLY <2>1, <2>2, Sorted(s), f \in Nat, to \in Nat, f < to, FrontSorted
  <2>4. t[1][1] = f /\ t[1][2] = to BY <2>3
  <2>5. ASSUME NEW a \in Nat, NEW b \in Nat, Stretch(s, a, b) PROVE Stretch(t, a, b)
    <3>1. PICK g \in DOMAIN s : s[g][1] =< a /\ b < s[g][2] BY <2>5 DEF Stretch
    <3> QED BY <2>3, <3>1 DEF Stretch
  <2>6. ASSUME NEW a \in Nat, NEW b \in Nat, FirstStretch(s, a, b) PROVE ~ (a =< to)
    <3>1. 1 \in DOMAIN s /\ s[1][1] \in Nat /\ s[1][1] =< a /\ to < s[1][1]
      BY <1>0, <2>2, <2>6 DEF FirstStretch
    <3> QED BY <3>1
  <2>7. FirstStretch(t, f, to - 1) BY <2>3, <2>4 DEF FirstStretch
  <2> QED BY <2>5, <2>6, <2>7
<1> QED BY <1>1, <1>2

\* add_def cuts no stretch that begins behind the definition, and the first one
\* from the definition on is left.
LEMMA AddDefKeeps ==
  ASSUME NEW s, Sorted(s), NEW p \in Nat, NEW t, t = AddDef(s, p)
  PROVE  /\ \A a, b \in Nat : Stretch(s, a, b) /\ p =< a => Stretch(t, a, b)
         /\ \A a, b \in Nat : FirstStretch(s, a, b) /\ a =< p => FirstStretch(t, p, b)
<1>0. /\ s \in Seq(Span) /\ DOMAIN s = 1..Len(s) /\ Len(s) \in Nat
      /\ \A g \in DOMAIN s : s[g][1] \in Nat /\ s[g][2] \in Nat /\ g \in Nat
      /\ s # <<>> => 1 \in DOMAIN s
  BY SpanOf DEF Sorted
<1>1. CASE s # <<>> /\ s[1][1] =< p
  <2>0. 1 \in DOMAIN s /\ s[1][1] \in Nat /\ s[1][2] \in Nat BY <1>0, <1>1
  <2>1. t = [s EXCEPT ![1] = <<p, s[1][2]>>] BY <1>1 DEF AddDef
  <2>2. /\ DOMAIN t = DOMAIN s /\ t[1] = <<p, s[1][2]>>
        /\ \A g \in DOMAIN s : g # 1 => t[g] = s[g]
    BY <1>0, <2>0, <2>1
  <2>3. t[1][1] = p /\ t[1][2] = s[1][2] BY <2>2
  <2>4. t # <<>> BY <2>0, <2>2
  <2>5. ASSUME NEW a \in Nat, NEW b \in Nat, Stretch(s, a, b), p =< a PROVE Stretch(t, a, b)
    <3>1. PICK g \in DOMAIN s : s[g][1] =< a /\ b < s[g][2] BY <2>5 DEF Stretch
    <3>2. t[g][1] =< a /\ b < t[g][2]
      <4>1. CASE g = 1 BY <2>3, <2>5, <3>1, <4>1
      <4>2. CASE g # 1 BY <2>2, <3>1, <4>2
      <4> QED BY <4>1, <4>2
    <3> QED BY <2>2, <3>2 DEF Stretch
  <2>6. ASSUME NEW a \in Nat, NEW b \in Nat, FirstStretch(s, a, b) PROVE FirstStretch(t, p, b)
    <3>1. p =< p OBVIOUS
    <3> QED BY <2>3, <2>4, <2>6, <3>1 DEF FirstStretch
  <2> QED BY <2>5, <2>6
<1>2. CASE ~ (s # <<>> /\ s[1][1] =< p)
  <2>1. t = AddRange(s, p, p + 1) BY <1>2 DEF AddDef
  <2>2. \A a, b \in Nat : Stretch(s, a, b) => Stretch(t, a, b)
    BY <2>1, AddRangeKeeps
  <2>3. ASSUME NEW a \in Nat, NEW b \in Nat, FirstStretch(s, a, b) PROVE ~ (a =< p)
    <3>1. 1 \in DOMAIN s /\ s[1][1] \in Nat /\ s[1][1] =< a /\ ~ (s[1][1] =< p)
      BY <1>0, <1>2, <2>3 DEF FirstStretch
    <3> QED BY <3>1
  <2> QED BY <2>2, <2>3
<1> QED BY <1>1, <1>2

-----------------------------------------------------------------------------
\* One instruction and the stretches of a register: what lies behind the
\* instruction stays, and what the first range has up to it stays first unless
\* the instruction writes the register; a call has its arguments' stretch.
LEMMA RangesAtKeeps ==
  ASSUME NEW r \in Reg, NEW insn, NEW u \in Nat, NEW f \in Nat, NEW s,
         s = ranges[r], Sorted(s), f =< u, BeforeStart \in Nat, BeforeStart < u,
         EndsAfter(s, u), CallerSave \subseteq Hard,
         NEW t, t = RangesAt(r, insn, u, f)
  PROVE  /\ \A a, b \in Nat : Stretch(s, a, b) /\ u =< a => Stretch(t, a, b)
         /\ \A a, b \in Nat : FirstStretch(s, a, b) /\ a =< u =>
              /\ r \notin insn.out => FirstStretch(t, a, b)
              /\ r \in insn.out => Stretch(t, u, b)
              /\ r \in insn.in => FirstStretch(t, BeforeStart, b)
         /\ insn.kind = "call" /\ r \in CallerSave =>
              /\ r \notin insn.out => FirstStretch(t, f, u)
              /\ r \in insn.out => Stretch(t, u, u)
<1>n. PICK bs \in Nat : bs = BeforeStart /\ bs < u OBVIOUS
<1>c. PICK called : called = IF insn.kind = "call" /\ r \in CallerSave
                             THEN AddRange(s, f, u + 1) ELSE s
  OBVIOUS
<1>d. PICK defined : defined = IF r \in insn.out THEN AddDef(called, u) ELSE called
  OBVIOUS
<1>t. t = IF r \in insn.in THEN AddRange(defined, bs, u) ELSE defined
  BY <1>n, <1>c, <1>d DEF RangesAt
<1>1. /\ Sorted(called) /\ EndsAfter(called, u)
      /\ \A a, b \in Nat : Stretch(s, a, b) => Stretch(called, a, b)
      /\ \A a, b \in Nat : FirstStretch(s, a, b) /\ a =< u => FirstStretch(called, a, b)
      /\ insn.kind = "call" /\ r \in CallerSave => FirstStretch(called, f, u)
  <2>1. CASE insn.kind = "call" /\ r \in CallerSave
    <3>1. called = AddRange(s, f, u + 1) BY <1>c, <2>1
    <3>2. u + 1 \in Nat /\ f < u + 1 /\ u + 1 - 1 = u BY ONLY u \in Nat, f \in Nat, f =< u
    <3>3. EndsAfter(s, u + 1 - 1) BY <3>2
    <3>4. Sorted(called) /\ EndsAfter(called, u + 1 - 1)
      BY ONLY <3>1, <3>2, <3>3, Sorted(s), f \in Nat, AddRangeOK
    <3>5. /\ \A a, b \in Nat : Stretch(s, a, b) => Stretch(called, a, b)
          /\ \A a, b \in Nat : FirstStretch(s, a, b) /\ a =< u + 1 => FirstStretch(called, a, b)
          /\ FirstStretch(called, f, u + 1 - 1)
      BY ONLY <3>1, <3>2, Sorted(s), f \in Nat, AddRangeKeeps
    <3>6. \A a \in Nat : a =< u => a =< u + 1 BY ONLY u \in Nat
    <3> QED BY ONLY <3>2, <3>4, <3>5, <3>6
  <2>2. CASE ~ (insn.kind = "call" /\ r \in CallerSave)
    <3>1. called = s BY <1>c, <2>2
    <3> QED BY <2>2, <3>1
  <2> QED BY <2>1, <2>2
<1>2. /\ Sorted(defined)
      /\ \A a, b \in Nat : Stretch(s, a, b) /\ u =< a => Stretch(defined, a, b)
      /\ \A a, b \in Nat : FirstStretch(s, a, b) /\ a =< u =>
           /\ r \notin insn.out => FirstStretch(defined, a, b)
           /\ r \in insn.out => FirstStretch(defined, u, b)
      /\ insn.kind = "call" /\ r \in CallerSave =>
           /\ r \notin insn.out => FirstStretch(defined, f, u)
           /\ r \in insn.out => FirstStretch(defined, u, u)
  <2>1. CASE r \in insn.out
    <3>1. defined = AddDef(called, u) BY <1>d, <2>1
    <3>2. Sorted(defined) BY ONLY <1>1, <3>1, u \in Nat, AddDefOK
    <3>3. /\ \A a, b \in Nat : Stretch(called, a, b) /\ u =< a => Stretch(defined, a, b)
          /\ \A a, b \in Nat : FirstStretch(called, a, b) /\ a =< u => FirstStretch(defined, u, b)
      BY ONLY <1>1, <3>1, u \in Nat, AddDefKeeps
    <3> QED BY ONLY <1>1, <2>1, <3>2, <3>3, f \in Nat, u \in Nat, f =< u
  <2>2. CASE r \notin insn.out
    <3>1. defined = called BY <1>d, <2>2
    <3> QED BY ONLY <1>1, <2>2, <3>1
  <2> QED BY <2>1, <2>2
<1>s. defined \in Seq(Span) BY <1>2 DEF Sorted
<1>3. CASE r \in insn.in
  <2>1. t = AddRange(defined, bs, u) BY <1>t, <1>3
  <2>2. /\ \A a, b \in Nat : Stretch(defined, a, b) => Stretch(t, a, b)
        /\ \A a, b \in Nat : FirstStretch(defined, a, b) /\ a =< u =>
             FirstStretch(t, a, b) /\ FirstStretch(t, bs, b)
    BY ONLY <1>2, <1>n, <2>1, u \in Nat, AddRangeKeeps
  <2>3. \A a, b \in Nat : FirstStretch(s, a, b) /\ a =< u =>
              /\ r \notin insn.out => FirstStretch(t, a, b)
              /\ r \in insn.out => Stretch(t, u, b)
              /\ FirstStretch(t, bs, b)
    <3> SUFFICES ASSUME NEW a \in Nat, NEW b \in Nat, FirstStretch(s, a, b), a =< u
                 PROVE  /\ r \notin insn.out => FirstStretch(t, a, b)
                        /\ r \in insn.out => Stretch(t, u, b)
                        /\ FirstStretch(t, bs, b)
      OBVIOUS
    <3>1. CASE r \notin insn.out BY <1>2, <2>2, <3>1
    <3>2. CASE r \in insn.out
      <4>1. FirstStretch(defined, u, b) BY <1>2, <3>2
      <4>2. Stretch(defined, u, b) BY ONLY <4>1, <1>s, FirstIsStretch
      <4>3. u =< u OBVIOUS
      <4> QED BY ONLY <2>2, <3>2, <4>1, <4>2, <4>3, u \in Nat, b \in Nat
    <3> QED BY <3>1, <3>2
  <2>4. insn.kind = "call" /\ r \in CallerSave =>
              /\ r \notin insn.out => FirstStretch(t, f, u)
              /\ r \in insn.out => Stretch(t, u, u)
    <3>1. r \in insn.out /\ insn.kind = "call" /\ r \in CallerSave => Stretch(defined, u, u)
      BY ONLY <1>2, <1>s, FirstIsStretch
    <3> QED BY ONLY <1>2, <2>2, <3>1, u \in Nat, f \in Nat, f =< u
  <2>5. \A a, b \in Nat : Stretch(s, a, b) /\ u =< a => Stretch(t, a, b)
    BY ONLY <1>2, <2>2
  <2> QED BY ONLY <1>n, <1>3, <2>3, <2>4, <2>5
<1>4. CASE r \notin insn.in
  <2>1. t = defined BY <1>t, <1>4
  <2>2. \A a, b \in Nat : FirstStretch(s, a, b) /\ a =< u =>
              /\ r \notin insn.out => FirstStretch(t, a, b)
              /\ r \in insn.out => Stretch(t, u, b)
    BY ONLY <1>2, <1>s, <2>1, FirstIsStretch
  <2>3. insn.kind = "call" /\ r \in CallerSave =>
              /\ r \notin insn.out => FirstStretch(t, f, u)
              /\ r \in insn.out => Stretch(t, u, u)
    BY ONLY <1>2, <1>s, <2>1, FirstIsStretch
  <2> QED BY ONLY <1>2, <1>4, <2>1, <2>2, <2>3
<1> QED BY <1>3, <1>4

\* The same for a step of the walk.
LEMMA InsnKeeps ==
  ASSUME Inv, WalkInv, IntervalInv, WalkBack, NEW r \in Reg, NEW s, s = ranges[r],
         NEW t, t = ranges'[r], NEW x, x = code[rpo[wb]][wk], NEW u, u = Uid(wb, wk)
  PROVE  /\ \A a, b \in Nat : Stretch(s, a, b) /\ u =< a => Stretch(t, a, b)
         /\ \A a, b \in Nat : FirstStretch(s, a, b) /\ a =< u =>
              /\ r \notin x.out => FirstStretch(t, a, b)
              /\ r \in x.out => Stretch(t, u, b)
              /\ r \in x.in => FirstStretch(t, BeforeStart, b)
         /\ x.kind = "call" /\ r \in CallerSave =>
              /\ r \notin x.out => FirstStretch(t, Uid(wb, Marker(code[rpo[wb]], wk)), u)
              /\ r \in x.out => Stretch(t, u, u)
         /\ wk \in 1..Len(code[rpo[wb]]) /\ u = firstUid[wb] + wk - 1 /\ u \in Nat /\ Front = u
         /\ BeforeStart < u
         /\ lrBegin'[r] =< lrBegin[r] /\ lrBegin[r] \in Nat /\ lrBegin'[r] \in Nat
<1>i. /\ NumbersGiven /\ ListsOK /\ phase = "insn" /\ wk > 0
  BY DEF IntervalInv, WalkBack
<1>b. /\ wb \in 1..Len(rpo) /\ firstUid[wb] \in Nat \ {0} /\ Len(code[rpo[wb]]) \in Nat
      /\ BeforeStart = firstUid[wb] - 1 /\ BeforeStart \in Nat
  BY ONLY Inv, WalkInv, <1>i, Borders
<1>1. wk \in 0..Len(code[rpo[wb]]) BY <1>i DEF NumbersGiven, Block_
<1>2. wk \in 1..Len(code[rpo[wb]]) BY ONLY <1>b, <1>1, <1>i
<1>3. u = firstUid[wb] + wk - 1 BY DEF Uid
<1>4. u \in Nat /\ BeforeStart < u BY ONLY <1>b, <1>2, <1>3
<1>5. Front = u BY <1>i, <1>3 DEF Front
<1>6. PICK f : f = CallStart(x, u) OBVIOUS
<1>7. x.kind = "call" => f = Uid(wb, Marker(code[rpo[wb]], wk)) BY <1>6 DEF CallStart, Block_
<1>8. f \in Nat /\ f =< u
  <2>1. CASE x.kind = "call"
    <3>1. PICK m \in 1..wk : m = Marker(code[rpo[wb]], wk) BY <1>2, MarkerOK
    <3>2. f = firstUid[wb] + m - 1 BY <1>7, <2>1, <3>1 DEF Uid
    <3>3. PICK b \in Nat \ {0}, q \in Nat : b = firstUid[wb] /\ q = wk BY ONLY <1>b, <1>2
    <3>4. m \in 1..q /\ f = b + m - 1 /\ u = b + q - 1 BY ONLY <1>3, <3>1, <3>2, <3>3
    <3> QED BY ONLY <3>3, <3>4
  <2>2. CASE x.kind # "call"
    <3>1. f = u BY <1>6, <2>2 DEF CallStart
    <3> QED BY ONLY <1>4, <3>1
  <2> QED BY <2>1, <2>2
<1>9. t = RangesAt(r, x, u, f)
  <2>1. ranges' = [q \in Reg |-> RangesAt(q, x, u, f)] BY <1>6 DEF WalkBack, Block_
  <2> QED BY <2>1
<1>10. Sorted(s) /\ EndsAfter(s, u) BY <1>i, <1>5 DEF ListsOK
<1>11. /\ \A a, b \in Nat : Stretch(s, a, b) /\ u =< a => Stretch(t, a, b)
       /\ \A a, b \in Nat : FirstStretch(s, a, b) /\ a =< u =>
            /\ r \notin x.out => FirstStretch(t, a, b)
            /\ r \in x.out => Stretch(t, u, b)
            /\ r \in x.in => FirstStretch(t, BeforeStart, b)
       /\ x.kind = "call" /\ r \in CallerSave =>
            /\ r \notin x.out => FirstStretch(t, f, u)
            /\ r \in x.out => Stretch(t, u, u)
  <2>1. CallerSave \subseteq Hard BY HardAssumption
  <2> QED BY ONLY r \in Reg, s = ranges[r], <2>1, <1>b, <1>4, <1>8, <1>9, <1>10, RangesAtKeeps
<1>12. lrBegin'[r] =< lrBegin[r] /\ lrBegin[r] \in Nat /\ lrBegin'[r] \in Nat
  <2>1. PICK clob : clob = IF x.kind = "call" THEN CallerSave ELSE {} OBVIOUS
  <2>2. lrBegin' = [q \in Reg |->
           LET b == IF q \in clob THEN Lo(lrBegin[q], f) ELSE lrBegin[q] IN
           IF q \in x.out THEN Lo(b, u) ELSE b]
    BY <2>1, <1>6 DEF WalkBack, Block_
  <2>3. lrBegin[r] \in Nat BY <1>i DEF ListsOK
  <2>4. PICK b : b = IF r \in clob THEN Lo(lrBegin[r], f) ELSE lrBegin[r] OBVIOUS
  <2>5. lrBegin'[r] = IF r \in x.out THEN Lo(b, u) ELSE b BY <2>2, <2>4
  <2>6. b \in Nat /\ b =< lrBegin[r] BY ONLY <2>3, <2>4, <1>8 DEF Lo
  <2> QED BY ONLY <2>3, <2>5, <2>6, <1>4 DEF Lo
<1> QED BY <1>2, <1>3, <1>4, <1>5, <1>7, <1>11, <1>12

-----------------------------------------------------------------------------
\* SPILL_REG has everything from the border the walk has passed to the end of the
\* code in its first range: the reads of the branches hand it on from block to
\* block.  No range of a register begins behind the code.
LastPoint == InsnOrder - 1
ReservedFrom(a) == \A h \in Unavailable : FirstStretch(ranges[h], a, LastPoint)
ReservedInv ==
  /\ code \in Codes
  /\ phase = "leave" => ReservedFrom(IF wb = Len(rpo) THEN 0 ELSE firstUid[wb + 1] - 1)
  /\ phase = "insn" =>
       \/ ReservedFrom(firstUid[wb] - 1)
       \/ wk = Len(code[rpo[wb]]) /\ wb # Len(rpo) /\ ReservedFrom(firstUid[wb + 1] - 1)
  /\ phase \in {"end", "done"} => ReservedFrom(0)
  /\ phase \in {"leave", "insn", "end"} => \A r \in Reg : lrBegin[r] =< InsnOrder
  /\ phase = "done" => \A r \in Reg : lrBegin[r] < InsnOrder

\* A stretch that begins earlier is one that begins later.
LEMMA Later ==
  ASSUME NEW s \in Seq(Span), NEW a \in Nat, NEW b \in Nat, a =< b, NEW e, FirstStretch(s, a, e)
  PROVE  FirstStretch(s, b, e)
<1>1. s[1][1] \in Nat BY SpanOf DEF FirstStretch
<1> QED BY <1>1 DEF FirstStretch

\* The code behind the last instruction.
LEMMA LastOfCode ==
  ASSUME Inv, WalkInv, IntervalInv, phase # "live"
  PROVE  /\ InsnOrder \in Nat \ {0} /\ LastPoint \in Nat /\ LastPoint < InsnOrder
         /\ Unavailable \subseteq Reg /\ \A r \in Reg : ranges[r] \in Seq(Span) /\ Sorted(ranges[r])
<1>1. NumbersOK(firstUid) /\ pc = "done" BY DEF IntervalInv, NumbersGiven
<1>2. Len(rpo) \in Nat BY <1>1, Left
<1>3. Len(rpo) + 1 \in 1..(Len(rpo) + 1) BY <1>2
<1>4. InsnOrder \in Nat \ {0} BY <1>1, <1>3 DEF NumbersOK, InsnOrder
<1>5. LastPoint \in Nat /\ LastPoint < InsnOrder BY <1>4 DEF LastPoint
<1>6. \A r \in Reg : ranges[r] \in Seq(Span) /\ Sorted(ranges[r]) BY DEF IntervalInv, ListsOK
<1>7. Unavailable \subseteq Reg BY HardAssumption
<1> QED BY <1>4, <1>5, <1>6, <1>7

\* What the code of a block does to SPILL_REG.
LEMMA SpillRegRead ==
  ASSUME Inv, WalkInv, pc = "done", code \in Codes, NEW j \in 1..Len(rpo)
  PROVE  /\ \A i \in 1..Len(code[rpo[j]]) : code[rpo[j]][i].out \cap Unavailable \subseteq code[rpo[j]][i].in
         /\ j # Len(rpo) => /\ Len(code[rpo[j]]) # 0
                            /\ Unavailable \subseteq code[rpo[j]][Len(code[rpo[j]])].in
<1>1. /\ rpo[j] \in Block /\ DOMAIN code[rpo[j]] = 1..Len(code[rpo[j]])
      /\ code[rpo[j]] = <<>> <=> Len(code[rpo[j]]) = 0
      /\ DOMAIN rpo = 1..Len(rpo) /\ Len(rpo) \in 1..Len(rpo)
  BY Left
<1>2. j # Len(rpo) => rpo[j] # Exit BY <1>1 DEF WalkInv, OnceOK
<1> QED BY <1>1, <1>2, SpillRegAssumption

\* The ranges all start outside the code, those of SPILL_REG as all of it.
LEMMA ReservedStart ==
  ASSUME Inv, WalkInv, IntervalInv, IntervalInv', ReservedInv, StartWalk PROVE ReservedInv'
<1>k. /\ Inv' /\ WalkInv' /\ rpo' = rpo /\ pc = "done" /\ phase' = "leave" /\ code' = code
      /\ firstUid' = LinearNumbers /\ wb' = Len(rpo)
  BY RestKeeps DEF StartWalk
<1>1. InsnOrder' \in Nat \ {0}
  <2>1. NumbersOK(firstUid)' BY <1>k DEF IntervalInv, NumbersGiven
  <2>2. Len(rpo') + 1 \in 1..(Len(rpo') + 1)
    <3>1. Len(rpo) \in Nat BY <1>k, Left
    <3> QED BY <1>k, <3>1
  <2> QED BY <2>1, <2>2 DEF NumbersOK, InsnOrder
<1>2. PICK a \in Nat \ {0} : a = InsnOrder' BY <1>1
<1>3. /\ lrBegin' = [r \in Reg |-> IF r \in Unavailable THEN 0 ELSE a]
      /\ ranges' = [r \in Reg |-> IF r \in Unavailable
                                  THEN AddRange(AddDef(<<>>, 0), 0, a) ELSE <<>>]
  BY <1>k, <1>2 DEF StartWalk, InsnOrder
<1>4. FirstStretch(AddRange(AddDef(<<>>, 0), 0, a), 0, a - 1)
  <2>1. PICK s : s = AddDef(<<>>, 0) OBVIOUS
  <2>2. Sorted(<<>>) /\ EndsAfter(<<>>, 0) BY EmptySeq DEF Sorted, EndsAfter
  <2>3. Sorted(s) BY ONLY <2>1, <2>2, AddDefOK
  <2>4. 0 \in Nat /\ a \in Nat /\ 0 < a OBVIOUS
  <2> QED BY ONLY <2>1, <2>3, <2>4, AddRangeKeeps
<1>5. Unavailable \subseteq Reg BY HardAssumption
<1>6. ReservedFrom(0)' BY <1>2, <1>3, <1>4, <1>5 DEF ReservedFrom, LastPoint
<1>7. \A r \in Reg : lrBegin'[r] =< a
  <2>1. 0 =< a /\ a =< a OBVIOUS
  <2> QED BY <1>3, <2>1
<1> QED BY ONLY <1>k, <1>2, <1>6, <1>7, ReservedInv DEF ReservedInv

\* At the end of a block SPILL_REG is live only if a block behind it reads it.
LEMMA ReservedLeave ==
  ASSUME Inv, WalkInv, IntervalInv, IntervalInv', ReservedInv, LeaveBackwards PROVE ReservedInv'
<1>k. /\ rpo' = rpo /\ code' = code /\ phase = "leave" /\ phase' = "insn" /\ lrBegin' = lrBegin
      /\ firstUid' = firstUid /\ wb' = wb /\ wk' = Len(code[rpo[wb]])
  BY RestKeeps DEF LeaveBackwards, Block_
<1>i. NumbersGiven /\ ListsOK BY DEF IntervalInv
<1>b. /\ wb \in 1..Len(rpo) /\ firstUid[wb] \in Nat \ {0} /\ firstUid[wb + 1] \in Nat
      /\ firstUid[wb + 1] = firstUid[wb] + Len(code[rpo[wb]])
      /\ Len(code[rpo[wb]]) \in Nat
      /\ AfterEnd = firstUid[wb + 1] /\ BeforeStart = firstUid[wb] - 1
      /\ BeforeStart \in Nat /\ AfterEnd \in Nat /\ BeforeStart < AfterEnd
  BY ONLY Inv, WalkInv, <1>i, <1>k, Borders
<1>o. InsnOrder' = InsnOrder /\ LastPoint' = LastPoint BY <1>k DEF InsnOrder, LastPoint
<1>l. LastPoint \in Nat /\ Unavailable \subseteq Reg /\ \A r \in Reg : Sorted(ranges[r]) /\ ranges[r] \in Seq(Span)
  <2>1. phase # "live" BY <1>k
  <2> QED BY ONLY Inv, WalkInv, IntervalInv, <2>1, LastOfCode
<1>r. ranges' = [r \in Reg |-> IF r \in liveout[rpo[wb]]
                               THEN AddRange(ranges[r], BeforeStart, AfterEnd) ELSE ranges[r]]
  BY DEF LeaveBackwards, Block_
<1>1. ASSUME NEW h \in Unavailable, NEW a \in Nat, a =< AfterEnd,
             FirstStretch(ranges[h], a, LastPoint)
      PROVE  FirstStretch(ranges'[h], a, LastPoint)
  <2>1. PICK s, t : s = ranges[h] /\ t = ranges'[h] OBVIOUS
  <2>2. h \in Reg /\ Sorted(s) BY <1>l, <2>1
  <2>3. CASE h \in liveout[rpo[wb]]
    <3>1. t = AddRange(s, BeforeStart, AfterEnd) BY <1>r, <2>1, <2>2, <2>3
    <3>2. FirstStretch(t, a, LastPoint)
      BY ONLY <1>b, <1>l, <1>1, <2>1, <2>2, <3>1, AddRangeKeeps
    <3> QED BY <2>1, <3>2
  <2>4. CASE h \notin liveout[rpo[wb]]
    <3>1. t = s BY <1>r, <2>1, <2>2, <2>4
    <3> QED BY <1>1, <2>1, <3>1
  <2> QED BY <2>3, <2>4
<1>2. CASE wb = Len(rpo)
  <2>1. ReservedFrom(0) BY <1>k, <1>2 DEF ReservedInv
  <2>2. \A h \in Unavailable : FirstStretch(ranges'[h], 0, LastPoint)
    <3>1. 0 \in Nat /\ 0 =< AfterEnd BY <1>b
    <3> QED BY <1>1, <2>1, <3>1 DEF ReservedFrom
  <2>3. \A h \in Unavailable : FirstStretch(ranges'[h], firstUid[wb] - 1, LastPoint)
    <3> TAKE h \in Unavailable
    <3>1. ranges'[h] \in Seq(Span) BY <1>l DEF IntervalInv, ListsOK
    <3>2. FirstStretch(ranges'[h], 0, LastPoint) BY <2>2
    <3>3. firstUid[wb] - 1 \in Nat /\ 0 =< firstUid[wb] - 1 /\ 0 \in Nat BY <1>b
    <3> QED BY ONLY <3>1, <3>2, <3>3, Later
  <2>4. ReservedFrom(firstUid[wb] - 1)' BY <1>k, <1>o, <2>3 DEF ReservedFrom
  <2> QED BY ONLY <1>k, <1>o, <2>4, ReservedInv DEF ReservedInv
<1>3. CASE wb # Len(rpo)
  <2>1. ReservedFrom(firstUid[wb + 1] - 1) BY <1>k, <1>3 DEF ReservedInv
  <2>2. firstUid[wb + 1] - 1 \in Nat /\ firstUid[wb + 1] - 1 =< AfterEnd BY <1>b
  <2>3. \A h \in Unavailable : FirstStretch(ranges'[h], firstUid[wb + 1] - 1, LastPoint)
    BY <1>1, <2>1, <2>2 DEF ReservedFrom
  <2>4. ReservedFrom(firstUid[wb + 1] - 1)' BY <1>k, <1>o, <2>3 DEF ReservedFrom
  <2> QED BY ONLY <1>k, <1>o, <1>3, <2>4, ReservedInv DEF ReservedInv
<1> QED BY <1>2, <1>3

\* A branch or a call that writes SPILL_REG reads it as well, from the start of
\* the block; the last instruction of a block takes over from the next block.
LEMMA ReservedInsn ==
  ASSUME Inv, WalkInv, IntervalInv, IntervalInv', ReservedInv, WalkBack PROVE ReservedInv'
<1>k. /\ rpo' = rpo /\ code' = code /\ phase = "insn" /\ phase' = "insn" /\ wk' = wk - 1
      /\ firstUid' = firstUid /\ wb' = wb
  BY RestKeeps DEF WalkBack
<1>i. NumbersGiven /\ ListsOK /\ pc = "done" BY <1>k DEF IntervalInv, NumbersGiven
<1>b. /\ wb \in 1..Len(rpo) /\ firstUid[wb] \in Nat \ {0} /\ firstUid[wb + 1] \in Nat
      /\ firstUid[wb + 1] = firstUid[wb] + Len(code[rpo[wb]])
      /\ Len(code[rpo[wb]]) \in Nat /\ BeforeStart = firstUid[wb] - 1 /\ BeforeStart \in Nat
  BY ONLY Inv, WalkInv, <1>i, <1>k, Borders
<1>o. InsnOrder' = InsnOrder /\ LastPoint' = LastPoint BY <1>k DEF InsnOrder, LastPoint
<1>l. LastPoint \in Nat /\ Unavailable \subseteq Reg /\ InsnOrder \in Nat
  <2>1. phase # "live" BY <1>k
  <2> QED BY ONLY Inv, WalkInv, IntervalInv, <2>1, LastOfCode
<1>x. PICK x, u : x = code[rpo[wb]][wk] /\ u = Uid(wb, wk) OBVIOUS
<1>1. ASSUME NEW r \in Reg
      PROVE  /\ \A a, b \in Nat : FirstStretch(ranges[r], a, b) /\ a =< u =>
                  /\ r \notin x.out => FirstStretch(ranges'[r], a, b)
                  /\ r \in x.in => FirstStretch(ranges'[r], BeforeStart, b)
             /\ wk \in 1..Len(code[rpo[wb]]) /\ u = firstUid[wb] + wk - 1 /\ u \in Nat
             /\ BeforeStart < u
             /\ lrBegin'[r] =< lrBegin[r] /\ lrBegin[r] \in Nat /\ lrBegin'[r] \in Nat
  <2>1. PICK s, t : s = ranges[r] /\ t = ranges'[r] OBVIOUS
  <2> QED BY ONLY <1>x, <2>1, Inv, WalkInv, IntervalInv, WalkBack, r \in Reg, InsnKeeps
<1>2. \A r \in Reg : lrBegin'[r] =< InsnOrder
  <2> TAKE r \in Reg
  <2>1. lrBegin[r] =< InsnOrder BY <1>k DEF ReservedInv
  <2> QED BY <1>1, <1>l, <2>1
<1>3. ASSUME NEW h \in Unavailable PROVE FirstStretch(ranges'[h], BeforeStart, LastPoint)
  <2>0. h \in Reg BY <1>l
  <2>1. wk \in 1..Len(code[rpo[wb]]) /\ u = firstUid[wb] + wk - 1 /\ u \in Nat /\ BeforeStart < u
    BY <1>1, <2>0
  <2>2. h \in x.out => h \in x.in
    <3>1. code \in Codes BY DEF ReservedInv
    <3>2. x.out \cap Unavailable \subseteq x.in
      BY ONLY <1>x, <1>b, <1>i, <2>1, <3>1, Inv, WalkInv, SpillRegRead
    <3> QED BY <3>2
  <2>3. CASE FirstStretch(ranges[h], BeforeStart, LastPoint)
    <3>1. BeforeStart =< u BY <1>b, <2>1
    <3> QED BY ONLY <1>1, <1>b, <1>l, <2>0, <2>2, <2>3, <3>1
  <2>4. CASE /\ wk = Len(code[rpo[wb]]) /\ wb # Len(rpo)
             /\ FirstStretch(ranges[h], firstUid[wb + 1] - 1, LastPoint)
    <3>1. firstUid[wb + 1] - 1 = u /\ u =< u
      <4>1. firstUid[wb + 1] = firstUid[wb] + Len(code[rpo[wb]]) BY <1>b
      <4>2. u = firstUid[wb] + Len(code[rpo[wb]]) - 1 BY ONLY <2>1, <2>4
      <4>3. firstUid[wb] \in Nat /\ Len(code[rpo[wb]]) \in Nat BY <1>b
      <4> QED BY ONLY <2>1, <4>1, <4>2, <4>3
    <3>2. h \in x.in
      <4>1. code \in Codes BY DEF ReservedInv
      <4>2. Unavailable \subseteq code[rpo[wb]][Len(code[rpo[wb]])].in
        BY ONLY <1>b, <1>i, <2>4, <4>1, Inv, WalkInv, SpillRegRead
      <4> QED BY <1>x, <2>4, <4>2
    <3> QED BY ONLY <1>1, <1>l, <2>0, <2>1, <2>4, <3>1, <3>2
  <2> QED
    <3>1. \/ ReservedFrom(firstUid[wb] - 1)
          \/ wk = Len(code[rpo[wb]]) /\ wb # Len(rpo) /\ ReservedFrom(firstUid[wb + 1] - 1)
      BY <1>k DEF ReservedInv
    <3> QED BY <1>b, <2>3, <2>4, <3>1 DEF ReservedFrom
<1>4. ReservedFrom(firstUid[wb] - 1)' BY <1>k, <1>o, <1>b, <1>3 DEF ReservedFrom
<1> QED BY ONLY <1>k, <1>o, <1>2, <1>4, ReservedInv DEF ReservedInv

\* The start of a block is the end of the one before it, and the start of the
\* first block is the start of the code.
LEMMA ReservedEnter ==
  ASSUME Inv, WalkInv, IntervalInv, IntervalInv', ReservedInv, EnterBackwards PROVE ReservedInv'
<1>k. /\ rpo' = rpo /\ code' = code /\ phase = "insn" /\ wk = 0 /\ firstUid' = firstUid
  BY RestKeeps DEF EnterBackwards
<1>t. \/ wb > 1 /\ wb' = wb - 1 /\ phase' = "leave"
      \/ ~ (wb > 1) /\ wb' = wb /\ phase' = "end"
  BY DEF EnterBackwards
<1>i. NumbersGiven /\ ListsOK /\ pc = "done" BY <1>k DEF IntervalInv, NumbersGiven
<1>b. /\ wb \in 1..Len(rpo) /\ firstUid[wb] \in Nat \ {0} /\ Len(code[rpo[wb]]) \in Nat
      /\ BeforeStart = firstUid[wb] - 1 /\ BeforeStart \in Nat
  BY ONLY Inv, WalkInv, <1>i, <1>k, Borders
<1>o. InsnOrder' = InsnOrder /\ LastPoint' = LastPoint BY <1>k DEF InsnOrder, LastPoint
<1>l. /\ LastPoint \in Nat /\ Unavailable \subseteq Reg /\ InsnOrder \in Nat
      /\ \A r \in Reg : Sorted(ranges[r])
  <2>1. phase # "live" BY <1>k
  <2> QED BY ONLY Inv, WalkInv, IntervalInv, <2>1, LastOfCode
<1>f. firstUid[1] = 1 /\ Len(rpo) \in Nat
  <2>1. NumbersOK(firstUid) BY <1>k, <1>i DEF NumbersGiven
  <2> QED BY <1>i, <2>1, Left DEF NumbersOK
<1>1. ReservedFrom(firstUid[wb] - 1)
  <2>1. \/ ReservedFrom(firstUid[wb] - 1)
        \/ wk = Len(code[rpo[wb]]) /\ wb # Len(rpo) /\ ReservedFrom(firstUid[wb + 1] - 1)
    BY <1>k DEF ReservedInv
  <2>2. code \in Codes BY DEF ReservedInv
  <2>3. wb # Len(rpo) => Len(code[rpo[wb]]) # 0
    BY ONLY <1>b, <1>i, <2>2, Inv, WalkInv, SpillRegRead
  <2> QED BY <1>k, <2>1, <2>3
<1>2. ASSUME NEW h \in Unavailable PROVE FirstStretch(ranges'[h], BeforeStart, LastPoint)
  <2>1. PICK s, t : s = ranges[h] /\ t = ranges'[h] OBVIOUS
  <2>2. h \in Reg /\ Sorted(s) /\ FirstStretch(s, BeforeStart, LastPoint)
    BY <1>b, <1>l, <1>1, <2>1 DEF ReservedFrom
  <2>3. t = IF h \in livein[rpo[wb]] THEN AddDef(s, BeforeStart) ELSE s
    BY <2>1, <2>2 DEF EnterBackwards, Block_
  <2>4. FirstStretch(t, BeforeStart, LastPoint)
    <3>1. BeforeStart =< BeforeStart BY <1>b
    <3> QED BY ONLY <1>b, <1>l, <2>2, <2>3, <3>1, AddDefKeeps
  <2> QED BY <2>1, <2>4
<1>3. \A r \in Reg : lrBegin'[r] =< InsnOrder
  <2> TAKE r \in Reg
  <2>1. lrBegin[r] =< InsnOrder /\ lrBegin[r] \in Nat BY <1>k, <1>i DEF ReservedInv, ListsOK
  <2>2. lrBegin'[r] = BeginAtEntry(r) BY DEF EnterBackwards
  <2>3. BeginAtEntry(r) =< lrBegin[r] /\ BeginAtEntry(r) \in Nat BY <1>b, <2>1 DEF BeginAtEntry, Lo
  <2> QED BY ONLY <1>l, <2>1, <2>2, <2>3
<1>4. CASE wb > 1
  <2>1. wb' = wb - 1 /\ phase' = "leave" BY <1>t, <1>4
  <2>2. wb' + 1 = wb /\ wb' # Len(rpo) BY <1>b, <1>f, <2>1
  <2>3. ReservedFrom(firstUid[wb + 1] - 1)' BY <1>k, <1>o, <1>b, <1>2, <2>2 DEF ReservedFrom
  <2> QED BY ONLY <1>k, <1>o, <1>3, <2>1, <2>2, <2>3, ReservedInv DEF ReservedInv
<1>5. CASE ~ (wb > 1)
  <2>1. wb' = wb /\ phase' = "end" BY <1>t, <1>5
  <2>2. wb = 1 BY <1>b, <1>f, <1>5
  <2>3. BeforeStart = 0 BY <1>b, <1>f, <2>2
  <2>4. ReservedFrom(0)' BY <1>o, <1>2, <2>3 DEF ReservedFrom
  <2> QED BY ONLY <1>k, <1>o, <1>3, <2>1, <2>4, ReservedInv DEF ReservedInv
<1> QED BY <1>4, <1>5

\* The end of the walk changes no range.
LEMMA ReservedFinish ==
  ASSUME Inv, WalkInv, IntervalInv, IntervalInv', ReservedInv, FinishWalk PROVE ReservedInv'
<1>k. /\ rpo' = rpo /\ code' = code /\ phase = "end" /\ phase' = "done" /\ firstUid' = firstUid
      /\ ranges' = ranges
      /\ lrBegin' = [r \in Reg |-> IF lrBegin[r] = InsnOrder THEN 0 ELSE lrBegin[r]]
  BY RestKeeps DEF FinishWalk
<1>o. InsnOrder' = InsnOrder /\ LastPoint' = LastPoint BY <1>k DEF InsnOrder, LastPoint
<1>l. InsnOrder \in Nat \ {0}
  <2>1. phase # "live" BY <1>k
  <2> QED BY ONLY Inv, WalkInv, IntervalInv, <2>1, LastOfCode
<1>1. \A r \in Reg : lrBegin'[r] < InsnOrder
  <2> TAKE r \in Reg
  <2>1. lrBegin[r] =< InsnOrder /\ lrBegin[r] \in Nat BY <1>k DEF ReservedInv, IntervalInv, ListsOK
  <2> QED BY <1>k, <1>l, <2>1
<1>2. ReservedFrom(0)' BY <1>k, <1>o DEF ReservedInv, ReservedFrom
<1> QED BY ONLY <1>k, <1>o, <1>1, <1>2, ReservedInv DEF ReservedInv

-----------------------------------------------------------------------------
\* Behind the walk an argument has its stretch up to the call; in front of it,
\* after the marker, the first range is the stretch from the marker to the call.
ArgPlaced(j, i) ==
  \A w \in Marker(code[rpo[j]], i)..i : InsnPast(j, w) =>
    \A h \in code[rpo[j]][w].out \cap CallerSave : Stretch(ranges[h], Uid(j, w), Uid(j, i))
ArgOpen(j, i) ==
  j = wb /\ phase = "insn" /\ Marker(code[rpo[j]], i) =< wk =>
    \A h \in CallerSave : (\A w \in (wk + 1)..i : h \notin code[rpo[j]][w].out) =>
      FirstStretch(ranges[h], Uid(j, Marker(code[rpo[j]], i)), Uid(j, i))
ArgInv ==
  /\ code \in Codes
  /\ phase # "live" =>
       \A j \in 1..Len(rpo) : \A i \in 1..Len(code[rpo[j]]) :
         code[rpo[j]][i].kind = "call" /\ InsnPast(j, i) => ArgPlaced(j, i) /\ ArgOpen(j, i)

\* Where the numbers of a block are.
LEMMA UidFacts ==
  ASSUME Inv, WalkInv, NumbersGiven, phase # "live", NEW j \in 1..Len(rpo)
  PROVE  /\ firstUid[j] \in Nat \ {0} /\ Len(code[rpo[j]]) \in Nat
         /\ \A i \in 1..Len(code[rpo[j]]) :
              /\ Uid(j, i) \in Nat /\ Uid(j, i) = firstUid[j] + i - 1
              /\ Marker(code[rpo[j]], i) \in 1..i
              /\ \A w \in Marker(code[rpo[j]], i)..i : w \in 1..Len(code[rpo[j]])
<1>1. NumbersOK(firstUid) /\ pc = "done" BY DEF NumbersGiven
<1>2. Len(rpo) \in Nat /\ Len(code[rpo[j]]) \in Nat BY <1>1, Left
<1>3. j \in 1..(Len(rpo) + 1) BY <1>2
<1>4. firstUid[j] \in Nat \ {0} BY <1>1, <1>3 DEF NumbersOK
<1>5. ASSUME NEW i \in 1..Len(code[rpo[j]])
      PROVE  /\ Uid(j, i) \in Nat /\ Uid(j, i) = firstUid[j] + i - 1
             /\ Marker(code[rpo[j]], i) \in 1..i
             /\ \A w \in Marker(code[rpo[j]], i)..i : w \in 1..Len(code[rpo[j]])
  <2>1. i \in Nat \ {0} BY <1>2
  <2>2. Uid(j, i) \in Nat /\ Uid(j, i) = firstUid[j] + i - 1 BY <1>4, <2>1 DEF Uid
  <2>3. PICK m \in 1..i : m = Marker(code[rpo[j]], i) BY <2>1, MarkerOK
  <2>4. \A w \in m..i : w \in 1..Len(code[rpo[j]]) BY ONLY <1>2, i \in 1..Len(code[rpo[j]]), m \in 1..i
  <2> QED BY <2>2, <2>3, <2>4
<1> QED BY <1>2, <1>4, <1>5

\* An argument register is written once on the way to the call.
LEMMA WrittenOnce ==
  ASSUME Inv, WalkInv, pc = "done", code \in Codes, NEW j \in 1..Len(rpo),
         NEW i \in 1..Len(code[rpo[j]]), code[rpo[j]][i].kind = "call",
         NEW w \in Marker(code[rpo[j]], i)..i, NEW h \in code[rpo[j]][w].out \cap CallerSave,
         NEW x \in (w + 1)..i
  PROVE  h \notin code[rpo[j]][x].out
<1>1. rpo[j] \in Block /\ DOMAIN code[rpo[j]] = 1..Len(code[rpo[j]]) /\ Len(code[rpo[j]]) \in Nat
  BY Left
<1>2. PICK m \in 1..i : m = Marker(code[rpo[j]], i) BY <1>1, MarkerOK
<1>3. w \in m..i /\ x \in m..i /\ w < x BY <1>1, <1>2
<1>4. code[rpo[j]][w].out \cap code[rpo[j]][x].out \cap CallerSave = {}
  BY <1>1, <1>2, <1>3, ArgumentsAssumption
<1> QED BY <1>4

\* Nothing is behind the walk yet.
LEMMA ArgStart ==
  ASSUME Inv, WalkInv, IntervalInv, ArgInv, StartWalk PROVE ArgInv'
<1>k. /\ rpo' = rpo /\ code' = code /\ phase' = "leave" /\ wb' = Len(rpo) /\ pc = "done"
  BY RestKeeps DEF StartWalk
<1>1. Len(rpo) \in Nat BY <1>k, Left
<1>2. \A j \in 1..Len(rpo) : \A i : ~ InsnPast(j, i)' BY <1>k, <1>1 DEF InsnPast
<1> QED BY <1>k, <1>2 DEF ArgInv

\* Ranges only grow.
LEMMA ArgLeave ==
  ASSUME Inv, WalkInv, IntervalInv, ArgInv, LeaveBackwards PROVE ArgInv'
<1>k. /\ rpo' = rpo /\ code' = code /\ phase = "leave" /\ phase' = "insn"
      /\ firstUid' = firstUid /\ wb' = wb /\ wk' = Len(code[rpo[wb]])
  BY RestKeeps DEF LeaveBackwards, Block_
<1>i. NumbersGiven /\ ListsOK BY DEF IntervalInv
<1>b. /\ wb \in 1..Len(rpo) /\ Len(code[rpo[wb]]) \in Nat
      /\ BeforeStart \in Nat /\ AfterEnd \in Nat /\ BeforeStart < AfterEnd
  BY ONLY Inv, WalkInv, <1>i, <1>k, Borders
<1>r. ranges' = [r \in Reg |-> IF r \in liveout[rpo[wb]]
                               THEN AddRange(ranges[r], BeforeStart, AfterEnd) ELSE ranges[r]]
  BY DEF LeaveBackwards, Block_
<1>1. ASSUME NEW h \in CallerSave, NEW a \in Nat, NEW b \in Nat, Stretch(ranges[h], a, b)
      PROVE  Stretch(ranges'[h], a, b)
  <2>1. PICK s, t : s = ranges[h] /\ t = ranges'[h] OBVIOUS
  <2>2. h \in Reg BY HardAssumption
  <2>3. Sorted(s) /\ t = IF h \in liveout[rpo[wb]] THEN AddRange(s, BeforeStart, AfterEnd) ELSE s
    BY <1>i, <1>r, <2>1, <2>2 DEF ListsOK
  <2>4. Stretch(t, a, b) BY ONLY <1>b, <1>1, <2>1, <2>3, AddRangeKeeps
  <2> QED BY <2>1, <2>4
<1>2. \A j \in 1..Len(rpo) : \A i \in 1..Len(code[rpo[j]]) :
        /\ InsnPast(j, i)' <=> InsnPast(j, i)
        /\ InsnPast(j, i) => j # wb
  BY <1>k, <1>b DEF InsnPast
<1>3. ASSUME NEW j \in 1..Len(rpo), NEW i \in 1..Len(code[rpo[j]]),
             code[rpo[j]][i].kind = "call", InsnPast(j, i)'
      PROVE  ArgPlaced(j, i)' /\ ArgOpen(j, i)'
  <2>1. InsnPast(j, i) /\ j # wb BY <1>2, <1>3
  <2>2. ArgPlaced(j, i) BY <1>k, <1>3, <2>1 DEF ArgInv
  <2>3. ArgOpen(j, i)' BY <1>k, <2>1 DEF ArgOpen
  <2>4. /\ Uid(j, i) \in Nat /\ Uid(j, i)' = Uid(j, i)
        /\ \A w \in Marker(code[rpo[j]], i)..i : /\ w \in 1..Len(code[rpo[j]])
                                                /\ Uid(j, w) \in Nat /\ Uid(j, w)' = Uid(j, w)
    <3>1. phase # "live" BY <1>k
    <3>2. \A w : Uid(j, w)' = Uid(j, w) BY <1>k DEF Uid
    <3>3. /\ Uid(j, i) \in Nat
          /\ \A w \in Marker(code[rpo[j]], i)..i : w \in 1..Len(code[rpo[j]]) /\ Uid(j, w) \in Nat
      BY ONLY <1>i, <3>1, Inv, WalkInv, j \in 1..Len(rpo), i \in 1..Len(code[rpo[j]]), UidFacts
    <3> QED BY ONLY <3>2, <3>3
  <2>5. ASSUME NEW w \in Marker(code[rpo[j]], i)..i, InsnPast(j, w)',
               NEW h \in code[rpo[j]][w].out \cap CallerSave
        PROVE  Stretch(ranges'[h], Uid(j, w), Uid(j, i))
    <3>1. InsnPast(j, w) BY <1>2, <2>4, <2>5
    <3>2. Stretch(ranges[h], Uid(j, w), Uid(j, i)) BY <2>2, <3>1 DEF ArgPlaced
    <3> QED BY <1>1, <2>4, <3>2
  <2>6. ArgPlaced(j, i)' BY ONLY <1>k, <2>4, <2>5 DEF ArgPlaced, Marker
  <2> QED BY <2>3, <2>6
<1> QED BY ONLY <1>k, <1>3, ArgInv DEF ArgInv

\* Before the first instruction of a block, a range loses nothing that lies in it.
LEMMA ArgEnter ==
  ASSUME Inv, WalkInv, IntervalInv, ArgInv, EnterBackwards PROVE ArgInv'
<1>k. /\ rpo' = rpo /\ code' = code /\ phase = "insn" /\ phase' # "insn" /\ phase' # "live"
      /\ firstUid' = firstUid /\ wk = 0
  BY RestKeeps DEF EnterBackwards
<1>t. \/ wb > 1 /\ wb' = wb - 1 /\ phase' = "leave"
      \/ ~ (wb > 1) /\ wb' = wb /\ phase' = "end"
  BY DEF EnterBackwards
<1>i. NumbersGiven /\ ListsOK /\ pc = "done" BY <1>k DEF IntervalInv, NumbersGiven
<1>b. /\ wb \in 1..Len(rpo) /\ firstUid[wb] \in Nat \ {0} /\ BeforeStart = firstUid[wb] - 1
      /\ BeforeStart \in Nat
  BY ONLY Inv, WalkInv, <1>i, <1>k, Borders
<1>l. Len(rpo) \in Nat /\ \A j \in 1..Len(rpo) : Len(code[rpo[j]]) \in Nat BY <1>i, Left
<1>r. ranges' = [r \in Reg |-> IF r \in livein[rpo[wb]]
                               THEN AddDef(ranges[r], BeforeStart) ELSE ranges[r]]
  BY DEF EnterBackwards, Block_
<1>f. Front = BeforeStart BY <1>k, <1>b DEF Front
<1>1. ASSUME NEW h \in CallerSave, NEW a \in Nat, NEW b \in Nat, BeforeStart =< a,
             Stretch(ranges[h], a, b)
      PROVE  Stretch(ranges'[h], a, b)
  <2>1. PICK s, t : s = ranges[h] /\ t = ranges'[h] OBVIOUS
  <2>2. h \in Reg BY HardAssumption
  <2>3. Sorted(s) /\ t = IF h \in livein[rpo[wb]] THEN AddDef(s, BeforeStart) ELSE s
    BY <1>i, <1>r, <2>1, <2>2 DEF ListsOK
  <2>4. Stretch(t, a, b) BY ONLY <1>b, <1>1, <2>1, <2>3, AddDefKeeps
  <2> QED BY <2>1, <2>4
<1>2. \A j \in 1..Len(rpo) : \A i \in 1..Len(code[rpo[j]]) : InsnPast(j, i)' => InsnPast(j, i)
  BY <1>k, <1>t, <1>b, <1>l DEF InsnPast
<1>3. ASSUME NEW j \in 1..Len(rpo), NEW i \in 1..Len(code[rpo[j]]),
             code[rpo[j]][i].kind = "call", InsnPast(j, i)'
      PROVE  ArgPlaced(j, i)' /\ ArgOpen(j, i)'
  <2>1. InsnPast(j, i) BY <1>2, <1>3
  <2>2. ArgPlaced(j, i) BY <1>k, <1>3, <2>1 DEF ArgInv
  <2>3. ArgOpen(j, i)' BY <1>k DEF ArgOpen
  <2>4. /\ Uid(j, i) \in Nat /\ Uid(j, i)' = Uid(j, i)
        /\ \A w \in Marker(code[rpo[j]], i)..i : /\ w \in 1..Len(code[rpo[j]])
                                                /\ Uid(j, w) \in Nat /\ Uid(j, w)' = Uid(j, w)
    <3>1. phase # "live" BY <1>k
    <3>2. \A w : Uid(j, w)' = Uid(j, w) BY <1>k DEF Uid
    <3>3. /\ Uid(j, i) \in Nat
          /\ \A w \in Marker(code[rpo[j]], i)..i : w \in 1..Len(code[rpo[j]]) /\ Uid(j, w) \in Nat
      BY ONLY <1>i, <3>1, Inv, WalkInv, j \in 1..Len(rpo), i \in 1..Len(code[rpo[j]]), UidFacts
    <3> QED BY ONLY <3>2, <3>3
  <2>5. ASSUME NEW w \in Marker(code[rpo[j]], i)..i, InsnPast(j, w)',
               NEW h \in code[rpo[j]][w].out \cap CallerSave
        PROVE  Stretch(ranges'[h], Uid(j, w), Uid(j, i))
    <3>1. InsnPast(j, w) BY <1>2, <2>4, <2>5
    <3>2. Stretch(ranges[h], Uid(j, w), Uid(j, i)) BY <2>2, <3>1 DEF ArgPlaced
    <3>3. BeforeStart < Uid(j, w)
      BY ONLY Inv, WalkInv, <1>i, <1>k, <1>f, <2>4, <3>1, j \in 1..Len(rpo),
              w \in Marker(code[rpo[j]], i)..i, PastIsLater
    <3> QED BY <1>1, <1>b, <2>4, <3>2, <3>3
  <2>6. ArgPlaced(j, i)' BY ONLY <1>k, <2>4, <2>5 DEF ArgPlaced, Marker
  <2> QED BY <2>3, <2>6
<1> QED BY ONLY <1>k, <1>3, ArgInv DEF ArgInv

\* One instruction.  An argument's move cuts the first range to where the
\* argument is, and nothing cuts it again.
LEMMA ArgInsn ==
  ASSUME Inv, WalkInv, IntervalInv, ArgInv, WalkBack PROVE ArgInv'
<1>k. /\ rpo' = rpo /\ code' = code /\ phase = "insn" /\ phase' = "insn" /\ wk' = wk - 1
      /\ firstUid' = firstUid /\ wb' = wb
  BY RestKeeps DEF WalkBack
<1>i. NumbersGiven /\ ListsOK /\ pc = "done" BY <1>k DEF IntervalInv, NumbersGiven
<1>x. PICK x, u : x = code[rpo[wb]][wk] /\ u = Uid(wb, wk) OBVIOUS
<1>c. code \in Codes BY DEF ArgInv
<1>b. wb \in 1..Len(rpo) /\ wk \in 0..Len(code[rpo[wb]]) /\ wk > 0
  BY <1>k, <1>i DEF NumbersGiven, Block_, WalkBack
<1>l. Len(code[rpo[wb]]) \in Nat BY <1>b, <1>i, Left
<1>w. wk \in 1..Len(code[rpo[wb]]) BY ONLY <1>b, <1>l
<1>f. /\ u = firstUid[wb] + wk - 1 /\ u \in Nat /\ Front = u /\ firstUid[wb] \in Nat \ {0}
  <2>1. phase # "live" BY <1>k
  <2>2. u \in Nat /\ u = firstUid[wb] + wk - 1 /\ firstUid[wb] \in Nat \ {0}
    BY ONLY <1>i, <1>b, <1>w, <1>x, <2>1, Inv, WalkInv, UidFacts
  <2> QED BY <1>k, <2>2 DEF Front
<1>1. ASSUME NEW h \in CallerSave
      PROVE  /\ \A a, b \in Nat : Stretch(ranges[h], a, b) /\ u =< a => Stretch(ranges'[h], a, b)
             /\ \A a, b \in Nat : FirstStretch(ranges[h], a, b) /\ a =< u =>
                  /\ h \notin x.out => FirstStretch(ranges'[h], a, b)
                  /\ h \in x.out => Stretch(ranges'[h], u, b)
             /\ x.kind = "call" =>
                  /\ h \notin x.out =>
                       FirstStretch(ranges'[h], Uid(wb, Marker(code[rpo[wb]], wk)), u)
                  /\ h \in x.out => Stretch(ranges'[h], u, u)
  <2>1. PICK s, t : s = ranges[h] /\ t = ranges'[h] OBVIOUS
  <2>2. h \in Reg BY HardAssumption
  <2> QED BY ONLY <1>x, <2>1, <2>2, Inv, WalkInv, IntervalInv, WalkBack, h \in CallerSave, InsnKeeps
<1>2. \A j \in 1..Len(rpo) : \A i \in 1..Len(code[rpo[j]]) :
        InsnPast(j, i)' <=> InsnPast(j, i) \/ (j = wb /\ i = wk)
  <2> TAKE j \in 1..Len(rpo)
  <2> TAKE i \in 1..Len(code[rpo[j]])
  <2>1. Len(code[rpo[j]]) \in Nat BY <1>i, Left
  <2>2. i \in Nat BY <2>1
  <2>3. wk - 1 < i <=> wk < i \/ i = wk BY ONLY <1>w, <1>l, <2>2
  <2> QED BY <1>k, <2>3 DEF InsnPast
<1>3. ASSUME NEW j \in 1..Len(rpo), NEW i \in 1..Len(code[rpo[j]]),
             code[rpo[j]][i].kind = "call", InsnPast(j, i)'
      PROVE  ArgPlaced(j, i)' /\ ArgOpen(j, i)'
  <2>m. PICK m \in 1..i : m = Marker(code[rpo[j]], i)
    <3>1. i \in Nat \ {0} 
      <4>1. Len(code[rpo[j]]) \in Nat BY <1>i, Left
      <4> QED BY <4>1
    <3> QED BY <3>1, MarkerOK
  <2>4. /\ Uid(j, i) \in Nat /\ Uid(j, i) = firstUid[j] + i - 1 /\ Len(code[rpo[j]]) \in Nat
        /\ firstUid[j] \in Nat
        /\ \A w \in m..i : /\ w \in 1..Len(code[rpo[j]]) /\ Uid(j, w) \in Nat
                           /\ Uid(j, w) = firstUid[j] + w - 1
    <3>1. phase # "live" BY <1>k
    <3> QED
      BY ONLY <1>i, <2>m, <3>1, Inv, WalkInv, j \in 1..Len(rpo), i \in 1..Len(code[rpo[j]]), UidFacts
  <2>v. Marker(code[rpo[j]], i)' = m BY ONLY <1>k, <2>m
  <2>u. \A w : Uid(j, w)' = Uid(j, w) BY <1>k DEF Uid
  <2>o. InsnPast(j, i) => ArgPlaced(j, i) /\ ArgOpen(j, i) BY <1>k, <1>3 DEF ArgInv
  <2>5. ASSUME NEW w \in m..i, InsnPast(j, w)', NEW h \in code[rpo[j]][w].out \cap CallerSave
        PROVE  Stretch(ranges'[h], Uid(j, w), Uid(j, i))
    <3>1. InsnPast(j, w) \/ (j = wb /\ w = wk) BY <1>2, <2>4, <2>5
    <3>2. CASE InsnPast(j, w)
      <4>1. InsnPast(j, i)
        <5>1. w =< i /\ w \in Int /\ i \in Int BY <2>m
        <5> QED BY <1>k, <1>b, <1>l, <3>2, <5>1 DEF InsnPast
      <4>2. Stretch(ranges[h], Uid(j, w), Uid(j, i)) BY <2>m, <2>o, <3>2, <4>1 DEF ArgPlaced
      <4>3. u < Uid(j, w)
        BY ONLY Inv, WalkInv, <1>i, <1>k, <1>f, <2>4, <3>2, j \in 1..Len(rpo), w \in m..i, PastIsLater
      <4>4. u =< Uid(j, w) BY ONLY <1>f, <2>4, <4>3, w \in m..i
      <4> QED BY ONLY <1>1, <2>4, <4>2, <4>4, w \in m..i, h \in code[rpo[j]][w].out \cap CallerSave
    <3>3. CASE j = wb /\ w = wk /\ i = wk
      <4>1. h \in x.out /\ x.kind = "call" /\ Uid(j, w) = u /\ Uid(j, i) = u
        BY ONLY <1>x, <1>3, <3>3, h \in code[rpo[j]][w].out \cap CallerSave
      <4>2. h \in CallerSave OBVIOUS
      <4> QED BY ONLY <1>1, <4>1, <4>2
    <3>4. CASE j = wb /\ w = wk /\ i # wk
      <4>1. InsnPast(j, i) BY <1>2, <1>3, <3>4
      <4>2. h \in x.out /\ Uid(j, w) = u /\ h \in CallerSave
        BY ONLY <1>x, <3>4, h \in code[rpo[j]][w].out \cap CallerSave
      <4>3. \A y \in (wk + 1)..i : h \notin code[rpo[j]][y].out
        BY ONLY <1>3, <1>c, <1>i, <2>m, <3>4, Inv, WalkInv, j \in 1..Len(rpo),
                i \in 1..Len(code[rpo[j]]), w \in m..i,
                h \in code[rpo[j]][w].out \cap CallerSave, WrittenOnce
      <4>4. m =< wk /\ m \in m..i
        BY ONLY <2>m, <2>4, <3>4, w \in m..i
      <4>5. FirstStretch(ranges[h], Uid(j, m), Uid(j, i))
        BY <1>k, <2>m, <2>o, <3>4, <4>1, <4>2, <4>3, <4>4 DEF ArgOpen
      <4>6. Uid(j, m) =< u /\ Uid(j, m) \in Nat
        BY ONLY <1>f, <1>w, <1>l, <2>4, <3>4, <4>4, m \in 1..i
      <4> QED BY ONLY <1>1, <2>4, <4>2, <4>5, <4>6
    <3> QED BY <3>1, <3>2, <3>3, <3>4
  <2>6. ArgPlaced(j, i)'
    BY ONLY <2>v, <2>u, <2>5, <1>k DEF ArgPlaced
  <2>7. ASSUME j = wb, m =< wk - 1, NEW h \in CallerSave,
               \A w \in wk..i : h \notin code[rpo[j]][w].out
        PROVE  FirstStretch(ranges'[h], Uid(j, m), Uid(j, i))
    <3>0. wk =< i /\ i \in Int /\ wk \in Int /\ m \in m..i
      <4>1. InsnPast(j, i) \/ i = wk BY <1>2, <1>3
      <4>2. i \in Int /\ wk \in Int /\ m \in m..i BY <2>m, <1>b
      <4>3. wk < i \/ i = wk BY ONLY <1>k, <2>7, <4>1, <1>b, <1>l DEF InsnPast
      <4> QED BY ONLY <4>2, <4>3
    <3>1. wk \in wk..i BY ONLY <3>0
    <3>2. h \notin x.out BY <1>x, <2>7, <3>1
    <3>3. CASE i = wk
      <4>1. x.kind = "call" /\ Uid(j, i) = u BY ONLY <1>x, <1>3, <2>7, <3>3
      <4>2. Uid(j, m) = Uid(wb, Marker(code[rpo[wb]], wk)) BY ONLY <2>m, <2>7, <3>3
      <4> QED BY ONLY <1>1, <3>2, <4>1, <4>2, h \in CallerSave
    <3>4. CASE i # wk
      <4>1. InsnPast(j, i) BY <1>2, <1>3, <3>4
      <4>2. m =< wk /\ \A w \in (wk + 1)..i : w \in wk..i BY ONLY <2>m, <2>7, <3>0
      <4>3. FirstStretch(ranges[h], Uid(j, m), Uid(j, i))
        BY <1>k, <2>m, <2>o, <2>7, <4>1, <4>2 DEF ArgOpen
      <4>4. Uid(j, m) =< u /\ Uid(j, m) \in Nat
        <5>1. PICK b \in Nat \ {0}, q \in Nat : b = firstUid[wb] /\ q = wk
          BY ONLY <1>f, <1>w, <1>l
        <5>2. Uid(j, m) = b + m - 1 /\ u = b + q - 1 /\ m =< q
          BY ONLY <1>f, <2>7, <4>2, <5>1 DEF Uid
        <5>3. m \in Nat \ {0} BY ONLY <3>0, m \in 1..i
        <5> QED BY ONLY <5>1, <5>2, <5>3
      <4> QED BY ONLY <1>1, <2>4, <3>2, <4>3, <4>4, h \in CallerSave
    <3> QED BY <3>3, <3>4
  <2>8. ArgOpen(j, i)'
    <3>1. wk' + 1 = wk BY <1>k, <1>b
    <3> QED BY ONLY <1>k, <2>v, <2>u, <2>7, <3>1 DEF ArgOpen
  <2> QED BY <2>6, <2>8
<1> QED BY ONLY <1>k, <1>3, ArgInv DEF ArgInv

\* The end of the walk changes no range.
LEMMA ArgFinish ==
  ASSUME Inv, WalkInv, IntervalInv, ArgInv, FinishWalk PROVE ArgInv'
<1>k. /\ rpo' = rpo /\ code' = code /\ phase = "end" /\ phase' = "done" /\ firstUid' = firstUid
      /\ ranges' = ranges
  BY RestKeeps DEF FinishWalk
<1>1. \A j, i : InsnPast(j, i)' /\ InsnPast(j, i) /\ Uid(j, i)' = Uid(j, i)
  BY <1>k DEF InsnPast, Uid
<1>2. ASSUME NEW j \in 1..Len(rpo), NEW i \in 1..Len(code[rpo[j]]), code[rpo[j]][i].kind = "call"
      PROVE  ArgPlaced(j, i)' /\ ArgOpen(j, i)'
  <2>1. ArgPlaced(j, i) BY <1>k, <1>1, <1>2 DEF ArgInv
  <2>2. ArgPlaced(j, i)' BY ONLY <1>k, <1>1, <2>1 DEF ArgPlaced, Marker
  <2>3. ArgOpen(j, i)' BY <1>k DEF ArgOpen
  <2> QED BY <2>2, <2>3
<1> QED BY ONLY <1>k, <1>2, ArgInv DEF ArgInv

-----------------------------------------------------------------------------
\* Nothing changes before the walk.
LEMMA ReservedLive ==
  ASSUME Inv, ReservedInv, ArgInv, LiveSets PROVE ReservedInv' /\ ArgInv'
<1>k. phase = "live" /\ phase' = "live" BY DEF LiveSets
<1>1. code' = code
  BY DEF LiveSets, Next, Order, StartRounds, EnterBlock, WalkInsn, LeaveBlock, EndRound, liveVars
<1>2. code \in Codes BY DEF ReservedInv
<1> QED BY <1>k, <1>1, <1>2 DEF ReservedInv, ArgInv

\* Stuttering.
LEMMA ReservedIdle ==
  ASSUME ReservedInv, ArgInv, UNCHANGED allVars PROVE ReservedInv' /\ ArgInv'
<1>k. /\ rpo' = rpo /\ code' = code /\ phase' = phase /\ wb' = wb /\ wk' = wk
      /\ firstUid' = firstUid /\ ranges' = ranges /\ lrBegin' = lrBegin
  BY DEF allVars, intervalVars, vars, orderVars
<1>1. ReservedInv'
  <2>1. InsnOrder' = InsnOrder BY <1>k DEF InsnOrder
  <2>2. \A a : (\A h \in Unavailable : FirstStretch(ranges'[h], a, LastPoint')) <=> ReservedFrom(a)
    BY <1>k, <2>1 DEF ReservedFrom, LastPoint
  <2> QED BY <1>k, <2>1, <2>2 DEF ReservedInv, ReservedFrom, LastPoint
<1>2. \A j, i : InsnPast(j, i)' = InsnPast(j, i) /\ Uid(j, i)' = Uid(j, i)
  BY <1>k DEF InsnPast, Uid
<1>3. \A j, i : (ArgPlaced(j, i)' <=> ArgPlaced(j, i)) /\ (ArgOpen(j, i)' <=> ArgOpen(j, i))
  BY <1>k, <1>2 DEF ArgPlaced, ArgOpen
<1>4. ArgInv' BY <1>k, <1>2, <1>3 DEF ArgInv
<1> QED BY <1>1, <1>4

\* What the walk keeps of SPILL_REG and of the argument registers.
THEOREM ReservedInvariance == IntervalSpec => [](ReservedInv /\ ArgInv)
<1>1. IntervalInit => ReservedInv /\ ArgInv
  BY DEF IntervalInit, Init, ReservedInv, ArgInv
<1>2. /\ Inv /\ WalkInv /\ IntervalInv /\ (Inv /\ WalkInv /\ IntervalInv)'
      /\ ReservedInv /\ ArgInv /\ [IntervalNext]_allVars
      => (ReservedInv /\ ArgInv)'
  <2> SUFFICES ASSUME Inv, WalkInv, IntervalInv, IntervalInv', ReservedInv, ArgInv,
                      [IntervalNext]_allVars
               PROVE  ReservedInv' /\ ArgInv'
    OBVIOUS
  <2>1. CASE LiveSets BY <2>1, ReservedLive
  <2>2. CASE StartWalk BY <2>2, ReservedStart, ArgStart
  <2>3. CASE LeaveBackwards BY <2>3, ReservedLeave, ArgLeave
  <2>4. CASE WalkBack BY <2>4, ReservedInsn, ArgInsn
  <2>5. CASE EnterBackwards BY <2>5, ReservedEnter, ArgEnter
  <2>6. CASE FinishWalk BY <2>6, ReservedFinish, ArgFinish
  <2>7. CASE UNCHANGED allVars BY <2>7, ReservedIdle
  <2> QED BY <2>1, <2>2, <2>3, <2>4, <2>5, <2>6, <2>7 DEF IntervalNext
<1> QED BY <1>1, <1>2, IntervalInvariance, PTL DEF IntervalSpec

\* An argument stays in its register from its move to the call, whatever else the
\* code between marker and call does (handle_method_arguments, add_def).
THEOREM ArgumentsKeptHolds == IntervalSpec => []ArgumentsKept
<1>1. Inv /\ WalkInv /\ IntervalInv /\ ArgInv => ArgumentsKept
  <2> SUFFICES ASSUME Inv, WalkInv, IntervalInv, ArgInv, phase = "done",
                      NEW j \in DOMAIN rpo, NEW i \in DOMAIN code[rpo[j]],
                      code[rpo[j]][i].kind = "call",
                      NEW w \in Marker(code[rpo[j]], i)..i,
                      NEW h \in code[rpo[j]][w].out \cap CallerSave
               PROVE  Stretch(ranges[h], Uid(j, w), Uid(j, i))
    BY DEF ArgumentsKept, Stretch
  <2>1. pc = "done" BY DEF IntervalInv, NumbersGiven
  <2>2. j \in 1..Len(rpo) /\ i \in 1..Len(code[rpo[j]]) BY <2>1, Left
  <2>3. InsnPast(j, i) /\ InsnPast(j, w) BY DEF InsnPast
  <2>4. ArgPlaced(j, i) BY <2>2, <2>3 DEF ArgInv
  <2> QED BY <2>3, <2>4 DEF ArgPlaced
<1> QED BY <1>1, IntervalInvariance, ReservedInvariance, PTL

\* SPILL_REG is never free: its first range is the whole code, although add_def
\* cuts it at every branch and call.
THEOREM SpillRegReservedHolds == IntervalSpec => []SpillRegReserved
<1>1. Inv /\ WalkInv /\ IntervalInv /\ ReservedInv => SpillRegReserved
  <2> SUFFICES ASSUME Inv, WalkInv, IntervalInv, ReservedInv, phase = "done",
                      NEW h \in Unavailable, NEW v \in Virtual, lrBegin[v] < lrEnd[v]
               PROVE  Intersects(ranges[h], lrBegin[v], lrEnd[v])
    BY DEF SpillRegReserved
  <2>1. InsnOrder \in Nat \ {0} /\ LastPoint \in Nat /\ h \in Reg /\ v \in Reg
    <3>1. phase # "live" OBVIOUS
    <3>2. InsnOrder \in Nat \ {0} /\ LastPoint \in Nat /\ Unavailable \subseteq Reg
      BY ONLY Inv, WalkInv, IntervalInv, <3>1, LastOfCode
    <3> QED BY <3>2 DEF Virtual
  <2>2. lrBegin[v] \in Nat /\ lrEnd[v] \in Nat /\ Sorted(ranges[h])
    BY <2>1 DEF IntervalInv, ListsOK
  <2>3. lrBegin[v] < InsnOrder BY <2>1 DEF ReservedInv
  <2>4. FirstStretch(ranges[h], 0, LastPoint) BY DEF ReservedInv, ReservedFrom
  <2>5. PICK s, b, e : s = ranges[h] /\ b = lrBegin[v] /\ e = lrEnd[v] OBVIOUS
  <2>6. 1 \in DOMAIN s /\ s[1][1] \in Nat /\ s[1][2] \in Nat
    <3>1. s \in Seq(Span) /\ s # <<>> BY <2>2, <2>4, <2>5 DEF Sorted, FirstStretch
    <3>2. /\ s # <<>> => 1 \in DOMAIN s
          /\ \A g \in DOMAIN s : s[g][1] \in Nat /\ s[g][2] \in Nat
      BY ONLY <3>1, SpanOf
    <3> QED BY ONLY <3>1, <3>2
  <2>7. s[1][1] =< 0 /\ InsnOrder - 1 < s[1][2]
    BY ONLY <2>4, <2>5 DEF FirstStretch, LastPoint
  <2>8. Overlap(s[1][1], s[1][2], b, e)
    BY ONLY <2>1, <2>2, <2>3, <2>5, <2>6, <2>7, lrBegin[v] < lrEnd[v] DEF Overlap
  <2>9. b \in Nat /\ e \in Nat /\ b =< e /\ Sorted(s) BY <2>2, <2>5
  <2>10. Intersects(s, b, e) BY ONLY <2>6, <2>8, <2>9, IntersectsOK
  <2> QED BY <2>5, <2>10
<1> QED BY <1>1, IntervalInvariance, ReservedInvariance, PTL
=============================================================================
