-------------------------------- MODULE Frame --------------------------------
(***************************************************************************)
(* Calls between the functions the ARM back end makes: prologue, taking    *)
(* parameters, placing those of a call, branching, epilogue.  A function   *)
(* is what the frame depends on: its parameters, the registers its code    *)
(* writes, its arrays, its spill slots, the calls it makes.                *)
(***************************************************************************)
EXTENDS FrameLayout, SequencesExt, FiniteSetsExt

CONSTANTS
  Programs,  \* functions by number, main is 1; 0 stands for external functions
  MaxDepth,  \* BOUND on the activations a call in a branch is made under
  Bottom,    \* the stack pointer main is entered with
  NoValue

VARIABLES
  program,
  stack,     \* the activations: function, what it does next, parameters
  regs, mem, sp,
  made       \* activations made

frameVars == <<program, stack, regs, mem, sp, made>>

-----------------------------------------------------------------------------
\* ArmInstOutput: what instructions write that are not an operand of theirs.
MutantBranchKeeps(op) == IF op = "BL" THEN {LR, IP} ELSE {}
Outputs(op) == IF op = "BL" THEN {LR, IP} ELSE IF op = "B" THEN {IP} ELSE {}

Number(kinds, kind) == Cardinality({n \in DOMAIN kinds : kinds[n] = kind})
NeedsFp(f) == Number(f.params, "float") >= NUM_VFP_ARG_REGS \/ Number(f.params, "int") >= NUM_ARG_REGS

\* Every block but exit ends with a branch, entry does.
Written(f) ==
  f.writes \cup {SP} \cup Outputs("B") \cup (IF f.calls # <<>> THEN Outputs("BL") ELSE {})
    \cup (IF NeedsFp(f) THEN {FP} ELSE {})
\* The loop over the registers that are candidates collects those in the bitmap.
Collect(s, marked) ==
  LET counted[n \in 0..Len(s)] ==
        IF n = 0 THEN <<>> ELSE IF s[n] \in marked THEN Append(counted[n - 1], s[n]) ELSE counted[n - 1]
  IN counted[Len(s)]
General(f) == Collect(GeneralSave, Written(f))
UsedVfp(f) == Collect(VfpSave, Written(f))
Saved(f) == General(f) \o UsedVfp(f)

\* vpush takes a range of registers.
Vfp(f) == LET used == UsedVfp(f)
          IN IF used = <<>> THEN <<>> ELSE [i \in 1..(Last(used) - used[1] + 1) |-> used[1] + i - 1]

\* stackAlloc, assign_spill_slot
ArgSizeOf(f) == Max({0} \cup {ArgSize(Len(f.calls[k].args)) : k \in DOMAIN f.calls})
ArrayAt(f, i) ==
  LET offset[n \in 0..Len(f.arrays)] ==
        IF n = 0 THEN ArgSizeOf(f) ELSE offset[n - 1] + f.arrays[n]
  IN offset[i - 1]
MutantSlotAt(f, i) == ArgSizeOf(f) + UNITS_PER_WORD * (i - 1)
SlotAt(f, i) == ArrayAt(f, Len(f.arrays) + 1) + UNITS_PER_WORD * (i - 1)

Size(f) == SlotAt(f, Len(f.slots) + 1)
SavedBytes(f) == UNITS_PER_WORD * Len(Saved(f))
CalleeSavedSize(f) == SavedSize(Size(f), SavedBytes(f), SPILL_REG \in Written(f))
FrameSize(f) == StackSize(Size(f), SavedBytes(f), SPILL_REG \in Written(f))

\* What the function has for itself while others are called: registers, the ends of
\* its arrays and its slots.  A constant that is spilled is loaded again.  The link
\* register is written by the calls themselves.
Own(f) ==
  {<<"reg", r>> : r \in (f.writes \cap ToSet(CalleeSaveRegisters)) \ Outputs("BL")}
    \cup {<<"word", ArrayAt(f, i)>> : i \in DOMAIN f.arrays}
    \cup {<<"word", ArrayAt(f, i + 1) - UNITS_PER_WORD>> : i \in DOMAIN f.arrays}
    \cup {<<"word", SlotAt(f, i)>> : i \in {j \in DOMAIN f.slots : f.slots[j] # "const"}}

\* The code of a function.
Compiled(f) ==
  [params |-> f.params, result |-> f.result, writes |-> f.writes, arrays |-> f.arrays, slots |-> f.slots,
   calls |-> f.calls, fp |-> NeedsFp(f), general |-> General(f), vfp |-> Vfp(f), frame |-> FrameSize(f),
   saved |-> CalleeSavedSize(f), own |-> Own(f)]

\* The stack is aligned when the program begins.
ASSUME BottomAligned == Bottom \in Int /\ Bottom % 8 = 0

\* Functions as the stages before leave them: arrays of whole words; a call passes a
\* function there is what it takes, as the front end checks, and any library function.
\* The language has a main function without parameters.
Kind == {"int", "float"}
SourceCall == [fn : Nat, args : Seq(Kind), alone : BOOLEAN]
Source ==
  [params : Seq(Kind), result : Kind \cup {"void"}, writes : SUBSET (0..47),
   arrays : Seq({n \in Nat : n > 0 /\ n % UNITS_PER_WORD = 0}), slots : Seq(Kind \cup {"const"}),
   calls : Seq(SourceCall)]
ASSUME WellFormed ==
  \A p \in Programs : 1 \in DOMAIN p /\ p[1].params = <<>> /\ \A n \in DOMAIN p :
    /\ p[n] \in Source /\ n \in Nat \ {0}
    /\ \A k \in DOMAIN p[n].calls :
         LET c == p[n].calls[k]
         IN c.fn # 0 => c.fn \in DOMAIN p /\ c.args = p[c.fn].params

\* try_alloc_reg takes the lowest register that is free, and no code names the callee's:
\* the range vpush takes has the registers that were counted and no other.
ASSUME NoGaps == \A p \in Programs : \A n \in DOMAIN p : Vfp(p[n]) = UsedVfp(p[n])

-----------------------------------------------------------------------------
Top == Last(stack)
Fn == program[Top.fn]
At(step) == stack # <<>> /\ Top.step = step
Go(step) == stack' = [stack EXCEPT ![Len(stack)].step = step]

Value(what, a, b) == <<what, made, a, b>>
Words(at, n) == {at + UNITS_PER_WORD * (i - 1) : i \in 1..n}
Store(m, at, values) ==
  [a \in DOMAIN m \cup Words(at, Len(values)) |->
     IF a \in Words(at, Len(values)) THEN values[(a - at) \div UNITS_PER_WORD + 1] ELSE m[a]]
Load(m, at) == IF at \in DOMAIN m THEN m[at] ELSE NoValue
Values(rs) == [i \in DOMAIN rs |-> regs[rs[i]]]

FrameInit ==
  /\ \E p \in Programs : program = [n \in DOMAIN p |-> Compiled(p[n])]
  /\ stack = <<[fn |-> 1, step |-> "push", call |-> 1, left |-> 0, args |-> <<>>, taken |-> <<>>,
                top |-> Bottom, due |-> NoValue]>>
  /\ regs = [r \in 0..47 |-> IF r = LR THEN <<"ra", 0, 0, 0>> ELSE <<"start", 0, r, 0>>]
  /\ mem = [a \in {} |-> NoValue] /\ sp = Bottom /\ made = 1

\* translate_entry.  Instructions without operands are deleted.
Push ==
  /\ At("push") /\ Go("vpush")
  /\ sp' = sp - UNITS_PER_WORD * Len(Fn.general) /\ mem' = Store(mem, sp', Values(Fn.general))
  /\ UNCHANGED <<program, regs, made>>
VPush ==
  /\ At("vpush") /\ Go(IF Fn.fp THEN "fp" ELSE "move")
  /\ sp' = sp - UNITS_PER_WORD * Len(Fn.vfp) /\ mem' = Store(mem, sp', Values(Fn.vfp))
  /\ UNCHANGED <<program, regs, made>>
SetUpFp ==
  /\ At("fp") /\ Go("move")
  /\ regs' = [regs EXCEPT ![FP] = <<"address", sp + Fn.saved, 0, 0>>]
  /\ UNCHANGED <<program, mem, sp, made>>

\* With a large frame the distance is in SPILL_REG.
MoveBy(n) ==
  /\ sp' = sp + n
  /\ regs' = IF IsSimm8(Fn.frame) THEN regs
             ELSE [regs EXCEPT ![SPILL_REG] = <<"address", Fn.frame, 0, 0>>]
DecrementSp ==
  /\ At("move") /\ Go("take") /\ MoveBy(- Fn.frame)
  /\ UNCHANGED <<program, mem, made>>

Before(kinds, n, kind) == Number(SubSeq(kinds, 1, n - 1), kind)
TakeParameter ==
  LET n == Len(Top.taken) + 1
      kind == Fn.params[n]
      icnt == Before(Fn.params, n, "int")
      fcnt == Before(Fn.params, n, "float")
      value == IF InRegister(kind, icnt, fcnt) THEN regs[Register(kind, icnt, fcnt)]
               ELSE Load(mem, regs[FP][2] + OnStack(icnt, fcnt))
  IN /\ At("take") /\ n \in DOMAIN Fn.params
     /\ stack' = [stack EXCEPT ![Len(stack)].taken = Append(@, value)]
     /\ UNCHANGED <<program, regs, mem, sp, made>>

\* The code of the function up to its calls: spill code for a slot that is too far
\* goes through SPILL_REG.
Reached(f, i) == IF f.slots[i] = "float" THEN IsImm10(SlotAt(f, i)) ELSE IsDisp(SlotAt(f, i))
Work ==
  LET words == {sp + l[2] : l \in {o \in Fn.own : o[1] = "word"}}
      far == {i \in DOMAIN Fn.slots : Fn.slots[i] # "const" /\ ~ Reached(Fn, i)}
  IN /\ At("take") /\ Len(Top.taken) = Len(Fn.params) /\ Go("call")
     /\ regs' = [r \in DOMAIN regs |->
          IF r \in Fn.writes THEN Value("own", r, 0)
          ELSE IF r = SPILL_REG /\ far # {} THEN <<"address", SlotAt(Fn, Max(far)), 0, 0>>
          ELSE regs[r]]
     /\ mem' = [a \in DOMAIN mem \cup words |-> IF a \in words THEN Value("own", a, 1) ELSE mem[a]]
     /\ UNCHANGED <<program, sp, made>>

-----------------------------------------------------------------------------
\* translate_call.  The parameters of a call are looked for backwards from it: a call
\* without any finds the last one of a call before it in its block.
Call == Fn.calls[Top.call]
Earlier == {k \in 1..(Top.call - 1) : Fn.calls[k].args # <<>> /\ ~ Call.alone}
Placed == IF Call.args = <<>> /\ Earlier # {} THEN <<Last(Fn.calls[Max(Earlier)].args)>> ELSE Call.args

BeginCall ==
  /\ At("call") /\ Top.call \in DOMAIN Fn.calls
  /\ Call.alone => Len(stack) < MaxDepth
  /\ stack' = [stack EXCEPT ![Len(stack)].step = "place", ![Len(stack)].left = Len(Placed)]
  /\ UNCHANGED <<program, regs, mem, sp, made>>
\* A call in a branch that is not taken.
SkipCall ==
  /\ At("call") /\ Top.call \in DOMAIN Fn.calls /\ Call.alone
  /\ stack' = [stack EXCEPT ![Len(stack)].call = @ + 1]
  /\ UNCHANGED <<program, regs, mem, sp, made>>

\* Last parameter first.
PlaceParameter ==
  LET n == Top.left
      kind == Placed[n]
      icnt == Before(Placed, n, "int")
      fcnt == Before(Placed, n, "float")
      value == Value("arg", Top.call, n)
  IN /\ At("place") /\ n > 0
     /\ stack' = [stack EXCEPT ![Len(stack)].left = @ - 1]
     /\ IF InRegister(kind, icnt, fcnt)
        THEN regs' = [regs EXCEPT ![Register(kind, icnt, fcnt)] = value] /\ mem' = mem
        ELSE mem' = Store(mem, sp + OnStack(icnt, fcnt), <<value>>) /\ regs' = regs
     /\ UNCHANGED <<program, sp, made>>

Args == [n \in DOMAIN Call.args |-> Value("arg", Top.call, n)]
ResultReg(f) == IF f.result = "float" THEN VREG(R0) ELSE R0
CallFunction ==
  /\ At("place") /\ Top.left = 0 /\ Call.fn # 0
  /\ stack' = Append([stack EXCEPT ![Len(stack)].step = "result"],
       [fn |-> Call.fn, step |-> "push", call |-> 1, left |-> 0, args |-> Args, taken |-> <<>>,
        top |-> sp, due |-> NoValue])
  /\ regs' = [regs EXCEPT ![LR] = <<"ra", Len(stack), made, Top.call>>]
  /\ made' = made + 1
  /\ UNCHANGED <<program, mem, sp>>

\* An external function keeps to the procedure call standard; the words its parameters
\* are passed in belong to it.
CallExternal ==
  LET passed == OnStack(Number(Call.args, "int"), Number(Call.args, "float")) IN
  /\ At("place") /\ Top.left = 0 /\ Call.fn = 0
  /\ stack' = [stack EXCEPT ![Len(stack)].step = "result", ![Len(stack)].due = Value("res", Top.call, 0)]
  /\ regs' = [r \in DOMAIN regs |->
       IF r = R0 THEN Value("res", Top.call, 0)
       ELSE IF r \in CallerSave \cup {IP, LR} THEN Value("lost", Top.call, r) ELSE regs[r]]
  /\ mem' = [a \in DOMAIN mem |-> IF a < sp + passed THEN Value("lost", Top.call, a) ELSE mem[a]]
  /\ UNCHANGED <<program, sp, made>>

TakeResult ==
  /\ At("result")
  /\ stack' = [stack EXCEPT ![Len(stack)].step = "call", ![Len(stack)].call = @ + 1,
                            ![Len(stack)].due = NoValue]
  /\ UNCHANGED <<program, regs, mem, sp, made>>

-----------------------------------------------------------------------------
\* translate_exit
SetResult ==
  /\ At("call") /\ Top.call = Len(Fn.calls) + 1
  /\ LET value == IF Fn.result = "void" THEN NoValue ELSE Value("res", Top.fn, Len(stack)) IN
     /\ stack' = [stack EXCEPT ![Len(stack)].step = "recover", ![Len(stack)].due = value]
     /\ regs' = IF Fn.result = "void" THEN regs ELSE [regs EXCEPT ![ResultReg(Fn)] = value]
  /\ UNCHANGED <<program, mem, sp, made>>
RecoverSp ==
  /\ At("recover") /\ Go("vpop") /\ MoveBy(Fn.frame)
  /\ UNCHANGED <<program, mem, made>>
Loaded(rs) == [r \in DOMAIN regs |->
  IF r \in ToSet(rs) THEN Load(mem, sp + UNITS_PER_WORD * (r - rs[1])) ELSE regs[r]]
VPop ==
  /\ At("vpop") /\ Go("pop")
  /\ regs' = Loaded(Fn.vfp) /\ sp' = sp + UNITS_PER_WORD * Len(Fn.vfp)
  /\ UNCHANGED <<program, mem, made>>
Pop ==
  /\ At("pop") /\ Go("leave")
  /\ regs' = [r \in DOMAIN regs |->
       IF r \in ToSet(Fn.general)
       THEN LET i == CHOOSE j \in DOMAIN Fn.general : Fn.general[j] = r
            IN Load(mem, sp + UNITS_PER_WORD * (i - 1))
       ELSE regs[r]]
  /\ sp' = sp + UNITS_PER_WORD * Len(Fn.general)
  /\ UNCHANGED <<program, mem, made>>

\* It goes on wherever the link register says; other than that it cannot go on.
Leave ==
  /\ At("leave") /\ regs[LR][1] = "ra" /\ regs[LR][2] \in 0..(Len(stack) - 1)
  /\ LET depth == regs[LR][2]
     IN stack' = IF depth = 0 THEN <<>>
                 ELSE [SubSeq(stack, 1, depth) EXCEPT ![depth].due = Top.due]
  /\ UNCHANGED <<program, regs, mem, sp, made>>

Returned == stack = <<>> /\ UNCHANGED frameVars

FrameNext ==
  \/ Push \/ VPush \/ SetUpFp \/ DecrementSp \/ TakeParameter \/ Work
  \/ BeginCall \/ SkipCall \/ PlaceParameter \/ CallFunction \/ CallExternal \/ TakeResult
  \/ SetResult \/ RecoverSp \/ VPop \/ Pop \/ Leave \/ Returned

FrameSpec == FrameInit /\ [][FrameNext]_frameVars

-----------------------------------------------------------------------------
FrameTypeOK ==
  /\ sp \in Int /\ made \in Nat
  /\ \A i \in DOMAIN stack : stack[i].fn \in DOMAIN program /\ stack[i].top >= sp
  /\ DOMAIN regs = 0..47 /\ \A a \in DOMAIN mem : a % UNITS_PER_WORD = 0

\* A function takes the parameters its caller placed, from registers and from the
\* stack, and the caller finds the result where it takes it.
ValuesArrive ==
  /\ \A i \in DOMAIN stack : stack[i].taken = SubSeq(stack[i].args, 1, Len(stack[i].taken))
  /\ At("result") /\ Top.due # NoValue =>
       regs[IF Call.fn = 0 THEN R0 ELSE ResultReg(program[Call.fn])] = Top.due

\* update_frame_layout: the stack pointer is a multiple of eight wherever another
\* function begins; the second of its two tests for that cannot fail.
StackAligned == At("place") \/ At("push") => sp % 8 = 0

\* Where the registers of suspended activations are: the next one that writes a
\* register has saved it.
SavedBy(j) ==
  LET f == program[stack[j].fn]
      at(rs, end) == {<<rs[i], end - UNITS_PER_WORD * (Len(rs) - i + 1)>> : i \in DOMAIN rs}
      step == stack[j].step
  IN (IF step \in {"push", "leave"} THEN {} ELSE at(f.general, stack[j].top))
     \cup (IF step \in {"push", "vpush", "pop", "leave"} THEN {}
           ELSE at(f.vfp, stack[j].top - UNITS_PER_WORD * Len(f.general)))
RegisterOf(i, r) ==
  LET savers == {j \in (i + 1)..Len(stack) : \E s \in SavedBy(j) : s[1] = r} IN
  IF savers = {} THEN regs[r]
  ELSE Load(mem, (CHOOSE s \in SavedBy(Min(savers)) : s[1] = r)[2])
StackPointer(i) == IF i = Len(stack) THEN sp ELSE stack[i + 1].top
Holds(i) ==
  IF stack[i].step \notin {"call", "place", "result"} THEN NoValue
  ELSE [l \in program[stack[i].fn].own |->
          IF l[1] = "reg" THEN RegisterOf(i, l[2]) ELSE Load(mem, StackPointer(i) + l[2])]

\* Calls keep what they promise: what an activation has set, it finds again after
\* every call, and every return leads to its caller.
Promise == INSTANCE Activations WITH acts <- [i \in DOMAIN stack |-> Holds(i)], Unset <- NoValue
CallsKeepTheirPromise == Promise!Spec
=============================================================================
