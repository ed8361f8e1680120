----------------------------- MODULE FrameLayout -----------------------------
(***************************************************************************)
(* Where a function of the ARM back end keeps things (CodeGeneratorArm32.c,*)
(* InstSelectorArm32.c): which registers it saves, where parameters are    *)
(* passed, and the frame, from the stack pointer up: parameters of the     *)
(* calls it makes, its arrays, its spill slots, padding, saved registers.  *)
(***************************************************************************)
EXTENDS Integers, Sequences

R0 == 0
FP == 11
IP == 12
SP == 13
LR == 14
VREG(n) == 16 + n
SPILL_REG == IP
NUM_ARG_REGS == 4
NUM_VFP_ARG_REGS == 16
UNITS_PER_WORD == 4

CallerSave == {VREG(i) : i \in 0..15} \cup 0..3
GeneralSave == <<4, 5, 6, 7, 8, 9, 10, 11, LR>>
VfpSave == [i \in 1..16 |-> VREG(15 + i)]
CalleeSaveRegisters == GeneralSave \o VfpSave

Larger(x, y) == IF x < y THEN y ELSE x

-----------------------------------------------------------------------------
\* A parameter that has icnt integers and fcnt floats before it: its register, or
\* its distance from the stack pointer of the caller.
Register(kind, icnt, fcnt) == IF kind = "float" THEN VREG(fcnt) ELSE icnt
InRegister(kind, icnt, fcnt) == IF kind = "float" THEN fcnt < NUM_VFP_ARG_REGS ELSE icnt < NUM_ARG_REGS
MutantWords(icnt, fcnt) == Larger(icnt - NUM_ARG_REGS, 0) + Larger(fcnt - NUM_VFP_ARG_REGS, 0)
OnStack(icnt, fcnt) == UNITS_PER_WORD * (Larger(icnt - NUM_ARG_REGS, 0) + Larger(fcnt - NUM_VFP_ARG_REGS, 0))

\* What a call with n parameters needs of the frame.
ArgSize(n) == Larger(0, (n - NUM_ARG_REGS) * UNITS_PER_WORD)

-----------------------------------------------------------------------------
\* Immediate operands: a byte shifted by an even distance, an offset of twelve bits
\* for ldr, of eight bits in words for vldr.  Frames are smaller than 2^30.
IsSimm8(n) == \E k \in 0..11 : n % 4^k = 0 /\ n \div 4^k =< 255
IsDisp(n) == n < 4096 /\ n > -4096
IsImm10(n) == n =< 1020 /\ n >= -1020 /\ n % 4 = 0

-----------------------------------------------------------------------------
\* update_frame_layout.  size: parameters, arrays and slots; saved: the registers to
\* save; written: whether an instruction writes SPILL_REG.
MutantWordAligned(size, saved) == IF (size + saved) % 4 # 0 THEN UNITS_PER_WORD ELSE 0
PadSize(size, saved) == IF (size + saved) % 8 # 0 THEN UNITS_PER_WORD ELSE 0

\* A frame too large for an immediate operand is moved over by way of SPILL_REG, which
\* is counted as saved unless it was written before; it is never pushed.
SavedSize(size, saved, written) ==
  IF ~ IsSimm8(size + PadSize(size, saved)) /\ ~ written THEN saved + UNITS_PER_WORD ELSE saved

\* The second test for alignment takes words for double words.
StackSize(size, saved, written) ==
  LET padded == size + PadSize(size, saved) IN
  IF (padded + SavedSize(size, saved, written)) % 4 # 0
  THEN IF PadSize(size, saved) # 0 THEN padded - UNITS_PER_WORD ELSE padded + UNITS_PER_WORD
  ELSE padded
=============================================================================
