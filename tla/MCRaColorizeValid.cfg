SPECIFICATION Spec
CONSTANTS
  b1 = b1
  b2 = b2
  b3 = b3
  NumHard = 3
  NumRegs = 7
  MaxReg = 40
  Block <- MCBlock
  Blocks <- MCBlocks
  Succs <- MCSuccs
  LoopDepth <- MCDepth
  Available <- MCAvailable
  CallerSave <- MCCallerSave
  Programs <- MCPrograms
INVARIANTS ValidColors
CHECK_DEADLOCK FALSE
