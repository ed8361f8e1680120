SPECIFICATION Spec
CONSTANTS
  General = General
  NoRegs = NoRegs
  LastPos = 3
  NumHard = 4
  Class <- MCClass
  NextAvail <- MCNextAvail
  MaxNum <- MCMaxNum
  NumPhysicalRegs = 5
  NumInitial = 3
  MaxReg = 9
  Lifetimes <- MCRealLifetimes
  Code <- MCCode
  FixedInputs <- MCFixedInputs
  SpillBase = 8
  WordSize = 4
INVARIANT OldExpired
CHECK_DEADLOCK FALSE
