SPECIFICATION Spec
CONSTANTS
  General = General
  NoRegs = NoRegs
  LastPos = 3
  NumHard = 4
  Class <- MCClass
  NextAvail <- MCNextAvail
  MaxNum <- MCMaxNum
  NumPhysicalRegs = 5
  NumInitial = 5
  MaxReg = 15
  Lifetimes <- MCRealLifetimes
  Code <- MCCode
  FixedInputs <- MCFixedInputs
  SpillBase = 8
  WordSize = 4
INVARIANTS TypeOK NoOverlap FixedRespected Accounting Completed NeverStuck
PROPERTIES Terminates
CHECK_DEADLOCK FALSE
