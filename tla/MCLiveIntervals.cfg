SPECIFICATION IntervalSpec
CONSTANTS
  n0 = n0
  n1 = n1
  n2 = n2
  n3 = n3
  v1 = v1
  v2 = v2
  h0 = h0
  h1 = h1
  lr = lr
  ip = ip
  Block <- MCBlock
  Entry <- n0
  Exit <- n3
  Reg <- MCReg
  Hard <- MCHard
  CallerSave = {h0, h1}
  Unavailable = {ip}
  Graphs <- MCGraphs
  Codes <- MCCodes
INVARIANTS IntervalTypeOK Covers NoClobber ArgumentsKept SpillRegReserved
           ScanFindsOverlap UsesComplete
CHECK_DEADLOCK FALSE
