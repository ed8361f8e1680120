SPECIFICATION Spec
CONSTANTS
  n0 = n0
  n1 = n1
  n2 = n2
  n3 = n3
  n4 = n4
  v = v
  va = va
  vb = vb
  y = y
  z = z
  NoVar = NoVar
  Initial <- MCZero
  Block <- MCBlock
  Entry <- n0
  Exit <- n4
  Var <- MCVar
  Width = 2
  MaxBlocks = 8
  Programs <- MCGiven
INVARIANTS CleanupTypeOK Preserves EdgesMatch PhisMatch Clean
PROPERTIES Terminates
CHECK_DEADLOCK FALSE
