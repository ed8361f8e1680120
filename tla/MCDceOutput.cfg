SPECIFICATION DceSpec
CONSTANTS
  n0 = n0
  n1 = n1
  n2 = n2
  n3 = n3
  n4 = n4
  n5 = n5
  v1 = v1
  v2 = v2
  xa = xa
  yb = yb
  yc = yc
  y = y
  z = z
  NoVar = NoVar
  Initial <- MCZero
  Block <- MCBlock
  Entry <- n0
  Exit <- n5
  Var <- MCVar
  Width = 2
  MaxBlocks = 10
  Programs <- MCGiven
INVARIANT OutputKept
CHECK_DEADLOCK FALSE
