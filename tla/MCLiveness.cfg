SPECIFICATION Spec
CONSTANTS
  e = e
  a = a
  b = b
  c = c
  x = x
  r1 = r1
  r2 = r2
  Block <- MCBlock
  Entry <- e
  Exit <- x
  Reg <- MCReg
  Graphs <- MCGraphs
  Codes <- MCCodes
INVARIANTS TypeOK Numbering Solution Exact
PROPERTIES Terminates
CHECK_DEADLOCK FALSE
