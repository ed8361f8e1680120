SPECIFICATION PipeSpec
CONSTANTS
  NoVar = NoVar
  Initial <- NameValue
  Size = 40
  Block <- MCBlock
  Entry = 1
  Exit = 2
  Var <- Name
  Width = 8
  Fuel = 8
  MaxBlocks = 100
  MaxIterations = 5
  OsrIterations = 2
  Programs <- MCSources
  Sources <- MCSources
  Plan <- MCPlan
  MaxExpanded = 3
  Threshold = 60
  MaxInsns = 1000
INVARIANT CopiesAvailable
CHECK_DEADLOCK FALSE
