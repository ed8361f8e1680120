SPECIFICATION FrameSpec
CONSTANTS
  NoValue = NoValue
  Programs <- MCPrograms
  MaxDepth = 4
  Bottom = 100000
INVARIANTS FrameTypeOK ValuesArrive StackAligned
PROPERTY CallsKeepTheirPromise
