SPECIFICATION FairSpec
CONSTANTS
  a = a
  b = b
  c = c
  NoItem = NoItem
  Items = {a, b, c}
  Lists <- TwoLists
  PreloadCount = 2
  MaxLoads = 2
  MaxOps = 2
  MaxFailures = 1
CHECK_DEADLOCK FALSE
INVARIANTS
  CursorHolds
PROPERTIES
  ImplementsPlayOrder
  SkipMovesOn
  PreloadKeepsUp
