SPECIFICATION Spec
CONSTANTS
  u1 = u1
  u2 = u2
  u3 = u3
  Urls <- MCUrls
  None = None
  Foreign = Foreign
  MaxTasks = 3
  MaxEvents = 2
CHECK_DEADLOCK FALSE
SYMMETRY Symmetry
INVARIANTS
  EndIsReal
  TakeoverIsReal
  NextIsKnown
PROPERTIES
  OnlySelectionReturns
