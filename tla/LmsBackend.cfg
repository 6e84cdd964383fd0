CONSTANTS
  a = a
  b = b
  c = c
  Tracks <- MCTracks
  Foreign = Foreign
  None = None
  MaxCommands = 2
  MaxArms = 3
  MaxAdvances = 1
  MaxForeign = 1
  MaxFailures = 1
SPECIFICATION Spec
SYMMETRY Symmetry
CHECK_DEADLOCK FALSE
INVARIANTS
  InCharge
  PlaylistIsKnown
  PlayerIsRight
  EndIsTold
