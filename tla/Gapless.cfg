SPECIFICATION Spec
CONSTANTS
  Tracks = {a, b, c}
  a = a
  b = b
  c = c
  None = None
  PlayConfirmations = 2
  StopConfirmations = 3
  MaxMessages = 2
  MaxEnds = 2
  MaxDevice = 1
  MaxBadReads = 1
SYMMETRY Symmetry
CHECK_DEADLOCK FALSE
INVARIANTS
  ArmingIsRight
  ToldIsHeard
  HistoryIsTrue
PROPERTIES
  PausedListenSurvives
