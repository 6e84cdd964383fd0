SPECIFICATION Spec
CONSTANTS
  Tracks = {t1, t2}
  NoTrack = noTrack
  Wants = {"playing", "paused", "stopped"}
  MaxSkips = 1
  MaxMessages = 3
  MaxInbox = 3
  MaxDrops = 2
  MaxEnds = 2
  MaxErrors = 2
INVARIANTS
  TypeOK
  NewestCommandWins
  StateIsAudible
  DeactivationSilences
PROPERTIES
  SkipEnds
VIEW ComparisonsView
CHECK_DEADLOCK FALSE
