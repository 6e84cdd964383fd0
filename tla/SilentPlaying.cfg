SPECIFICATION Spec
CONSTANTS
  Tracks = {t1, t2}
  NoTrack = noTrack
  Wants = {"playing", "paused", "stopped"}
  MaxSkips = 1
  MaxMessages = 3
  MaxInbox = 2
  MaxDrops = 1
  MaxEnds = 1
  MaxErrors = 0
INVARIANT
  PlayingIsAudible
VIEW ComparisonsView
CHECK_DEADLOCK FALSE
