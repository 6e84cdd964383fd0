SPECIFICATION SessionSpec
CONSTANTS
  Sessions = {s1, s2}
  NoSession = none
  SendIds = {}
  MaxPushes = 2
  MaxTokens = 1
  MaxFailures = 1
  MaxMessages = 4
  MaxReleases = 1
  Tracks = {}
  NoTrack = noTrack
  Wants = {"none"}
  MaxInbox = 3
INVARIANTS
  OwnershipAgrees
  StaleCommandsDie
  DeactivationIsKept
VIEW ComparisonsView
CHECK_DEADLOCK FALSE
