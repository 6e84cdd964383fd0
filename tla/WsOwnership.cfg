SPECIFICATION Spec
CONSTANTS
  Sessions = {s1, s2}
  NoSession = none
  SendIds = {i1}
  MaxPushes = 2
  MaxTokens = 2
  MaxFailures = 1
  MaxMessages = 2
  MaxReleases = 1
INVARIANTS
  TypeOK
  OnlyTheOwnerReports
  ConnectedToCurrentSession
  NoArmedTakeover
  SelectionSpentOnce
PROPERTIES
  ExternalStaysPassive
  SelectionReachesServer
  AlwaysReconnects
VIEW GenerationView
CHECK_DEADLOCK FALSE
