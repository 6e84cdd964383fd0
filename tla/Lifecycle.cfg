SPECIFICATION FairSpec
CONSTANTS
  a = a
  b = b
  s1 = s1
  s2 = s2
  s3 = s3
  s4 = s4
  r1 = r1
  r2 = r2
  t1 = t1
  t2 = t2
  t3 = t3
  None = None
  Names = {a, b}
  Saved = {a}
  Speakers = {s1, s2, s3, s4}
  Requests = {r1, r2}
  Retries = {t1, t2, t3}
  MaxRequests = 2
  MaxFailures = 2
  MaxSelections = 1
\* After what breaks Orderly only the first step is looked at.  What is claimed of later ones (TypeOK,
\* OfflineWhenStopped, WebLoginWins) is proved in LifecycleProofs, and was explored without ComesUp.
CONSTRAINT
  Orderly
CHECK_DEADLOCK FALSE
INVARIANTS
  SpeakersAreKnown
  StoppedIsSilent
PROPERTIES
  WebLoginWins
  ComesUp
