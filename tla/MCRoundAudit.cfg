CONSTANTS
  t1 = t1
  t2 = t2
  None = None
  MaxJobs = 3
  ServerJobs = 2
  RoundIds = {1, 2}
  Tracks = {t1, t2}
SPECIFICATION FairSpec
CHECK_DEADLOCK FALSE
INVARIANTS TypeOK VisibleIsVerified  AiredTracksAlternate
PROPERTIES AppendOnly JobsEnd
