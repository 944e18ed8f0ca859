CONSTANTS
  sim1 = sim1
  sim2 = sim2
  v1 = v1
  v2 = v2
  id1 = id1
  Done = Done
  Nobody = Nobody
  Sims = {sim1, sim2}
  Viewers = {v1, v2}
  RoundIds = {id1}
  LiveBuf = 1
  MaxMessages = 3
SPECIFICATION FairSpec
CHECK_DEADLOCK FALSE
INVARIANTS TypeOK InStep SubscribersAreOpen HubFindsLiveRound ExitIsQuiet
PROPERTIES CutOnlyLaggards EndReleasesViewers
