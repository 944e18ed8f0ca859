CONSTANTS
  alice = alice
  s1 = s1
  s2 = s2
  b1 = b1
  b2 = b2
  n1 = n1
  NoBet = NoBet
  MaxUint64 = 4095
  BasisPoints = 100
  Players = {alice}
  Opening <- MCOpening
  Sessions = {s1, s2}
  BetCalls = {b1, b2}
  RoundBetCalls = {}
  StartCalls = {}
  RunCalls = {n1}
  BetRequests <- MCBetRequests
  RoundBetRequests = {}
  MaxMarbles = 1
  TrackPool <- MCTrackPool
  BuyIn = 2
  RTPBps = 95
  PayoutMultiplier = 19
  SubUnits = 10
  SimWinners = {0}
  Faults = {}
SPECIFICATION Spec
CHECK_DEADLOCK FALSE
INVARIANT NextRunSettles
