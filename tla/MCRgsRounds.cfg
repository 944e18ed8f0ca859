CONSTANTS
  alice = alice
  g1 = g1
  g2 = g2
  q1 = q1
  q2 = q2
  n1 = n1
  n2 = n2
  NoBet = NoBet
  MaxUint64 = 4095
  BasisPoints = 100
  Players = {alice}
  Opening <- MCOpening
  Sessions = {}
  BetCalls = {}
  RoundBetCalls = {q1, q2}
  StartCalls = {g1, g2}
  RunCalls = {n1, n2}
  BetRequests = {}
  RoundBetRequests <- MCRoundBetRequests
  MaxMarbles = 2
  TrackPool <- MCTrackPool
  BuyIn = 2
  RTPBps = 95
  PayoutMultiplier = 19
  SubUnits = 10
  SimWinners = {0, 1}
  Faults = {"debit", "credit", "save"}
SPECIFICATION Spec
CHECK_DEADLOCK FALSE
SYMMETRY Symmetry
INVARIANTS RecordedIffAccepted RoundPlayedOnce RoundBetsPaidAsSettled
PROPERTY BetsFrozenOnceTaken
