CONSTANTS
  alice = alice
  s1 = s1
  b1 = b1
  b2 = b2
  g1 = g1
  q1 = q1
  n1 = n1
  n2 = n2
  NoBet = NoBet
  MaxUint64 = 4095
  BasisPoints = 100
  Players = {alice}
  Opening <- MCOpening
  Sessions = {s1}
  BetCalls = {b1, b2}
  RoundBetCalls = {q1}
  StartCalls = {g1}
  RunCalls = {n1, n2}
  BetRequests <- MCBetRequests
  RoundBetRequests <- MCRoundBetRequests
  MaxMarbles = 2
  TrackPool <- MCTrackPool
  BuyIn = 2
  RTPBps = 95
  PayoutMultiplier = 19
  SubUnits = 10
  SimWinners = {0, 1, 2}
  Faults = {"credit", "save"}
SPECIFICATION Spec
CHECK_DEADLOCK FALSE
SYMMETRY Symmetry
INVARIANTS AuditDecidesOutcomes
PROPERTY KeepsLedger
