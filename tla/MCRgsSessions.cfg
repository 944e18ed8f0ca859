CONSTANTS
  alice = alice
  s1 = s1
  s2 = s2
  s3 = s3
  b1 = b1
  b2 = b2
  b3 = b3
  n1 = n1
  n2 = n2
  NoBet = NoBet
  MaxUint64 = 4095
  BasisPoints = 100
  Players = {alice}
  Opening <- MCOpening
  Sessions = {s1, s2, s3}
  BetCalls = {b1, b2, b3}
  RoundBetCalls = {}
  StartCalls = {}
  RunCalls = {n1, n2}
  BetRequests <- MCBetRequests
  RoundBetRequests = {}
  MaxMarbles = 2
  TrackPool <- MCTrackPool
  BuyIn = 2
  RTPBps = 95
  PayoutMultiplier = 19
  SubUnits = 10
  SimWinners = {0, 1}
  Faults = {"credit", "sim", "save"}
SPECIFICATION Spec
CHECK_DEADLOCK FALSE
SYMMETRY Symmetry
INVARIANTS TypeOK HeldOnce RunNeverRefused SessionsPaidAsSettled AuditDecidesOutcomes
