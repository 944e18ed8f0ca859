SPECIFICATION FairSpec
CONSTANTS
  Clients = {c1, c2}
  Marbles = {m1, m2}
  MaxBets = 2
  None = None
  Fresh = Fresh
INVARIANTS TypeOK EachRunTakesARound SettlementIsShown
PROPERTY RunIsHeardOf
CHECK_DEADLOCK FALSE
