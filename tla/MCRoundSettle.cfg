CONSTANTS
  alice = alice
  bob = bob
  MaxMarbles = 3
  Names = {alice, bob}
  Clock = {0, 1, 2}
  MaxUint64 = 31
  BasisPoints = 4
  BuyIns <- MCBuyIns
  Winners <- MCWinners
  MaxBps = 5
SPECIFICATION Spec
CHECK_DEADLOCK FALSE
INVARIANTS SeedAfterResult SettleIsExact
PROPERTY RoundOnlyAdvances
