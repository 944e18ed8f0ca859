CONSTANTS
  alice = alice
  bob = bob
  mallory = mallory
  tx1 = tx1
  tx2 = tx2
  tx3 = tx3
  MaxUint64 = 15
  Players <- MCPlayers
  Opening <- MCOpening
  TxIds <- MCTxIds
  Amounts <- MCAmounts
SPECIFICATION Spec
CHECK_DEADLOCK FALSE
INVARIANT LedgerExplainsBalances
PROPERTY TxDecidedOnce
