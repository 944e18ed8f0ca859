---- MODULE MCWalletCalls ----
EXTENDS WalletCalls
CONSTANTS alice, bob, mallory, tx1, tx2, tx3
MCPlayers == {alice, bob, mallory}
\* mallory is not known to the wallet.
MCOpening == [p \in {alice, bob} |-> IF p = alice THEN 5 ELSE 0]
MCTxIds == {tx1, tx2, tx3}
\* 7 is the largest int64, so the record of 8 and of 12 is negative for a credit.
MCAmounts == {0, 2, 5, 8, 12}
====
