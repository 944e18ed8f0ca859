---- MODULE MCRoundSettle ----
EXTENDS RoundSettle
CONSTANTS alice, bob
\* Words of five bits and an RTP in quarters: pots from empty to far past the
\* word, products that fit, just fit and overflow.
MCBuyIns == {0, 1, 5, 15, 31}
\* A winner the simulation did not find, the marbles, and one beyond them.
MCWinners == -1..3
====
