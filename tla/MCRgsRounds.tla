---- MODULE MCRgsRounds ----
\* Round bets only: two pre-minted rounds, two bets on either of them,
\* before or after it is minted, and two overlapping runs; debits, credits
\* and saves may fail.
EXTENDS RgsSafety, TLC
CONSTANTS alice, g1, g2, q1, q2, n1, n2
MCOpening == [p \in {alice} |-> 2]
\* 5 tenths of a unit round to nothing; 15 are debited as 1 and paid as 28;
\* marble 2 does not exist.
MCRoundBetRequests ==
  [round : {g1, g2}, player : {alice}, marble : {1, 2}, amount : {15}]
    \cup [round : {g1, g2}, player : {alice}, marble : {1}, amount : {5}]
MCTrackPool == <<0>>
Symmetry == Permutations({q1, q2}) \cup Permutations({g1, g2})
              \cup Permutations({n1, n2})
====
