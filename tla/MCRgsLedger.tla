---- MODULE MCRgsLedger ----
\* Both kinds of bet: one session with two requests to bet on it, one round
\* bet on a pre-minted round, two overlapping runs; credits and saves may
\* fail, and the simulator may name a marble that does not exist.
EXTENDS RgsSafety, TLC
CONSTANTS alice, s1, b1, b2, g1, q1, n1, n2
MCOpening == [p \in {alice} |-> 2]
MCBetRequests == [session : {s1}, amount : {1}]
MCRoundBetRequests ==
  [round : {g1}, player : {alice}, marble : {0}, amount : {15}]
MCTrackPool == <<0>>
Symmetry == Permutations({b1, b2}) \cup Permutations({n1, n2})
====
