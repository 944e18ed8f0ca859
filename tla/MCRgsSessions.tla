---- MODULE MCRgsSessions ----
\* Sessions only: three sessions of one player, three bets, two overlapping
\* runs with two marbles, so that the field may be too small; credits, the
\* simulation and the store may fail.
EXTENDS RgsSafety, TLC
CONSTANTS alice, s1, s2, s3, b1, b2, b3, n1, n2
MCOpening == [p \in {alice} |-> 3]
MCBetRequests == [session : {s1, s2, s3}, amount : {1}]
MCTrackPool == <<0>>
Symmetry == Permutations({b1, b2, b3}) \cup Permutations({n1, n2})
              \cup Permutations({s1, s2, s3})
====
