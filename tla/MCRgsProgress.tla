---- MODULE MCRgsProgress ----
\* Progress of both kinds of bet: two bets on the same or on different
\* sessions, a bet on a pre-minted round, and one run that may pop the round
\* under it; only debits may fail.
EXTENDS RgsSafety
CONSTANTS alice, s1, s2, b1, b2, g1, q1, n1
MCOpening == [p \in {alice} |-> 3]
MCBetRequests == [session : {s1, s2}, amount : {1}]
MCRoundBetRequests ==
  [round : {g1}, player : {alice}, marble : {0}, amount : {15}]
MCTrackPool == <<0>>
====
