---- MODULE MCRgsClaims ----
\* The instance on which the claim fails: one session more than marbles.
EXTENDS RgsClaims
CONSTANTS alice, s1, s2, b1, b2, n1
MCOpening == [p \in {alice} |-> 3]
MCBetRequests == [session : {s1, s2}, amount : {1}]
MCTrackPool == <<0, 1>>
====
