---- MODULE MCLiveStream ----
\* Two connections that announce the same round id and two viewers; with
\* three messages and DONE a stream is longer than a viewer's channel.
EXTENDS LiveStream
CONSTANTS sim1, sim2, v1, v2, id1
====
