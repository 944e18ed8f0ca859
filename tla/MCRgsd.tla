---- MODULE MCRgsd ----
\* A bet, two rounds that may be raced at once and be waited for or not, a
\* session read and a scrape.
EXTENDS Rgsd
CONSTANTS b1, n1, n2, g1, s1
====
