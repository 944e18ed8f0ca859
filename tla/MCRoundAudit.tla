---- MODULE MCRoundAudit ----
\* Three jobs of a roundd, or two of an rgsd, over two round ids: they may meet
\* in one work directory and in one round directory, at once or one after the
\* other.
EXTENDS RoundAudit
CONSTANTS t1, t2
====
