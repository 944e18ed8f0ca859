----------------------------- MODULE RgsClaims ------------------------------
(***************************************************************************)
(* What comments and documents of the repository say of rgs.Manager and    *)
(* the code does not do.  Each claim is refuted by a run of its own.       *)
(***************************************************************************)
EXTENDS RgsSafety

\* CloseSession refuses an unsettled bet because "the caller must wait for the
\* next RunNextRound to settle it": so a run that has returned leaves no
\* session waiting that no later run will look at.
NextRunSettles ==
  \A n \in RunCalls : rPc[n] \in {"done", "failed"} =>
    \A i \in (settled[n] + 1)..Len(took[n]) : ~Live(took[n][i])
=============================================================================
