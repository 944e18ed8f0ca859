-------------------------------- MODULE Sums --------------------------------
(***************************************************************************)
(* The exact sum of a function's values over its domain, against which the *)
(* word arithmetic of the wallet and of rtp.Settle is compared.            *)
(***************************************************************************)
EXTENDS FiniteSetsExt

Sum(f) == MapThenSumSet(LAMBDA x : f[x], DOMAIN f)
=============================================================================
