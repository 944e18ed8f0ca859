---------------------------- MODULE MCGameClient ----------------------------
(***************************************************************************)
(* Two clients against one queue of rounds, so that the run of one can     *)
(* take the round of the other.                                            *)
(***************************************************************************)
EXTENDS GameClient
=============================================================================
