------------------------------ MODULE Session -------------------------------
(***************************************************************************)
(* rgs.Session: one player's view onto the rounds, with at most one active *)
(* bet.  A method holds the session's own mutex throughout, so each call   *)
(* is one action; XxxRefused is the case in which the method returns an    *)
(* error and changes nothing.  The sessions live in Manager.sessions and   *)
(* are never removed from it.                                              *)
(***************************************************************************)
EXTENDS Integers

CONSTANTS
  Sessions,      \* session ids
  NoBet          \* Session.Bet = nil

VARIABLES
  sState,        \* Session.State; NONE before OpenSession
  sPlayer,       \* Session.PlayerID
  sBet,          \* Session.Bet: the id of the bet, or NoBet
  sMarble,       \* Session.Bet.MarbleIndex, -1 until the race starts
  sLast          \* Session.LastResult: the outcome of the last settled bet

sessionVars == <<sState, sPlayer, sBet, sMarble, sLast>>

NoResult == [bet |-> NoBet, won |-> FALSE, prize |-> 0]     \* LastResult = nil

SessionStates == {"NONE", "OPEN", "BET", "RACING", "SETTLED", "CLOSED"}

SessionInit(anyone) ==
  /\ sState  = [s \in Sessions |-> "NONE"]
  /\ sPlayer = [s \in Sessions |-> anyone]
  /\ sBet    = [s \in Sessions |-> NoBet]
  /\ sMarble = [s \in Sessions |-> -1]
  /\ sLast   = [s \in Sessions |-> NoResult]

\* Manager.OpenSession, under the manager's mutex.
Open(s, player) ==
  /\ sState[s] = "NONE"
  /\ sState'  = [sState EXCEPT ![s] = "OPEN"]
  /\ sPlayer' = [sPlayer EXCEPT ![s] = player]
  /\ UNCHANGED <<sBet, sMarble, sLast>>

\* A wrong check, that refuses a bet only to a closed session.
CanPlaceBetUnlessClosed(s) == sState[s] \notin {"NONE", "CLOSED"}

CanPlaceBet(s) == sState[s] \in {"OPEN", "SETTLED"} /\ sBet[s] = NoBet

AttachBet(s, bet) ==
  /\ CanPlaceBet(s)
  /\ sState'  = [sState EXCEPT ![s] = "BET"]
  /\ sBet'    = [sBet EXCEPT ![s] = bet]
  /\ sMarble' = [sMarble EXCEPT ![s] = -1]
  /\ UNCHANGED <<sPlayer, sLast>>

CanAssignMarble(s) == sState[s] = "BET" /\ sBet[s] # NoBet

AssignMarble(s, index) ==
  /\ CanAssignMarble(s)
  /\ sState'  = [sState EXCEPT ![s] = "RACING"]
  /\ sMarble' = [sMarble EXCEPT ![s] = index]
  /\ UNCHANGED <<sPlayer, sBet, sLast>>

CanSettle(s) == sState[s] = "RACING"

SettleBet(s, outcome) ==
  /\ CanSettle(s)
  /\ sLast'   = [sLast EXCEPT ![s] = outcome]
  /\ sState'  = [sState EXCEPT ![s] = "SETTLED"]
  /\ sBet'    = [sBet EXCEPT ![s] = NoBet]
  /\ sMarble' = [sMarble EXCEPT ![s] = -1]
  /\ UNCHANGED sPlayer

\* Close is accepted again from CLOSED; only an unsettled bet refuses it.
CanClose(s) == sState[s] \notin {"NONE", "BET", "RACING"}

Close(s) ==
  /\ CanClose(s)
  /\ sState' = [sState EXCEPT ![s] = "CLOSED"]
  /\ UNCHANGED <<sPlayer, sBet, sMarble, sLast>>
=============================================================================
