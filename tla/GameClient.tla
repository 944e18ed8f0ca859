----------------------------- MODULE GameClient -----------------------------
(***************************************************************************)
(* The game client in RGS mode (game/main.gd, net/rgs_client.gd and the    *)
(* betting part of ui/hud.gd) against the round queue of rgs.Manager.      *)
(*                                                                         *)
(* A client has the server mint a round, takes bets on it for a window,    *)
(* and then does two things at once: it asks the server to run a round and *)
(* races the marbles itself.  Each HTTP call is a node of its own, so the  *)
(* answers come in any order, and before or after the local finish.        *)
(*                                                                         *)
(* A client mints one round, and the round has the client's name.  What    *)
(* the payout line says is a function of the bets it counts and of the     *)
(* winner it assumes, so a line is those two and who computed it.  The     *)
(* server's steps are the critical sections of RgsManager's, without the   *)
(* wallet, whose refusals are a choice.  _winner_idx_at_finish only feeds  *)
(* a log line (apply_settlement ignores the winner) and is left out, as is *)
(* the balance label.                                                      *)
(***************************************************************************)
EXTENDS Integers, FiniteSets, Sequences

CONSTANTS
  Clients, Marbles,
  MaxBets,      \* bound: bets all clients place
  None,         \* no round, no marble
  Fresh         \* a round minted by the run itself

ASSUME ClientAssumption ==
  /\ None \notin Clients \cup Marbles \cup {Fresh} /\ Fresh \notin Clients
  /\ MaxBets \in Nat /\ IsFiniteSet(Clients)

VARIABLES
  phase,     \* "asking", "minted", "window", "racing", "finished", "closed"
  roundId,   \* main._round_id: the round its bets name
  bet,       \* the call of each bet: "none", "sent", "served", "heard"
  placed,    \* hud._placed_bets
  outcomes,  \* main._pending_outcomes
  heard,     \* the run's call: "idle", "waiting", "completed", "failed"
  line,      \* hud._winner_payout_label
  rounds,    \* Manager.pendingRounds
  recorded,  \* the bets of each round
  run,       \* the server's side: "idle", "sent", "running", "settled", "failed"
  took,      \* the round that run consumed
  winner     \* the winner that run settled with

clientVars == <<phase, roundId, placed, outcomes, line>>
serverVars == <<rounds, recorded, took, winner>>
vars == <<clientVars, serverVars, bet, heard, run>>

BetIds == 1..MaxBets
Hidden == [by |-> "nobody", bets |-> {}, winner |-> None]
Lines  == [by : {"client", "server"}, bets : SUBSET BetIds, winner : Marbles]

Init ==
  /\ phase    = [c \in Clients |-> "asking"]
  /\ roundId  = [c \in Clients |-> None]
  /\ bet      = [c \in Clients |-> [k \in BetIds |-> "none"]]
  /\ placed   = [c \in Clients |-> {}]
  /\ outcomes = [c \in Clients |-> {}]
  /\ heard    = [c \in Clients |-> "idle"]
  /\ line     = [c \in Clients |-> Hidden]
  /\ rounds   = <<>>
  /\ recorded = [c \in Clients |-> {}]
  /\ run      = [c \in Clients |-> "idle"]
  /\ took     = [c \in Clients |-> None]
  /\ winner   = [c \in Clients |-> None]

Enters(c, from, to) ==
  /\ phase[c] = from
  /\ phase' = [phase EXCEPT ![c] = to]
-----------------------------------------------------------------------------
(* The start: POST /v1/rounds/start.                                       *)

IsPending(id) == \E i \in DOMAIN rounds : rounds[i] = id

\* The client's round exists, and waits or was run.
Minted(c) == IsPending(c) \/ \E d \in Clients : took[d] = c

\* The call may reach the server after the client has given it up or has quit:
\* the round then waits in the queue all the same.
MintRound(c) ==
  /\ ~Minted(c)
  /\ rounds' = Append(rounds, c)
  /\ phase' = IF phase[c] = "asking" THEN [phase EXCEPT ![c] = "minted"] ELSE phase
  /\ UNCHANGED <<roundId, placed, outcomes, line, recorded, took, winner, bet, heard, run>>

\* A JSON number is read as a double: an id of nanoseconds keeps its value
\* only when it is a multiple of 256, and names no round otherwise.
HearSpec(c) ==
  /\ Enters(c, "minted", "window")
  /\ \E id \in {c, None} : roundId' = [roundId EXCEPT ![c] = id]
  /\ UNCHANGED <<placed, outcomes, line, serverVars, bet, heard, run>>

\* Any failure: a race with a local seed, and no betting.
FallBack(c) ==
  /\ Enters(c, "asking", "racing") \/ Enters(c, "minted", "racing")
  /\ UNCHANGED <<roundId, placed, outcomes, line, serverVars, bet, heard, run>>

\* The player quits.  What the client has sent stays on its way.
Quit(c) ==
  /\ phase[c] # "closed"
  /\ phase' = [phase EXCEPT ![c] = "closed"]
  /\ UNCHANGED <<roundId, placed, outcomes, line, serverVars, bet, heard, run>>
-----------------------------------------------------------------------------
(* Bets: POST /v1/rounds/{round_id}/bets.                                  *)

Calls(c, k, from, to) ==
  /\ bet[c][k] \in from
  /\ bet' = [bet EXCEPT ![c][k] = to]
  /\ UNCHANGED <<phase, roundId, outcomes, line, rounds, took, winner, heard, run>>

\* The button is there only while the window is open.  A client's bets are
\* numbered in the order it places them.
PlaceBet(c, k) ==
  /\ phase[c] = "window"
  /\ Cardinality({p \in Clients \X BetIds : bet[p[1]][p[2]] # "none"}) < MaxBets
  /\ \A j \in 1..(k - 1) : bet[c][j] # "none"
  /\ Calls(c, k, {"none"}, "sent")
  /\ UNCHANGED <<placed, recorded>>

RecordBet(c, k) ==
  /\ Calls(c, k, {"sent"}, "served")
  /\ IsPending(roundId[c])
  /\ recorded' = [recorded EXCEPT ![roundId[c]] = @ \cup {k}]
  /\ UNCHANGED placed

\* No such round, one that was run, or a debit the wallet refuses.
RefuseBet(c, k) ==
  /\ Calls(c, k, {"sent"}, "served")
  /\ UNCHANGED <<placed, recorded>>

HearBet(c, k) ==
  /\ phase[c] # "closed"
  /\ Calls(c, k, {"served"}, "heard")
  /\ placed' = [placed EXCEPT ![c] = IF k \in recorded[c] THEN @ \cup {k} ELSE @]
  /\ UNCHANGED recorded

\* The request or its answer is lost with the connection: the player is told
\* that the bet failed, whatever the server did.
LoseBet(c, k) ==
  /\ phase[c] # "closed"
  /\ Calls(c, k, {"sent", "served"}, "heard")
  /\ UNCHANGED <<placed, recorded>>
-----------------------------------------------------------------------------
(* The run: POST /v1/rounds/run?wait=true.                                 *)

\* The window's timer fires: the call goes out and the local race starts.
\* The call may fail at once.
CloseWindow(c) ==
  /\ Enters(c, "window", "racing")
  /\ \/ /\ heard' = [heard EXCEPT ![c] = "waiting"]
        /\ run' = [run EXCEPT ![c] = "sent"]
     \/ /\ heard' = [heard EXCEPT ![c] = "failed"]
        /\ UNCHANGED run
  /\ UNCHANGED <<roundId, placed, outcomes, line, serverVars, bet>>

Runs(c, from, to) ==
  /\ run[c] = from
  /\ run' = [run EXCEPT ![c] = to]
  /\ UNCHANGED <<clientVars, bet, heard, recorded>>

\* A wrong run, that leaves the round in the queue until it is settled.
PeekRound(c) ==
  /\ Runs(c, "sent", "running")
  /\ took' = [took EXCEPT ![c] = IF rounds = <<>> THEN Fresh ELSE Head(rounds)]
  /\ UNCHANGED <<winner, rounds>>

\* The oldest round that waits, whoever had it minted.
TakeRound(c) ==
  /\ Runs(c, "sent", "running")
  /\ took' = [took EXCEPT ![c] = IF rounds = <<>> THEN Fresh ELSE Head(rounds)]
  /\ rounds' = IF rounds = <<>> THEN rounds ELSE Tail(rounds)
  /\ UNCHANGED winner

SettleRound(c) ==
  /\ Runs(c, "running", "settled")
  /\ \E m \in Marbles : winner' = [winner EXCEPT ![c] = m]
  /\ UNCHANGED <<rounds, took>>

\* The simulator fails, or is killed because the client that asked has gone;
\* the round's bets are lost with it.
FailRound(c) ==
  /\ Runs(c, "running", "failed")
  /\ UNCHANGED <<rounds, took, winner>>

\* The outcomes of the answer that belong to this player.
OutcomesFor(c) == IF took[c] = c THEN recorded[c] ELSE {}

\* HUD.apply_settlement.
Settlement(c, bets) ==
  IF bets = {} THEN Hidden ELSE [by |-> "server", bets |-> bets, winner |-> winner[c]]

\* A wrong handler, that shows the outcomes at once and keeps nothing for a
\* race that has not finished.
ShowAtOnce(c) ==
  /\ phase[c] # "closed"
  /\ heard[c] = "waiting" /\ run[c] = "settled"
  /\ heard' = [heard EXCEPT ![c] = "completed"]
  /\ line' = [line EXCEPT ![c] = Settlement(c, OutcomesFor(c))]
  /\ UNCHANGED <<phase, roundId, placed, outcomes, serverVars, bet, run>>

\* _on_round_completed: applied to a race that has finished, kept for one that
\* has not.
HearResult(c) ==
  /\ phase[c] # "closed"
  /\ heard[c] = "waiting" /\ run[c] = "settled"
  /\ heard' = [heard EXCEPT ![c] = "completed"]
  /\ IF phase[c] = "finished"
     THEN line' = [line EXCEPT ![c] = Settlement(c, OutcomesFor(c))] /\ UNCHANGED outcomes
     ELSE outcomes' = [outcomes EXCEPT ![c] = OutcomesFor(c)] /\ UNCHANGED line
  /\ UNCHANGED <<phase, roundId, placed, serverVars, bet, run>>

\* A call without its 90 seconds' timeout fails only when the server says so.
HearNoTimeout(c) ==
  /\ phase[c] # "closed"
  /\ heard[c] = "waiting" /\ run[c] = "failed"
  /\ heard' = [heard EXCEPT ![c] = "failed"]
  /\ outcomes' = [outcomes EXCEPT ![c] = {}]
  /\ UNCHANGED <<phase, roundId, placed, line, serverVars, bet, run>>

\* _on_round_failed: an error status, a lost connection or the timeout.
HearFailure(c) ==
  /\ phase[c] # "closed"
  /\ heard[c] = "waiting"
  /\ heard' = [heard EXCEPT ![c] = "failed"]
  /\ outcomes' = [outcomes EXCEPT ![c] = {}]
  /\ UNCHANGED <<phase, roundId, placed, line, serverVars, bet, run>>

\* HUD.reveal_winner.
Reveal(c, m) ==
  IF placed[c] = {} THEN Hidden ELSE [by |-> "client", bets |-> placed[c], winner |-> m]

\* A wrong handler, that keeps the outcomes it has shown.
FinishAndKeep(c, m) ==
  /\ Enters(c, "racing", "finished")
  /\ line' = [line EXCEPT ![c] =
       IF outcomes[c] = {} THEN Reveal(c, m) ELSE Settlement(c, outcomes[c])]
  /\ UNCHANGED <<roundId, placed, outcomes, serverVars, bet, heard, run>>

\* race_finished: the modal with the client's own winner, and over it the
\* outcomes that came before.
FinishRace(c, m) ==
  /\ Enters(c, "racing", "finished")
  /\ line' = [line EXCEPT ![c] =
       IF outcomes[c] = {} THEN Reveal(c, m) ELSE Settlement(c, outcomes[c])]
  /\ outcomes' = [outcomes EXCEPT ![c] = {}]
  /\ UNCHANGED <<roundId, placed, serverVars, bet, heard, run>>
-----------------------------------------------------------------------------
ClientStep(c) ==
  \/ MintRound(c) \/ HearSpec(c) \/ FallBack(c) \/ Quit(c)
  \/ \E k \in BetIds : \/ PlaceBet(c, k) \/ RecordBet(c, k) \/ RefuseBet(c, k)
                       \/ HearBet(c, k) \/ LoseBet(c, k)
  \/ CloseWindow(c) \/ TakeRound(c) \/ SettleRound(c) \/ FailRound(c)
  \/ HearResult(c) \/ HearFailure(c)
  \/ \E m \in Marbles : FinishRace(c, m)

Next == \E c \in Clients : ClientStep(c)

Spec == Init /\ [][Next]_vars

\* The client's own timers: the window's and that of the run's call.  Nothing
\* is assumed of the server, of the network, of the player or of the race.
Timers(c) == CloseWindow(c) \/ HearFailure(c)
FairSpec == Spec /\ \A c \in Clients : WF_vars(Timers(c))
-----------------------------------------------------------------------------
\* The types: a payout line counts bets the client placed or the server
\* settled, outcomes are kept only while the race goes on and after its answer
\* (main.gd:24), and a round leaves the queue as it is taken.
TypeOK ==
  /\ phase \in [Clients -> {"asking", "minted", "window", "racing", "finished", "closed"}]
  /\ roundId \in [Clients -> Clients \cup {None}]
  /\ bet \in [Clients -> [BetIds -> {"none", "sent", "served", "heard"}]]
  /\ placed \in [Clients -> SUBSET BetIds] /\ recorded \in [Clients -> SUBSET BetIds]
  /\ outcomes \in [Clients -> SUBSET BetIds]
  /\ heard \in [Clients -> {"idle", "waiting", "completed", "failed"}]
  /\ line \in [Clients -> Lines \cup {Hidden}]
  /\ Len(rounds) <= Cardinality(Clients)
  /\ run \in [Clients -> {"idle", "sent", "running", "settled", "failed"}]
  /\ took \in [Clients -> Clients \cup {None, Fresh}]
  /\ winner \in [Clients -> Marbles \cup {None}]
  /\ \A c \in Clients :
       outcomes[c] # {} => heard[c] = "completed" /\ phase[c] \in {"racing", "closed"}

\* RunNextRound consumes "the oldest pre-minted pending round, or generates one":
\* clients run a round only after they had one minted, so however their calls
\* cross, each run finds a round, no two find the same, and when every minted
\* round's client has had its run served no bet waits in the queue.
EachRunTakesARound ==
  /\ \A c \in Clients : took[c] # Fresh /\ ~IsPending(took[c])
  /\ \A c, d \in Clients : c # d /\ took[c] # None => took[c] # took[d]
  /\ (\A c \in Clients : phase[c] # "asking" => took[c] # None) => rounds = <<>>

\* _on_round_completed and race_finished "handle both orders": when the server
\* ran this client's round and the client heard so, the finished race shows
\* the server's settlement of all the bets the server holds, the ones the
\* client took for failed among them, and no line when there are none;
\* whichever came first, and however late the bets' answers are.
SettlementIsShown ==
  \A c \in Clients :
    phase[c] = "finished" /\ heard[c] = "completed" /\ took[c] = c =>
      line[c] = Settlement(c, recorded[c])

\* When the window is open the client races, and hears of the run it asked for
\* or gives it up, whatever the server and the network do (the 90 seconds of
\* rgs_client.gd:68), unless the player quits.
RunIsHeardOf ==
  \A c \in Clients :
    phase[c] = "window" ~>
      (phase[c] = "closed"
       \/ (phase[c] \in {"racing", "finished"} /\ heard[c] \in {"completed", "failed"}))
=============================================================================
