----------------------------- MODULE RgsManager -----------------------------
(***************************************************************************)
(* rgs.Manager: sessions, bets, pre-minted rounds and the settlement of a  *)
(* round, over the wallet, the sessions and the payout of the modules it   *)
(* extends.                                                                *)
(*                                                                         *)
(* Every HTTP request runs in a goroutine of its own, and the manager's    *)
(* mutex is released around each wallet call, each session method, the     *)
(* simulation and the store, so a request is a process whose atomic steps  *)
(* are its critical sections.  A request is made at most once, is          *)
(* identified by a member of one of the four call sets, and mints at most  *)
(* one id (of a bet or of a round): the call stands for the id it mints,   *)
(* so ids are unique, as newID and the nanosecond clock make them.         *)
(*                                                                         *)
(* Faults is the set of failures the environment may inject, at any step   *)
(* they concern: "debit" and "credit" (the operator's wallet answers with  *)
(* an error and has done nothing), "sim" (the simulator fails, times out   *)
(* or is cancelled), "save" (the replay file or the store fails).          *)
(***************************************************************************)
EXTENDS Wallet, Session, Rtp

CONSTANTS
  Players,        \* player ids that are ever named
  Opening,        \* playerID -> balance, for the players the wallet knows
  BetCalls,       \* requests POST /v1/sessions/{id}/bet
  RoundBetCalls,  \* requests POST /v1/rounds/{round_id}/bets
  StartCalls,     \* requests POST /v1/rounds/start
  RunCalls,       \* requests POST /v1/rounds/run, and the scheduler's runs
  BetRequests,    \* the [session, amount] a bet request may carry
  RoundBetRequests, \* the [round, player, marble, amount] a round bet may carry
  MaxMarbles,     \* ManagerConfig.MaxMarbles
  TrackPool,      \* ManagerConfig.TrackPool
  BuyIn,          \* ManagerConfig.BuyIn
  RTPBps,         \* ManagerConfig.RTPBps
  PayoutMultiplier,
  SubUnits,       \* the decimal amount of a round bet is counted in
                  \* 1/SubUnits of a wallet unit
  SimWinners,     \* the winner indexes the simulator may report
  Faults

Rounds == StartCalls \cup RunCalls
TxIds  == (BetCalls \cup RoundBetCalls) \X {"bet", "credit", "refund"}

ASSUME RequestAssumption ==
  /\ BetRequests \subseteq [session : Sessions, amount : Word]
  /\ RoundBetRequests \subseteq
       [round : Rounds, player : Players, marble : Int, amount : Int]
  /\ NoBet \notin BetCalls

ASSUME CallsAssumption ==
  /\ BetCalls \cap RoundBetCalls = {}
  /\ StartCalls \cap RunCalls = {}

ASSUME ConfigAssumption ==
  /\ MaxMarbles \in Nat \ {0}
  /\ TrackPool \in Seq(Nat) /\ TrackPool # <<>>
  /\ BuyIn \in Word
  /\ RTPBps \in Nat
  /\ PayoutMultiplier \in Nat
  /\ SubUnits \in Nat \ {0}
  /\ SimWinners \subseteq Int
  /\ Players # {}
  /\ DOMAIN Opening \subseteq Players
  /\ Opening \in [DOMAIN Opening -> Word]

VARIABLES
  pending,        \* Manager.pending: sessions queued for the next round
  pendingRounds,  \* Manager.pendingRounds: pre-minted rounds, FIFO
  prBets,         \* pendingRound.bets of every round
  roundBets,      \* Manager.roundBets: the map the GET endpoint reads
  track,          \* RoundSpec.TrackID of every minted round, else -1
  prevTrack,      \* Manager.prevTrack
  manifests,      \* the store's manifests, in the order they were saved
  cPc, cReq,      \* bet requests: control point and arguments
  bPc, bReq,      \* round-bet requests
  gPc,            \* start requests
  rPc,            \* run requests
  took,           \* the local `pending` of a run: the sessions it took
  rRound,         \* the round a run plays
  rPrev,          \* the local `prevTrack` of a run
  winner,         \* simRes.WinnerMarbleIndex
  assigned,       \* how many of `took` have been given their marble
  settled,        \* how many of `took` have been settled
  outcomes,       \* the local `outcomes` of a run
  paid            \* how many of the round's bets have been settled

queueVars   == <<pending, pendingRounds, prBets, roundBets>>
trackVars   == <<track, prevTrack>>
betVars     == <<cPc, cReq>>
roundBetVars == <<bPc, bReq>>
runVars     == <<rPc, took, rRound, rPrev, winner, assigned, settled, outcomes, paid>>

vars == <<walletVars, sessionVars, queueVars, trackVars, manifests,
          betVars, roundBetVars, gPc, runVars>>
-----------------------------------------------------------------------------
(* The payout of a round: every seat counts BuyIn, bettor or filler.       *)

Stakes == [i \in 1..MaxMarbles |-> BuyIn]
Prize  == PrizeOf(Total(Stakes), RTPBps)

(* uint64(amount * 100) and uint64(amount * PayoutMultiplier * 100).       *)
DebitUnits(amount)  == Wrap(amount \div SubUnits)
PayoutUnits(amount) == Wrap((amount * PayoutMultiplier) \div SubUnits)

\* The track of a round: the pool's entry at the hash of the round id, or the
\* entry after it when that is the track before.  The hash is any index i.
SelectTrack(i, previous) ==
  IF Len(TrackPool) > 1 /\ TrackPool[i] = previous
  THEN TrackPool[(i % Len(TrackPool)) + 1]
  ELSE TrackPool[i]

Remember(map, key) ==
  [k \in DOMAIN map \cup {key} |-> IF k = key THEN <<>> ELSE map[k]]

IsPending(round) == \E i \in 1..Len(pendingRounds) : pendingRounds[i] = round
-----------------------------------------------------------------------------
Init ==
  /\ WalletInit(Opening)
  /\ SessionInit(CHOOSE p \in Players : TRUE)
  /\ pending = <<>> /\ pendingRounds = <<>> /\ manifests = <<>>
  /\ prBets    = [r \in Rounds |-> <<>>]
  /\ roundBets = [r \in {} |-> <<>>]
  /\ track     = [r \in Rounds |-> -1]
  /\ prevTrack = -1
  /\ cPc = [c \in BetCalls |-> "idle"]
  /\ cReq \in [BetCalls -> BetRequests]
  /\ bPc = [c \in RoundBetCalls |-> "idle"]
  /\ bReq \in [RoundBetCalls -> RoundBetRequests]
  /\ gPc = [g \in StartCalls |-> "idle"]
  /\ rPc      = [n \in RunCalls |-> "idle"]
  /\ took     = [n \in RunCalls |-> <<>>]
  /\ rRound   = [n \in RunCalls |-> n]
  /\ rPrev    = [n \in RunCalls |-> -1]
  /\ winner   = [n \in RunCalls |-> -1]
  /\ assigned = [n \in RunCalls |-> 0]
  /\ settled  = [n \in RunCalls |-> 0]
  /\ outcomes = [n \in RunCalls |-> <<>>]
  /\ paid     = [n \in RunCalls |-> 0]
-----------------------------------------------------------------------------
(* OpenSession and CloseSession.                                           *)

OpenSession(s) ==
  /\ \E p \in Players : Open(s, p)
  /\ UNCHANGED <<walletVars, queueVars, trackVars, manifests,
                 betVars, roundBetVars, gPc, runVars>>

CloseSession(s) ==
  /\ Close(s)
  /\ UNCHANGED <<walletVars, queueVars, trackVars, manifests,
                 betVars, roundBetVars, gPc, runVars>>
-----------------------------------------------------------------------------
(* PlaceBet: look the session up, debit, attach the bet to the session,    *)
(* queue the session.                                                      *)

BetMoves(c, from, to) ==
  /\ cPc[c] = from
  /\ cPc' = [cPc EXCEPT ![c] = to]
  /\ UNCHANGED <<cReq, trackVars, manifests, roundBetVars, gPc, runVars>>

DebitStake(c) ==
  LET s == cReq[c].session IN
  /\ BetMoves(c, "idle", "debited")
  /\ sState[s] # "NONE"
  /\ cReq[c].amount > 0
  /\ Debit(sPlayer[s], cReq[c].amount, <<c, "bet">>)
  /\ UNCHANGED <<sessionVars, queueVars>>

\* Unknown session, zero amount, or an error of the wallet: nothing changes.
RefuseBet(c) ==
  LET s == cReq[c].session IN
  /\ BetMoves(c, "idle", "refused")
  /\ \/ sState[s] = "NONE"
     \/ cReq[c].amount = 0
     \/ DebitRefused(sPlayer[s], cReq[c].amount, <<c, "bet">>)
     \/ "debit" \in Faults
  /\ UNCHANGED <<walletVars, sessionVars, queueVars>>

AttachToSession(c) ==
  /\ BetMoves(c, "debited", "attached")
  /\ AttachBet(cReq[c].session, c)
  /\ UNCHANGED <<walletVars, queueVars>>

\* A wrong handler of the same refusal, that keeps the money.
RejectAndKeepStake(c) ==
  /\ BetMoves(c, "debited", "refused")
  /\ ~CanPlaceBet(cReq[c].session)
  /\ UNCHANGED <<walletVars, sessionVars, queueVars>>

\* The session refused the bet after the money was taken.
RejectAttach(c) ==
  /\ BetMoves(c, "debited", "refunding")
  /\ ~CanPlaceBet(cReq[c].session)
  /\ UNCHANGED <<walletVars, sessionVars, queueVars>>

RefundStake(c) ==
  /\ BetMoves(c, "refunding", "refused")
  /\ Credit(sPlayer[cReq[c].session], cReq[c].amount, <<c, "refund">>)
  /\ UNCHANGED <<sessionVars, queueVars>>

\* The error of the refunding Credit is discarded.
LoseRefund(c) ==
  /\ BetMoves(c, "refunding", "refused")
  /\ "credit" \in Faults
  /\ UNCHANGED <<walletVars, sessionVars, queueVars>>

EnqueueBet(c) ==
  /\ BetMoves(c, "attached", "accepted")
  /\ pending' = Append(pending, cReq[c].session)
  /\ UNCHANGED <<walletVars, sessionVars, pendingRounds, prBets, roundBets>>
-----------------------------------------------------------------------------
(* GenerateRoundSpec: one critical section picks the track, another        *)
(* registers the round.                                                    *)

MintSpec(g) ==
  /\ gPc[g] = "idle"
  /\ gPc' = [gPc EXCEPT ![g] = "minted"]
  /\ \E i \in 1..Len(TrackPool) :
       /\ track' = [track EXCEPT ![g] = SelectTrack(i, prevTrack)]
       /\ prevTrack' = SelectTrack(i, prevTrack)
  /\ UNCHANGED <<walletVars, sessionVars, queueVars, manifests,
                 betVars, roundBetVars, runVars>>

RegisterSpec(g) ==
  /\ gPc[g] = "minted"
  /\ gPc' = [gPc EXCEPT ![g] = "registered"]
  /\ pendingRounds' = Append(pendingRounds, g)
  /\ roundBets' = Remember(roundBets, g)
  /\ UNCHANGED <<walletVars, sessionVars, pending, prBets, trackVars, manifests,
                 betVars, roundBetVars, runVars>>
-----------------------------------------------------------------------------
(* PlaceBetOnRound: find the round, debit, then find it again before the   *)
(* bet is recorded.                                                        *)

RoundBetMoves(c, from, to) ==
  /\ bPc[c] = from
  /\ bPc' = [bPc EXCEPT ![c] = to]
  /\ UNCHANGED <<bReq, sessionVars, pending, pendingRounds, trackVars, manifests,
                 betVars, gPc, runVars>>

ValidRoundBet(req) ==
  req.marble \in 0..(MaxMarbles - 1) /\ req.amount > 0

FindRound(c) ==
  /\ RoundBetMoves(c, "idle", "found")
  /\ ValidRoundBet(bReq[c])
  /\ IsPending(bReq[c].round)
  /\ DebitUnits(bReq[c].amount) # 0
  /\ UNCHANGED <<walletVars, prBets, roundBets>>

\* ErrInvalidMarbleIdx, ErrInvalidBetAmount, ErrRoundAlreadyRun, ErrUnknownRound.
RefuseRoundBet(c) ==
  /\ RoundBetMoves(c, "idle", "refused")
  /\ \/ ~ValidRoundBet(bReq[c])
     \/ ~IsPending(bReq[c].round)
     \/ DebitUnits(bReq[c].amount) = 0
  /\ UNCHANGED <<walletVars, prBets, roundBets>>

DebitRoundBet(c) ==
  /\ RoundBetMoves(c, "found", "debited")
  /\ Debit(bReq[c].player, DebitUnits(bReq[c].amount), <<c, "bet">>)
  /\ UNCHANGED <<prBets, roundBets>>

RefuseRoundDebit(c) ==
  /\ RoundBetMoves(c, "found", "refused")
  /\ \/ DebitRefused(bReq[c].player, DebitUnits(bReq[c].amount), <<c, "bet">>)
     \/ "debit" \in Faults
  /\ UNCHANGED <<walletVars, prBets, roundBets>>

\* Two wrong confirmations: one records the bet only where the GET endpoint
\* reads it, one does not look whether the round is still open.
ConfirmForDisplay(c) ==
  LET r == bReq[c].round IN
  /\ RoundBetMoves(c, "debited", "accepted")
  /\ IsPending(r)
  /\ roundBets' = [roundBets EXCEPT ![r] = Append(@, c)]
  /\ UNCHANGED <<walletVars, prBets>>

ConfirmUnchecked(c) ==
  LET r == bReq[c].round IN
  /\ RoundBetMoves(c, "debited", "accepted")
  /\ prBets'    = [prBets EXCEPT ![r] = Append(@, c)]
  /\ roundBets' = [roundBets EXCEPT ![r] = Append(@, c)]
  /\ UNCHANGED walletVars

ConfirmRoundBet(c) ==
  LET r == bReq[c].round IN
  /\ RoundBetMoves(c, "debited", "accepted")
  /\ IsPending(r)
  /\ prBets'    = [prBets EXCEPT ![r] = Append(@, c)]
  /\ roundBets' = [roundBets EXCEPT ![r] = Append(@, c)]
  /\ UNCHANGED walletVars

\* A wrong handler of a missed round, that records the bet before it looks
\* again and refunds it nevertheless.
RecordThenMiss(c) ==
  LET r == bReq[c].round IN
  /\ RoundBetMoves(c, "debited", "refunding")
  /\ ~IsPending(r)
  /\ prBets' = [prBets EXCEPT ![r] = Append(@, c)]
  /\ UNCHANGED <<walletVars, roundBets>>

\* A run popped the round between the two looks.
MissRound(c) ==
  /\ RoundBetMoves(c, "debited", "refunding")
  /\ ~IsPending(bReq[c].round)
  /\ UNCHANGED <<walletVars, prBets, roundBets>>

RefundRoundBet(c) ==
  /\ RoundBetMoves(c, "refunding", "refused")
  /\ Credit(bReq[c].player, DebitUnits(bReq[c].amount), <<c, "refund">>)
  /\ UNCHANGED <<prBets, roundBets>>

LoseRoundRefund(c) ==
  /\ RoundBetMoves(c, "refunding", "refused")
  /\ "credit" \in Faults
  /\ UNCHANGED <<walletVars, prBets, roundBets>>
-----------------------------------------------------------------------------
(* RunNextRound.                                                           *)

RunMoves(n, from, to) ==
  /\ rPc[n] = from
  /\ rPc' = [rPc EXCEPT ![n] = to]
  /\ UNCHANGED <<betVars, roundBetVars, gPc>>

\* Two wrong ways to take the queue: without emptying it, and without removing
\* the pre-minted round.
TakeAndKeepQueue(n) ==
  /\ RunMoves(n, "idle", "fresh")
  /\ pendingRounds = <<>>
  /\ took' = [took EXCEPT ![n] = pending]
  /\ rPrev' = [rPrev EXCEPT ![n] = prevTrack]
  /\ UNCHANGED <<walletVars, sessionVars, queueVars, trackVars, manifests, rRound,
                 winner, assigned, settled, outcomes, paid>>

TakeAndKeepRound(n) ==
  /\ RunMoves(n, "idle", "admit")
  /\ pendingRounds # <<>>
  /\ took' = [took EXCEPT ![n] = pending]
  /\ pending' = <<>>
  /\ rRound' = [rRound EXCEPT ![n] = Head(pendingRounds)]
  /\ UNCHANGED <<walletVars, sessionVars, pendingRounds, prBets, roundBets, trackVars,
                 manifests, rPrev, winner, assigned, settled, outcomes, paid>>

\* The queue is taken whole, with the oldest pre-minted round if there is one.
TakeQueue(n) ==
  /\ RunMoves(n, "idle", IF pendingRounds = <<>> THEN "fresh" ELSE "admit")
  /\ took' = [took EXCEPT ![n] = pending]
  /\ pending' = <<>>
  /\ rPrev' = [rPrev EXCEPT ![n] = prevTrack]
  /\ IF pendingRounds = <<>>
     THEN UNCHANGED <<rRound, pendingRounds>>
     ELSE /\ rRound' = [rRound EXCEPT ![n] = Head(pendingRounds)]
          /\ pendingRounds' = Tail(pendingRounds)
  /\ UNCHANGED <<walletVars, sessionVars, trackVars, manifests, prBets, roundBets,
                 winner, assigned, settled, outcomes, paid>>

\* No pre-minted round: mint one, with the prevTrack read when the queue was taken.
\* The code picks the track and registers the id in two critical sections; they
\* are one step here, since nobody else can name the id in between and
\* selectTrack reads nothing but its arguments and the configured pool.
MintFresh(n) ==
  /\ RunMoves(n, "fresh", "admit")
  /\ \E i \in 1..Len(TrackPool) :
       track' = [track EXCEPT ![n] = SelectTrack(i, rPrev[n])]
  /\ roundBets' = Remember(roundBets, n)
  /\ UNCHANGED <<walletVars, sessionVars, pending, pendingRounds, prBets, prevTrack,
                 manifests, took, rRound, rPrev, winner, assigned, settled,
                 outcomes, paid>>

\* Two wrong admissions: of any number of bettors, and of one too few.
AdmitAny(n) ==
  /\ RunMoves(n, "admit", "assign")
  /\ UNCHANGED <<walletVars, sessionVars, queueVars, trackVars, manifests, took,
                 rRound, rPrev, winner, assigned, settled, outcomes, paid>>

AdmitFewer(n) ==
  /\ RunMoves(n, "admit", IF Len(took[n]) >= MaxMarbles THEN "failed" ELSE "assign")
  /\ UNCHANGED <<walletVars, sessionVars, queueVars, trackVars, manifests, took,
                 rRound, rPrev, winner, assigned, settled, outcomes, paid>>

\* OpenBuyIn and AddParticipant, for every bettor and then the fillers.
Admit(n) ==
  /\ RunMoves(n, "admit", IF Len(took[n]) > MaxMarbles THEN "failed" ELSE "assign")
  /\ UNCHANGED <<walletVars, sessionVars, queueVars, trackVars, manifests, took,
                 rRound, rPrev, winner, assigned, settled, outcomes, paid>>

LockMarble(n) ==
  /\ RunMoves(n, "assign", "assign")
  /\ assigned[n] < Len(took[n])
  /\ AssignMarble(took[n][assigned[n] + 1], assigned[n])
  /\ assigned' = [assigned EXCEPT ![n] = @ + 1]
  /\ UNCHANGED <<walletVars, queueVars, trackVars, manifests, took,
                 rRound, rPrev, winner, settled, outcomes, paid>>

\* StartRace, the simulation, FinishRace, RevealedSeed and rtp.Settle.
Race(n) ==
  /\ assigned[n] = Len(took[n])
  /\ \E w \in SimWinners :
       /\ winner' = [winner EXCEPT ![n] = w]
       /\ RunMoves(n, "assign",
            IF SettleError(RTPBps, Stakes, w) = "nil" THEN "settle" ELSE "failed")
  /\ UNCHANGED <<walletVars, sessionVars, queueVars, trackVars, manifests, took,
                 rRound, rPrev, assigned, settled, outcomes, paid>>

SimFails(n) ==
  /\ RunMoves(n, "assign", "failed")
  /\ assigned[n] = Len(took[n])
  /\ "sim" \in Faults
  /\ UNCHANGED <<walletVars, sessionVars, queueVars, trackVars, manifests, took,
                 rRound, rPrev, winner, assigned, settled, outcomes, paid>>

\* The next session to settle and the bet it holds.
Settling(n) == took[n][settled[n] + 1]

HoldsWinner(n) == settled[n] < Len(took[n]) /\ sMarble[Settling(n)] = winner[n]

CreditWinner(n) ==
  /\ RunMoves(n, "settle", "credited")
  /\ HoldsWinner(n)
  /\ Credit(sPlayer[Settling(n)], Prize, <<sBet[Settling(n)], "credit">>)
  /\ UNCHANGED <<sessionVars, queueVars, trackVars, manifests, took,
                 rRound, rPrev, winner, assigned, settled, outcomes, paid>>

\* A wrong handler of a failed credit, that goes on as if it had been made.
SwallowCreditError(n) ==
  /\ RunMoves(n, "settle", "credited")
  /\ HoldsWinner(n)
  /\ "credit" \in Faults
  /\ UNCHANGED <<walletVars, sessionVars, queueVars, trackVars, manifests, took,
                 rRound, rPrev, winner, assigned, settled, outcomes, paid>>

\* The operator's wallet is down.  A refusal of MockWallet's own never comes:
\* the player was debited before, and the credit's id is new.
CreditFails(n) ==
  /\ RunMoves(n, "settle", "failed")
  /\ HoldsWinner(n)
  /\ "credit" \in Faults
  /\ UNCHANGED <<walletVars, sessionVars, queueVars, trackVars, manifests, took,
                 rRound, rPrev, winner, assigned, settled, outcomes, paid>>

\* The winner's Settle comes after the credit, a loser's directly.
SettleSession(n) ==
  LET won     == HoldsWinner(n)
      outcome == [bet |-> sBet[Settling(n)], won |-> won,
                  prize |-> IF won THEN Prize ELSE 0]
  IN
  /\ settled[n] < Len(took[n])
  /\ RunMoves(n, IF won THEN "credited" ELSE "settle", "settle")
  /\ SettleBet(Settling(n), outcome)
  /\ settled'  = [settled EXCEPT ![n] = @ + 1]
  /\ outcomes' = [outcomes EXCEPT ![n] = Append(@, outcome)]
  /\ UNCHANGED <<walletVars, queueVars, trackVars, manifests, took,
                 rRound, rPrev, winner, assigned, paid>>

SaveManifest(n) ==
  /\ RunMoves(n, "settle", "roundBets")
  /\ settled[n] = Len(took[n])
  /\ manifests' = Append(manifests, [round |-> rRound[n], track |-> track[rRound[n]],
                                     winner |-> winner[n]])
  /\ UNCHANGED <<walletVars, sessionVars, queueVars, trackVars, took,
                 rRound, rPrev, winner, assigned, settled, outcomes, paid>>

\* A wrong handler of a failed save, that settles the round's bets nevertheless.
IgnoreSaveError(n) ==
  /\ RunMoves(n, "settle", "roundBets")
  /\ settled[n] = Len(took[n])
  /\ "save" \in Faults
  /\ UNCHANGED <<walletVars, sessionVars, queueVars, trackVars, manifests, took,
                 rRound, rPrev, winner, assigned, settled, outcomes, paid>>

SaveFails(n) ==
  /\ RunMoves(n, "settle", "failed")
  /\ settled[n] = Len(took[n])
  /\ "save" \in Faults
  /\ UNCHANGED <<walletVars, sessionVars, queueVars, trackVars, manifests, took,
                 rRound, rPrev, winner, assigned, settled, outcomes, paid>>

\* The next bet of the round, read from the popped pendingRound.
PayingBet(n) == prBets[rRound[n]][paid[n] + 1]

\* A wrong settlement, that pays every bet of the round.
PayEveryRoundBet(n) ==
  LET c == PayingBet(n) IN
  /\ RunMoves(n, "roundBets", "roundBets")
  /\ paid[n] < Len(prBets[rRound[n]])
  /\ Credit(bReq[c].player, PayoutUnits(bReq[c].amount), <<c, "credit">>)
  /\ paid' = [paid EXCEPT ![n] = @ + 1]
  /\ UNCHANGED <<sessionVars, queueVars, trackVars, manifests, took,
                 rRound, rPrev, winner, assigned, settled, outcomes>>

SettleRoundBet(n) ==
  LET c == PayingBet(n) IN
  /\ RunMoves(n, "roundBets", "roundBets")
  /\ paid[n] < Len(prBets[rRound[n]])
  /\ IF bReq[c].marble = winner[n]
     THEN Credit(bReq[c].player, PayoutUnits(bReq[c].amount), <<c, "credit">>)
     ELSE UNCHANGED walletVars
  /\ paid' = [paid EXCEPT ![n] = @ + 1]
  /\ UNCHANGED <<sessionVars, queueVars, trackVars, manifests, took,
                 rRound, rPrev, winner, assigned, settled, outcomes>>

\* A wrong handler of a failed credit, that goes on to the next bet.
SwallowRoundCreditError(n) ==
  /\ RunMoves(n, "roundBets", "roundBets")
  /\ paid[n] < Len(prBets[rRound[n]])
  /\ bReq[PayingBet(n)].marble = winner[n]
  /\ "credit" \in Faults
  /\ paid' = [paid EXCEPT ![n] = @ + 1]
  /\ UNCHANGED <<walletVars, sessionVars, queueVars, trackVars, manifests, took,
                 rRound, rPrev, winner, assigned, settled, outcomes>>

RoundCreditFails(n) ==
  /\ RunMoves(n, "roundBets", "failed")
  /\ paid[n] < Len(prBets[rRound[n]])
  /\ bReq[PayingBet(n)].marble = winner[n]
  /\ "credit" \in Faults
  /\ UNCHANGED <<walletVars, sessionVars, queueVars, trackVars, manifests, took,
                 rRound, rPrev, winner, assigned, settled, outcomes, paid>>

FinishRound(n) ==
  /\ RunMoves(n, "roundBets", "done")
  /\ paid[n] = Len(prBets[rRound[n]])
  /\ prevTrack' = track[rRound[n]]
  /\ UNCHANGED <<walletVars, sessionVars, queueVars, track, manifests, took,
                 rRound, rPrev, winner, assigned, settled, outcomes, paid>>
-----------------------------------------------------------------------------
\* The steps of a request that has begun.
BetStep(c) ==
  \/ AttachToSession(c) \/ RejectAttach(c) \/ RefundStake(c)
  \/ LoseRefund(c) \/ EnqueueBet(c)

RoundBetStep(c) ==
  \/ DebitRoundBet(c) \/ RefuseRoundDebit(c) \/ ConfirmRoundBet(c)
  \/ MissRound(c) \/ RefundRoundBet(c) \/ LoseRoundRefund(c)

RunStep(n) ==
  \/ MintFresh(n) \/ Admit(n) \/ LockMarble(n) \/ Race(n) \/ SimFails(n)
  \/ CreditWinner(n) \/ CreditFails(n) \/ SettleSession(n)
  \/ SaveManifest(n) \/ SaveFails(n)
  \/ SettleRoundBet(n) \/ RoundCreditFails(n) \/ FinishRound(n)

Next ==
  \/ \E s \in Sessions : OpenSession(s) \/ CloseSession(s)
  \/ \E c \in BetCalls : DebitStake(c) \/ RefuseBet(c) \/ BetStep(c)
  \/ \E g \in StartCalls : MintSpec(g) \/ RegisterSpec(g)
  \/ \E c \in RoundBetCalls : FindRound(c) \/ RefuseRoundBet(c) \/ RoundBetStep(c)
  \/ \E n \in RunCalls : TakeQueue(n) \/ RunStep(n)

Spec == Init /\ [][Next]_vars

\* A goroutine that has begun keeps running to its return; nobody is obliged
\* to send a request.
Fairness ==
  /\ \A c \in BetCalls : WF_vars(BetStep(c))
  /\ \A g \in StartCalls : WF_vars(RegisterSpec(g))
  /\ \A c \in RoundBetCalls : WF_vars(RoundBetStep(c))
  /\ \A n \in RunCalls : WF_vars(RunStep(n))

FairSpec == Spec /\ Fairness
=============================================================================
