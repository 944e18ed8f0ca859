----------------------------- MODULE RgsSafety ------------------------------
(***************************************************************************)
(* What must hold of rgs.Manager: where a live bet is, what it may be      *)
(* paid, which bets a round settles, and how the audit trail agrees.       *)
(***************************************************************************)
EXTENDS RgsManager

Outcome == [bet : BetCalls \cup {NoBet}, won : BOOLEAN, prize : Word]

BetPoints == {"idle", "debited", "attached", "refunding", "accepted", "refused"}

RoundBetPoints == {"idle", "found", "debited", "refunding", "accepted", "refused"}

RunPoints == {"idle", "fresh", "admit", "assign", "settle", "credited",
              "roundBets", "done", "failed"}

SessionTypeOK ==
  /\ sState  \in [Sessions -> SessionStates]
  /\ sPlayer \in [Sessions -> Players]
  /\ sBet    \in [Sessions -> BetCalls \cup {NoBet}]
  /\ sMarble \in [Sessions -> -1..(MaxMarbles - 1)]
  /\ sLast   \in [Sessions -> Outcome]

WalletTypeOK ==
  /\ balances \in [DOMAIN Opening -> Word]
  /\ DOMAIN applied \subseteq TxIds
  /\ applied \in [DOMAIN applied -> Int]

QueueTypeOK ==
  /\ pending \in Seq(Sessions)
  /\ pendingRounds \in Seq(StartCalls)
  /\ prBets \in [Rounds -> Seq(RoundBetCalls)]
  /\ DOMAIN roundBets \subseteq Rounds
  /\ roundBets \in [DOMAIN roundBets -> Seq(RoundBetCalls)]
  /\ track \in [Rounds -> Int]
  /\ prevTrack \in Int
  /\ manifests \in Seq([round : Rounds, track : Int, winner : Int])

CallsTypeOK ==
  /\ cPc  \in [BetCalls -> BetPoints]
  /\ cReq \in [BetCalls -> BetRequests]
  /\ bPc  \in [RoundBetCalls -> RoundBetPoints]
  /\ bReq \in [RoundBetCalls -> RoundBetRequests]
  /\ gPc  \in [StartCalls -> {"idle", "minted", "registered"}]

RunsTypeOK ==
  /\ rPc    \in [RunCalls -> RunPoints]
  /\ took   \in [RunCalls -> Seq(Sessions)]
  /\ rRound \in [RunCalls -> Rounds]
  /\ rPrev  \in [RunCalls -> Int]
  /\ winner \in [RunCalls -> Int]
  /\ assigned \in [RunCalls -> 0..MaxMarbles]
  /\ settled  \in [RunCalls -> 0..MaxMarbles]
  /\ outcomes \in [RunCalls -> Seq(Outcome)]
  /\ paid     \in [RunCalls -> Nat]

\* Every variable keeps the type of the Go field or local it stands for.  A
\* marble index always names a marble of the field, and the balances stay
\* inside their word for exactly the players the wallet knows.
TypeOK ==
  SessionTypeOK /\ WalletTypeOK /\ QueueTypeOK /\ CallsTypeOK /\ RunsTypeOK

\* A run past Admit has no more bettors than the field has marbles; with it
\* TypeOK is inductive.
FieldFits ==
  \A n \in RunCalls :
    rPc[n] \in {"assign", "settle", "credited", "roundBets"} => Len(took[n]) <= MaxMarbles

TypeInv == TypeOK /\ FieldFits
-----------------------------------------------------------------------------
(* Where a live bet is.                                                    *)

Live(s) == sState[s] \in {"BET", "RACING"}

InCall(c, s)    == cPc[c] = "attached" /\ cReq[c].session = s
InQueue(i, s)   == i \in 1..Len(pending) /\ pending[i] = s
InRun(n, i, s)  == i \in (settled[n] + 1)..Len(took[n]) /\ took[n][i] = s

Places(s) ==
  {<<"call", c>> : c \in {d \in BetCalls : InCall(d, s)}}
    \cup {<<"queue", i>> : i \in {j \in 1..Len(pending) : InQueue(j, s)}}
    \cup UNION {{<<"run", n, i>> : i \in {j \in 1..Len(took[n]) : InRun(n, j, s)}}
                 : n \in RunCalls}

\* A session with an unsettled bet is in exactly one place: in the request
\* that is about to queue it, once in the queue, or once among the sessions a
\* run has yet to settle.  A session without one is nowhere.  So no bet raced
\* twice, none dropped between the queue and a run, whatever overlaps.  A run
\* that has failed holds the sessions it has not settled for good.
HeldOnce ==
  \A s \in Sessions :
    IF Live(s) THEN \E p \in Places(s) : Places(s) = {p} ELSE Places(s) = {}

\* When a run reaches a session the session is ready for the call it makes:
\* AssignMarble and Settle never return an error half way through a round,
\* and bet.MarbleIndex is never read through a nil Bet.
RunNeverRefused ==
  \A n \in RunCalls :
    /\ rPc[n] = "assign" /\ assigned[n] < Len(took[n]) =>
         CanAssignMarble(took[n][assigned[n] + 1])
    /\ rPc[n] \in {"settle", "credited"} /\ settled[n] < Len(took[n]) =>
         CanSettle(Settling(n)) /\ sBet[Settling(n)] # NoBet

(* HeldOnce is not inductive: it does not say why a session that is taken, *)
(* queued or bet on cannot be somewhere else already.  The bet it holds    *)
(* tells the places apart: while its request is "attached" the bet has not *)
(* been queued, and once it is "accepted" only the queue or a run has it.  *)

Unsettled(n) == (settled[n] + 1)..Len(took[n])

Accepted(s) == sBet[s] \in BetCalls /\ cPc[sBet[s]] = "accepted"

BetIffLive ==
  \A s \in Sessions : IF Live(s) THEN sBet[s] \in BetCalls ELSE sBet[s] = NoBet

CallHolds ==
  \A c \in BetCalls : cPc[c] = "attached" =>
    sState[cReq[c].session] = "BET" /\ sBet[cReq[c].session] = c

QueueHolds ==
  \A i \in 1..Len(pending) : sState[pending[i]] = "BET" /\ Accepted(pending[i])

RunHolds ==
  \A n \in RunCalls : \A i \in Unsettled(n) :
    /\ sState[took[n][i]] = IF i <= assigned[n] THEN "RACING" ELSE "BET"
    /\ Accepted(took[n][i])

QueuedOnce == \A i, j \in 1..Len(pending) : pending[i] = pending[j] => i = j

TakenOnce ==
  \A m, n \in RunCalls : \A i \in Unsettled(m) : \A j \in Unsettled(n) :
    took[m][i] = took[n][j] => m = n /\ i = j

QueuedOrTaken ==
  \A i \in 1..Len(pending) : \A n \in RunCalls : \A j \in Unsettled(n) :
    pending[i] # took[n][j]

HeldSomewhere ==
  \A s \in Sessions : Live(s) =>
    \/ \E c \in BetCalls : InCall(c, s)
    \/ \E i \in 1..Len(pending) : pending[i] = s
    \/ \E n \in RunCalls : \E i \in Unsettled(n) : took[n][i] = s

\* The stage of a run and how far it has got with the sessions it took.
RunStage(n) ==
  /\ settled[n] <= assigned[n] /\ assigned[n] <= Len(took[n])
  /\ rPc[n] = "idle" => took[n] = <<>>
  /\ rPc[n] \in {"fresh", "admit"} => assigned[n] = 0
  /\ rPc[n] = "assign" => settled[n] = 0
  /\ rPc[n] \in {"settle", "credited"} => assigned[n] = Len(took[n])

RunStages == \A n \in RunCalls : RunStage(n)

\* With TypeInv, the inductive invariant behind HeldOnce and RunNeverRefused.
Ownership ==
  /\ BetIffLive /\ CallHolds /\ QueueHolds /\ RunHolds
  /\ QueuedOnce /\ TakenOnce /\ QueuedOrTaken /\ HeldSomewhere
  /\ RunStages
-----------------------------------------------------------------------------
(* What a bet is paid.                                                     *)

\* A run that has its round.
Taken(n) == rPc[n] \notin {"idle", "fresh"}

Debited(b)  == <<b, "bet">> \in DOMAIN applied
Credited(b) == <<b, "credit">> \in DOMAIN applied
Refunded(b) == <<b, "refund">> \in DOMAIN applied

\* The stake is in the house and nothing has come back for it.
Untouched(b) == Debited(b) /\ ~Credited(b) /\ ~Refunded(b)

\* A run credits exactly the winner among the sessions it has settled, and the
\* bets of all sessions behind them are untouched, wherever the run stops: at a
\* failed simulation, a failed credit or a failed save.  So a prize is reported
\* only when it was paid and paid to one session at most, a credit is the first
\* of its bet even with a wallet that does not deduplicate, and no other run
\* pays or refunds what a failed one has left behind.
SessionsPaidAsSettled ==
  \A n \in RunCalls :
    /\ \A i \in 1..settled[n] :
         LET o == outcomes[n][i] IN
         /\ o.won <=> i - 1 = winner[n]
         /\ o.won <=> Credited(o.bet)
    /\ \A i \in Unsettled(n) :
         Untouched(sBet[took[n][i]]) \/ (rPc[n] = "credited" /\ i = settled[n] + 1)

SavedAs(r) == {i \in 1..Len(manifests) : manifests[i].round = r}

\* The same of the bets on a round: as far as the run has got the winners are
\* credited and nobody else, the bets behind are untouched even if a credit
\* fails, and no bet is credited before a manifest that names its marble the
\* winner has been saved.
RoundBetsPaidAsSettled ==
  \A n \in RunCalls : Taken(n) =>
    \A i \in 1..Len(prBets[rRound[n]]) :
      LET b == prBets[rRound[n]][i] IN
      /\ IF i <= paid[n] THEN Credited(b) <=> bReq[b].marble = winner[n]
                         ELSE Untouched(b)
      /\ Credited(b) =>
           \E j \in SavedAs(rRound[n]) : manifests[j].winner = bReq[b].marble

\* Whether a bet has lost: its session's outcome says so, or the settlement of
\* its round has passed it by.
Lost(b) ==
  \E n \in RunCalls :
    \/ \E i \in 1..Len(outcomes[n]) : outcomes[n][i].bet = b /\ ~outcomes[n][i].won
    \/ \E i \in 1..paid[n] :
         prBets[rRound[n]][i] = b /\ bReq[b].marble # winner[n]

Status(b) ==
  CASE <<b, "bet">>    \notin DOMAIN applied -> "none"
    [] <<b, "refund">> \in DOMAIN applied    -> "refunded"
    [] <<b, "credit">> \in DOMAIN applied    -> "won"
    [] OTHER -> IF Lost(b) THEN "lost" ELSE "held"

Terms(b) ==
  IF b \in BetCalls
  THEN [player |-> sPlayer[cReq[b].session], stake |-> cReq[b].amount, payout |-> Prize]
  ELSE [player |-> bReq[b].player, stake |-> DebitUnits(bReq[b].amount),
        payout |-> PayoutUnits(bReq[b].amount)]

Ledger == INSTANCE BetLedger WITH
  Bets   <- BetCalls \cup RoundBetCalls,
  status <- [b \in BetCalls \cup RoundBetCalls |-> Status(b)],
  terms  <- [b \in BetCalls \cup RoundBetCalls |->
               IF Status(b) = "none" THEN [player |-> "nobody", stake |-> 0, payout |-> 0]
               ELSE Terms(b)]

\* The manager implements the promise: a balance moves only by the stake of a
\* bet being placed, and then by that bet's one outcome.
KeepsLedger == Ledger!Spec
-----------------------------------------------------------------------------
(* Which bets a round settles.                                             *)

\* A round bet is recorded exactly when it was accepted, once, on the round it
\* names, and what the GET endpoint shows of a round is what the round settles.
RecordedIffAccepted ==
  /\ \A c \in RoundBetCalls, r \in Rounds :
       LET at == {i \in 1..Len(prBets[r]) : prBets[r][i] = c} IN
       IF bPc[c] = "accepted" /\ bReq[c].round = r THEN \E i \in at : at = {i}
                                                   ELSE at = {}
  /\ \A r \in DOMAIN roundBets : roundBets[r] = prBets[r]

\* Betting closes when a run takes the round: from then on its list of bets,
\* which the run reads without a lock, no longer changes.
BetsFrozenOnceTaken ==
  [][ \A n \in RunCalls : Taken(n) => prBets'[rRound[n]] = prBets[rRound[n]] ]_vars

\* No round is played by two runs or played again, and a round still open for
\* bets is not being played.
RoundPlayedOnce ==
  /\ \A m, n \in RunCalls : Taken(m) /\ Taken(n) /\ rRound[m] = rRound[n] => m = n
  /\ \A n \in RunCalls : Taken(n) => ~IsPending(rRound[n])
  /\ \A i, j \in 1..Len(manifests) : manifests[i].round = manifests[j].round => i = j
-----------------------------------------------------------------------------
(* The audit trail.                                                        *)

\* The manifest alone decides every bet of a finished round: exactly one
\* manifest names it, a session's outcome is a win exactly when its place in the
\* queue is the winning marble of that manifest, and then for the prize, and the
\* round bets that were credited are those on that marble.
AuditDecidesOutcomes ==
  \A n \in RunCalls : rPc[n] = "done" =>
    \E i \in SavedAs(rRound[n]) :
      /\ SavedAs(rRound[n]) = {i}
      /\ Len(outcomes[n]) = Len(took[n])
      /\ \A j \in 1..Len(outcomes[n]) :
           /\ outcomes[n][j].won <=> manifests[i].winner = j - 1
           /\ outcomes[n][j].prize = IF outcomes[n][j].won THEN Prize ELSE 0
      /\ \A j \in 1..Len(prBets[rRound[n]]) :
           LET b == prBets[rRound[n]][j] IN
           Credited(b) <=> bReq[b].marble = manifests[i].winner
-----------------------------------------------------------------------------
(* Progress, for requests that have begun.                                 *)

\* Without failures and with no more bettors than marbles, every session a run
\* takes is settled by that run.
TakenSessionsSettle ==
  \A n \in RunCalls : \A i \in 1..MaxMarbles :
    Len(took[n]) >= i ~> settled[n] >= i

\* Money taken is never left in between: as long as the wallet accepts credits,
\* a debited bet is queued or refunded, even if its session or its round
\* refuses it after the debit.
StakeQueuedOrRefunded ==
  /\ \A c \in BetCalls :
       <<c, "bet">> \in DOMAIN applied ~>
         cPc[c] = "accepted" \/ <<c, "refund">> \in DOMAIN applied
  /\ \A c \in RoundBetCalls :
       <<c, "bet">> \in DOMAIN applied ~>
         bPc[c] = "accepted" \/ <<c, "refund">> \in DOMAIN applied
=============================================================================
