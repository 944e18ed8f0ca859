-------------------------------- MODULE Rgsd --------------------------------
(***************************************************************************)
(* The rgsd process around rgs.Manager: HTTP handlers behind               *)
(* Logging(Recovery(RequestID(HMAC(handler)))), the metrics they feed and  *)
(* /metrics reads, rounds in the background, and the end of the process.   *)
(*                                                                         *)
(* Every request is a goroutine.  The manager is reduced to what its       *)
(* callers can tell apart: a stake is held or not, a bet waits, is being   *)
(* raced, or has a result; RgsManager has the details.  A bet is made on a *)
(* session of its own or on a pre-minted round.                            *)
(***************************************************************************)
EXTENDS Integers, FiniteSets, Sequences

CONSTANTS
  Bets,      \* POST .../bet and POST .../bets, and the bets they make
  Runs,      \* POST /v1/rounds/run
  Reads,     \* GET /v1/sessions/{id}
  Scrapes,   \* GET /metrics
  NoBet

Requests == Bets \cup Runs \cup Reads

ASSUME KindsAreDistinct ==
  /\ Bets \cap Runs = {} /\ Bets \cap Reads = {} /\ Runs \cap Reads = {}
  /\ NoBet \notin Bets

VARIABLES
  server,    \* "up", "exited" after a signal, or "crashed"
  cut,       \* the requests that were in flight when it ended
  pc,        \* control point of a request
  answered,  \* the status its client was sent, 0 before
  logged,    \* the status of its access log line, 0 before
  held,      \* the bets whose stake has left the balance
  kept,      \* the bets whose refund failed
  credited,  \* the bets whose prize has reached the balance
  queue,     \* the bets that wait for a run
  result,    \* LastResult of a bet's session
  work,      \* control point of RunNextRound
  taken,     \* the bets a run has taken and not settled
  winner,    \* the bet on the marble that won, NoBet for a filler's
  shown,     \* what a read took from Snapshot and from Balance
  counters,  \* the metrics, by name
  scrape     \* what a scrape has read

requestVars == <<pc, answered, logged>>
moneyVars   == <<held, kept, credited, queue, result>>
runVars     == <<work, taken, winner>>
vars == <<server, cut, requestVars, moneyVars, runVars, shown, counters, scrape>>

\* A wrong order of /metrics, as the metrics were registered.
RegistrationOrder == <<"rounds", "durations">>

\* rgsd_round_duration_seconds and rgsd_rounds_total: the names are sorted.  The
\* metrics of the bets come before, and are compared with nothing.
ScrapeOrder == <<"durations", "rounds">>

Metrics == {"errors", "bets", "durations", "rounds"}

\* What the process starts with.
Fresh == [
  pc       |-> [r \in Requests |-> "off"],
  status   |-> [r \in Requests |-> 0],
  result   |-> [b \in Bets |-> "none"],
  work     |-> [r \in Runs |-> "off"],
  taken    |-> [r \in Runs |-> {}],
  winner   |-> [r \in Runs |-> NoBet],
  shown    |-> [r \in Reads |-> [bet |-> NoBet, state |-> "none",
                           read |-> FALSE, out |-> FALSE, paid |-> FALSE]],
  counters |-> [m \in Metrics |-> 0],
  scrape   |-> [s \in Scrapes |-> [at |-> 0, read |-> [m \in Metrics |-> 0]]]]

Init ==
  /\ server = "up" /\ cut = {}
  /\ pc = Fresh.pc /\ answered = Fresh.status /\ logged = Fresh.status
  /\ held = {} /\ kept = {} /\ credited = {} /\ queue = {} /\ result = Fresh.result
  /\ work = Fresh.work /\ taken = Fresh.taken /\ winner = Fresh.winner
  /\ shown = Fresh.shown /\ counters = Fresh.counters /\ scrape = Fresh.scrape
-----------------------------------------------------------------------------
(* The chain.                                                              *)

InFlight == {r \in Requests : pc[r] \notin {"off", "over"}}

\* Nothing is left in memory, the wallet of the demo included.
Ends(how) ==
  /\ server = "up" /\ server' = how
  /\ cut' = InFlight
  /\ pc' = Fresh.pc /\ answered' = Fresh.status /\ logged' = Fresh.status
  /\ held' = {} /\ kept' = {} /\ credited' = {} /\ queue' = {} /\ result' = Fresh.result
  /\ work' = Fresh.work /\ taken' = Fresh.taken /\ winner' = Fresh.winner
  /\ shown' = Fresh.shown /\ counters' = Fresh.counters /\ scrape' = Fresh.scrape

Moves(r, from, to) ==
  /\ server = "up"
  /\ pc[r] = from
  /\ pc' = [pc EXCEPT ![r] = to]
  /\ UNCHANGED <<server, cut, scrape>>

Goes(r, from, to) == Moves(r, from, to) /\ UNCHANGED <<answered, logged>>

\* The handler writes its status and returns to Logging; the server flushes a
\* short answer only then.
Answers(r, from, status) ==
  /\ Moves(r, from, "over")
  /\ answered' = [answered EXCEPT ![r] = status]
  /\ logged' = [logged EXCEPT ![r] = status]

\* HMAC reads nothing that others write: a request is in its handler, or is
\* refused for its signature or its timestamp.
Accept(r) ==
  /\ Goes(r, "off", "handler") \/ Answers(r, "off", 401)
  /\ UNCHANGED <<moneyVars, runVars, shown, counters>>

\* A wrong chain, with Recovery outside of Logging: no line for a panic.
RecoverUnlogged(r, from) ==
  /\ Moves(r, from, "over")
  /\ answered' = [answered EXCEPT ![r] = 500]
  /\ UNCHANGED logged

Recover(r, from) == Answers(r, from, 500)
-----------------------------------------------------------------------------
(* The bet handlers, with the wallet wrapped by countingWallet.            *)

Count(m) == counters' = [counters EXCEPT ![m] = @ + 1]

\* A malformed body, or what the manager refuses before the debit: 400, which
\* stands for 404 and 409 as well.
BadBet(b) ==
  /\ Answers(b, "handler", 400)
  /\ UNCHANGED <<moneyVars, runVars, shown, counters>>

\* Nobody reads the wallet and the counter together.
Debit(b) ==
  /\ Goes(b, "handler", "debited")
  /\ held' = held \cup {b}
  /\ Count("bets")
  /\ UNCHANGED <<kept, credited, queue, result, runVars, shown>>

DebitFails(b) ==
  /\ Goes(b, "handler", "rejected")
  /\ Count("errors")
  /\ UNCHANGED <<moneyVars, runVars, shown>>

\* ErrInsufficientFunds is a 402, ErrUnknownPlayer a 404, and any other error of
\* the wallet a 400.
RejectBet(b) ==
  /\ \E status \in {400, 402, 404} : Answers(b, "rejected", status)
  /\ UNCHANGED <<moneyVars, runVars, shown, counters>>

Enqueue(b) ==
  /\ Goes(b, "debited", "queued")
  /\ queue' = queue \cup {b}
  /\ UNCHANGED <<held, kept, credited, result, runVars, shown, counters>>

ConfirmBet(b) ==
  /\ Answers(b, "queued", 200)
  /\ UNCHANGED <<moneyVars, runVars, shown, counters>>

\* A wrong refusal, that keeps the stake.
RefuseKeepingStake(b) ==
  /\ Answers(b, "debited", 409)
  /\ UNCHANGED <<moneyVars, runVars, shown, counters>>

\* The session has a bet by now, or the round is gone: the stake is refunded,
\* and nobody looks whether that worked.
Refuse(b) ==
  /\ Answers(b, "debited", 409)
  /\ \/ held' = held \ {b} /\ UNCHANGED kept
     \/ kept' = kept \cup {b} /\ UNCHANGED held
  /\ UNCHANGED <<credited, queue, result, runVars, shown, counters>>

\* The operator's wallet panics: in Debit, in the refund, or when it is asked
\* for the balance to answer with.
BetPanics(b) ==
  /\ \E from \in {"handler", "debited", "queued"} : Recover(b, from)
  /\ UNCHANGED <<moneyVars, runVars, shown, counters>>
-----------------------------------------------------------------------------
(* runRound.                                                               *)

\* RunNextRound begins: in the handler, or in a goroutine while the handler
\* answers 202.
StartRun(r) ==
  /\ Goes(r, "handler", "waiting") \/ Answers(r, "handler", 202)
  /\ work' = [work EXCEPT ![r] = "started"]
  /\ UNCHANGED <<moneyVars, taken, winner, shown, counters>>

\* A wrong answer, for successful rounds only.
AnswerSuccess(r) ==
  /\ Answers(r, "waiting", 200) /\ work[r] = "done"
  /\ UNCHANGED <<moneyVars, runVars, shown, counters>>

AnswerRun(r) ==
  /\ \/ Answers(r, "waiting", 200) /\ work[r] = "done"
     \/ Answers(r, "waiting", 500) /\ work[r] = "failed"
  /\ UNCHANGED <<moneyVars, runVars, shown, counters>>

Works(r, from, to) ==
  /\ server = "up"
  /\ work[r] = from
  /\ work' = [work EXCEPT ![r] = to]
  /\ UNCHANGED <<server, cut, requestVars, shown, scrape>>

\* A wrong take, that leaves the bets in the queue.
TakeAndKeep(r) ==
  /\ Works(r, "started", "racing")
  /\ taken' = [taken EXCEPT ![r] = queue]
  /\ UNCHANGED <<moneyVars, winner, counters>>

Take(r) ==
  /\ Works(r, "started", "racing")
  /\ taken' = [taken EXCEPT ![r] = queue]
  /\ queue' = {}
  /\ UNCHANGED <<held, kept, credited, result, winner, counters>>

\* inner returns: the marble that won may carry a bet.
Race(r) ==
  /\ Works(r, "racing", "raced")
  /\ \E b \in taken[r] \cup {NoBet} : winner' = [winner EXCEPT ![r] = b]
  /\ Count("rounds")
  /\ UNCHANGED <<moneyVars, taken>>

\* Observe, under the histogram's mutex.
Observe(r) ==
  /\ Works(r, "raced", "settling")
  /\ Count("durations")
  /\ UNCHANGED <<moneyVars, taken, winner>>

Credit(r) ==
  /\ Works(r, "settling", "settling")
  /\ winner[r] \in taken[r] \ credited
  /\ credited' = credited \cup {winner[r]}
  /\ UNCHANGED <<held, kept, queue, result, taken, winner, counters>>

Settled(r, b) ==
  /\ result' = [result EXCEPT ![b] = IF b = winner[r] THEN "won" ELSE "lost"]
  /\ taken' = [taken EXCEPT ![r] = @ \ {b}]
  /\ UNCHANGED <<held, kept, credited, queue, winner, counters>>

\* A wrong loop, that settles a bet before its prize is credited.
SettleFirst(r) ==
  /\ Works(r, "settling", "settling")
  /\ \E b \in taken[r] : Settled(r, b)

Settle(r) ==
  /\ Works(r, "settling", "settling")
  /\ \E b \in taken[r] : (b = winner[r] => b \in credited) /\ Settled(r, b)

Save(r) ==
  /\ Works(r, "settling", "done")
  /\ taken[r] = {}
  /\ UNCHANGED <<moneyVars, taken, winner, counters>>

\* The simulation fails, is out of time or, in a run that is waited for, killed
\* because its client has gone; a credit or the store fails.
WorkFails(r) ==
  /\ \E from \in {"racing", "settling"} : Works(r, from, "failed")
  /\ UNCHANGED <<moneyVars, taken, winner, counters>>

\* Recovery sees a panic of RunNextRound only in the handler's goroutine.
WorkPanics(r) ==
  /\ work[r] \in {"racing", "settling"}
  /\ \/ Recover(r, "waiting")
        /\ work' = [work EXCEPT ![r] = "failed"]
        /\ UNCHANGED <<moneyVars, taken, winner, shown, counters>>
     \/ pc[r] # "waiting" /\ Ends("crashed")
-----------------------------------------------------------------------------
(* writeSessionResponse.                                                   *)

Queued(b) == b \in queue \/ \E r \in Runs : b \in taken[r]

\* The state of the session that made the bet.
StateOf(b) ==
  IF result[b] # "none" THEN result[b]
  ELSE IF Queued(b) THEN "bet"
  ELSE "none"

NoSession(r) ==
  /\ Answers(r, "handler", 404)
  /\ UNCHANGED <<moneyVars, runVars, shown, counters>>

Snapshot(r) ==
  /\ Goes(r, "handler", "snapshot")
  /\ \E b \in Bets :
       shown' = [shown EXCEPT ![r] = [@ EXCEPT !.bet = b, !.state = StateOf(b)]]
  /\ UNCHANGED <<moneyVars, runVars, counters>>

\* The wallet may refuse: the error is dropped, and the balance shown is 0.
Balance(r) ==
  /\ Answers(r, "snapshot", 200)
  /\ LET b == shown[r].bet IN
       \E read \in BOOLEAN :
         shown' = [shown EXCEPT ![r] = [@ EXCEPT !.read = read,
                     !.out = read /\ b \in held, !.paid = read /\ b \in credited]]
  /\ UNCHANGED <<moneyVars, runVars, counters>>
-----------------------------------------------------------------------------
(* /metrics, outside of the chain, and the end of the process.             *)

StartScrape(s) ==
  /\ server = "up"
  /\ scrape[s].at = 0
  /\ scrape' = [scrape EXCEPT ![s].at = 1]
  /\ UNCHANGED <<server, cut, requestVars, moneyVars, runVars, shown, counters>>

\* Every metric is read on its own.
ReadMetric(s) ==
  /\ server = "up"
  /\ scrape[s].at \in 1..Len(ScrapeOrder)
  /\ LET m == ScrapeOrder[scrape[s].at] IN
       scrape' = [scrape EXCEPT ![s].at = @ + 1, ![s].read[m] = counters[m]]
  /\ UNCHANGED <<server, cut, requestVars, moneyVars, runVars, shown, counters>>

\* The signal: Shutdown closes the listeners, upon which ListenAndServe returns.
\* main does not wait for the goroutine that called Shutdown; a step that still
\* comes between is one taken before the signal.
MainReturns == Ends("exited")
-----------------------------------------------------------------------------
BetStep(b) ==
  \/ BadBet(b) \/ Debit(b) \/ DebitFails(b) \/ RejectBet(b) \/ Enqueue(b) \/ ConfirmBet(b)
  \/ Refuse(b) \/ BetPanics(b)

WorkStep(r) ==
  \/ Take(r) \/ Race(r) \/ Observe(r) \/ Credit(r) \/ Settle(r) \/ Save(r) \/ WorkFails(r)
  \/ WorkPanics(r)

ReadStep(r) == NoSession(r) \/ Snapshot(r) \/ Balance(r)

\* The steps of the goroutines that serve requests and race rounds.
Steps ==
  \/ \E b \in Bets : BetStep(b)
  \/ \E r \in Runs : StartRun(r) \/ AnswerRun(r) \/ WorkStep(r)
  \/ \E r \in Reads : ReadStep(r)

Next ==
  \/ Steps
  \/ \E r \in Requests : Accept(r)
  \/ \E s \in Scrapes : StartScrape(s) \/ ReadMetric(s)
  \/ MainReturns

Spec == Init /\ [][Next]_vars

\* As long as one of these goroutines can run, one does: none waits for another
\* but a handler for its own round, and the simulation has a deadline.
FairSpec == Spec /\ WF_vars(Steps)
-----------------------------------------------------------------------------
\* Every variable keeps its type.  A bet is in one place at most: it waits, or
\* one run has taken it, or it has a result.
TypeOK ==
  /\ server \in {"up", "exited", "crashed"} /\ cut \subseteq Requests
  /\ pc \in [Requests -> {"off", "handler", "debited", "rejected", "queued", "waiting", "snapshot",
                          "over"}]
  /\ answered \in [Requests -> {0, 200, 202, 400, 401, 402, 404, 409, 500}]
  /\ logged   \in [Requests -> {0, 200, 202, 400, 401, 402, 404, 409, 500}]
  /\ held \subseteq Bets /\ kept \subseteq held /\ credited \subseteq held /\ queue \subseteq held
  /\ result \in [Bets -> {"none", "won", "lost"}]
  /\ work \in [Runs -> {"off", "started", "racing", "raced", "settling", "done", "failed"}]
  /\ taken  \in [Runs -> SUBSET held]
  /\ winner \in [Runs -> Bets \cup {NoBet}]
  /\ shown \in [Reads -> [bet : Bets \cup {NoBet}, state : {"none", "bet", "won", "lost"},
                          read : BOOLEAN, out : BOOLEAN, paid : BOOLEAN]]
  /\ counters \in [Metrics -> Nat]
  /\ \A s \in Scrapes : scrape[s].read \in [Metrics -> Nat] /\ scrape[s].at \in 0..Len(ScrapeOrder) + 1
  /\ \A b \in Bets :
       Cardinality({r \in Runs : b \in taken[r]}) + (IF b \in queue THEN 1 ELSE 0)
         + (IF result[b] # "none" THEN 1 ELSE 0) <= 1

\* metrics.Handler reads the metrics one by one while rounds go on, but a
\* finished scrape is never inconsistent: it shows no more durations than rounds
\* (instrumentedSim counts a round before it observes the duration, and the
\* names are read in sorted order).
ScrapesAddUp ==
  \A s \in Scrapes : scrape[s].at > Len(ScrapeOrder) =>
    scrape[s].read["durations"] <= scrape[s].read["rounds"]

\* The status a bettor reads tells where the stake is, whatever runs meanwhile:
\* after 200 the bet waits, was taken by a run, for good if that run is cancelled
\* or fails, or was settled, and nothing is left of it
\* after a 4xx but a stake whose refund failed (placeBet, placeRoundBet,
\* writeBetError, writeRoundBetError); either way countingWallet has counted it.
AnswerTellsStake ==
  \A b \in Bets :
    /\ answered[b] = 200 => b \in held /\ (Queued(b) \/ result[b] # "none")
    /\ answered[b] \in {400, 401, 402, 404, 409} =>
         ~Queued(b) /\ result[b] = "none" /\ (b \in held => b \in kept)
    /\ answered[b] = 200 => counters["bets"] > 0
    /\ answered[b] = 402 => counters["errors"] > 0

\* writeSessionResponse takes the state and then the balance, and rounds settle
\* in between: a session shown with a prize is shown after the prize reached the
\* balance, and one shown with a bet after the stake left it, unless the wallet
\* refused to tell the balance.
ShownWinIsPaid ==
  \A r \in Reads : answered[r] = 200 /\ shown[r].read =>
    /\ shown[r].state = "won" => shown[r].paid
    /\ shown[r].state # "none" => shown[r].out

\* Unless the process ends, all requests accepted so far get their answer, and
\* an access log line with the status that was sent, also when the handler panics
\* or the round fails (Logging, Recovery, runRound).
RequestsEnd ==
  []<>(server # "up" \/ \A r \in Requests : pc[r] # "off" => logged[r] # 0 /\ logged[r] = answered[r])

\* What cmd/rgsd says of its shutdown: requests in flight have 20 seconds to
\* drain before the process exits.
DrainsFirst == server = "exited" => cut = {}
=============================================================================
