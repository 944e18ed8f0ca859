# A verification of the marbles game

The repository is a marble race with betting: a Go server (`src/server`) opens
sessions, takes bets through an operator's wallet, runs a physics simulation in
a headless Godot process, pays the winners and keeps an auditable replay; a
Godot client (`src/game`) places bets and shows the race. This directory holds
TLA+ models of the parts in which money, bets or rounds can go wrong, the TLC
configurations that check them, and proofs for TLAPS.

Contents: [inventory](#1-inventory), [modules](#2-modules-and-what-they-model),
[runs](#3-runs), [proofs](#4-proofs), [disagreements](#5-where-the-code-and-its-documents-disagree),
[limits](#6-what-is-not-modelled-and-why), [plan](#7-plan).

## 1. Inventory

### Components of the server

**`rgs.Manager`** (`server/rgs/manager.go`) is the game server's state machine.
State, under one mutex: `sessions`, the queue `pending` of sessions with a bet,
the FIFO `pendingRounds` of pre-minted rounds (each with its own `bets`), the
map `roundBets` that the GET endpoint shows, `prevTrack`. Operations:
`OpenSession`, `PlaceBet`, `RunNextRound`, `GenerateRoundSpec`,
`PlaceBetOnRound`, `CloseSession`. It calls the wallet, the sessions, `round`,
`rtp`, the simulator and the store, and *never holds its mutex while it does*:
every operation is a chain of critical sections with calls in between, and HTTP
gives each request a goroutine of its own. That is where the difficulty is. It
is correct if each debited bet is settled once or refunded, by one round, with
the amount the audit trail justifies, whatever overlaps and whatever fails.

**`rgs.Session`** (`session.go`): `OPEN -> BET -> RACING -> SETTLED -> CLOSED`
with at most one bet, under a mutex of its own. Correct if no bet is replaced
or settled twice.

**`rgs.MockWallet`** (`wallet.go`): balances as unsigned 64-bit words and a
record of the transaction ids it has applied, so that a repeated id moves no
money. Correct if the record explains every balance, repeats never move money
and no debit is uncovered.

**`rtp`** (`server/rtp`): splits the pot of a round into prize and house cut
with two overflow checks. Correct if it agrees with exact arithmetic and
refuses only what does not fit.

**`round`** (`server/round`): the phases of one round (buy-in, race, settle),
its participants and the seed whose hash is committed first. A `Round` is local
to one call of `RunNextRound` or `runOneRound`, but anything may be called in
any order with any clock. Correct if the seed is sealed until there is a result,
phases only advance, and the field is fixed once the race has begun.

**`rgs` HTTP API** (`api.go`), **middleware** and **metrics**: one handler per
operation behind `Logging(Recovery(RequestID(HMAC(handler))))`; counters and a
histogram that `/metrics` reads one after the other. State: the response's
status as the access log saw it, and the metrics. Hard: panics in a handler and
in a background round, a run whose client goes away, reads of a session while a
round settles it. Correct if the status a bettor reads tells where the stake is
and every request gets its answer and its log line.

**`stream`** (`server/stream`): accepts the tick stream of a running simulator
over TCP, keeps it in memory and fans it out to WebSocket viewers, late joiners
included. Hard: slow viewers, joins at any moment, the end of a round, closing
the listener while connections are live. Correct if each viewer sees the stream
in step, only laggards are cut, and every viewer of a finished round is
released.

**`replay`** (`server/replay`, `server/api`): one directory per round, written
aside and renamed; served read-only over HTTP. Hard: two saves of one id, a
crash between two file operations.

**`sim`** (`server/sim`): starts Godot with a spec file, waits with a timeout,
and reads the status file back. Hard: files left by an earlier run, a process
that dies late.

**Commands** (`server/cmd/rgsd`, `roundd`, `replayd`): wiring, roundd's loop of
rounds with the track threaded from one to the next, and shutdown on a signal:
replayd waits for its simulators, rgsd announces a drain.

### Components of the client

**Game client** (`game/main.gd`, `rgs_client.gd`, the HUD) asks for a round,
places bets, lets the server run it and simulates the same seed locally; the
answers arrive through callbacks. Correct if, whichever comes first, the local
finish or the server's answer, the settlement shown in the end is the server's,
and if no client waits for ever. **Recorder and playback** (`game/recorder`,
`game/playback`) encode ticks, stream them, decode them and interpolate
between them. **Fairness** (`game/fairness`) derives spawn slots from the seed.
Tracks, physics, cameras, sound and offline scripts complete the tree.

### Interactions

    operator/client --HTTP--> api.go --> Manager --> Session (own mutex)
                                          |  |  \--> Wallet  (external)
                                          |  \-----> rtp, round (local values)
                                          \--------> sim (process, files) --> replay.Store
    simulator --TCP--> stream.Listener --> Hub --> Round --> WebSocket viewers

Requests share the manager's state and interleave between critical sections;
the wallet, the simulator and the store may each fail at any call; streams and
viewers share a hub, a buffer per round and one channel per viewer. A round id
names a work directory of `sim`, a round of the hub and a directory of the store.

PROJECT.json lists every hazard found, at its line, with the properties aimed
at it, or the reason why none covers it yet.

## 2. Modules and what they model

| module | models | state and actions |
|---|---|---|
| `Uint64` | Go's unsigned and signed words, of width `MaxUint64` | `Word`, `Wrap`, `ToInt64`, `NegInt64` |
| `Wallet` | `MockWallet` | `balances`, `applied`; `Debit`, `Credit`, `DebitRefused` |
| `WalletCalls` | any client of the wallet: any call at any time | the wallet's state |
| `Sums` | nothing of the code: the exact sum the wallet and `rtp` are compared with | `Sum` |
| `Rtp` | `rtp.Settle` | pure operators: the pot, the prize, the two overflow guards, the seat check |
| `Round` | `round.Round` under any calls with any clock | `phase`, `phaseStart`, `participants`, `result`, `hasResult`; one action per method |
| `RoundSettle` | a round and the settlement of its pot, compared with exact arithmetic | `Round`'s state, the buy-ins, the RTP and the answer of `Settle` |
| `Session` | `rgs.Session` | `sState`, `sPlayer`, `sBet`, `sMarble`, `sLast`; one action per method |
| `RgsManager` | `rgs.Manager` over `Wallet`, `Session`, `Rtp` | see below |
| `BetLedger` | abstract: what is promised about money | balances, and a status and terms per bet |
| `RgsSafety` | properties of `RgsManager`, its inductive invariant, the refinement of `BetLedger` | |
| `RgsClaims` | sentences of comments and documents that the code contradicts | |
| `Rgsd` | the process around the manager: handlers, middleware, metrics, shutdown | see below |
| `LiveStream` | `stream` as replayd runs it: hub, rounds, subscribers, TCP ingest, WebSocket handlers, shutdown | see below |
| `RoundAudit` | `sim.Run`, the files of the Godot process, `Store.Save`, and roundd's loop over them | see below |
| `GameClient` | `main.gd` in RGS mode, `rgs_client.gd`, the bets and the payout line of `hud.gd`, against the manager's FIFO of rounds | see below |
| `ArithmeticProofs` | lemmas about `Sum`, words and `Settle` | |
| `RgsProofs`, `WalletProofs`, `RoundProofs`, `RgsdProofs`, `LiveStreamProofs`, `RoundAuditProofs`, `GameClientProofs` | theorems about `RgsSafety`, `WalletCalls`, `RoundSettle` and the module each is named after | |
| `MC...` | instances for TLC | |

### `RgsManager`

Requests are processes. A member of `BetCalls`, `RoundBetCalls`, `StartCalls`
or `RunCalls` is one HTTP request (a scheduler's run is a run request); its
control point (`cPc`, `bPc`, `gPc`, `rPc`) says which critical section comes
next, and each critical section, wallet call or session method is one action:

| code | actions, in order |
|---|---|
| `OpenSession`, `CloseSession` | `OpenSession`, `CloseSession` |
| `PlaceBet` | `DebitStake` or `RefuseBet`; `AttachToSession`, or `RejectAttach` then `RefundStake`/`LoseRefund`; `EnqueueBet` |
| `GenerateRoundSpec` | `MintSpec`; `RegisterSpec` |
| `PlaceBetOnRound` | `FindRound` or `RefuseRoundBet`; `DebitRoundBet` or `RefuseRoundDebit`; `ConfirmRoundBet`, or `MissRound` then `RefundRoundBet`/`LoseRoundRefund` |
| `RunNextRound` | `TakeQueue`; `MintFresh` without a pre-minted round; `Admit`; `LockMarble` per bettor; `Race` or `SimFails`; `CreditWinner`/`CreditFails` and `SettleSession` per bettor; `SaveManifest` or `SaveFails`; `SettleRoundBet` or `RoundCreditFails` per round bet; `FinishRound` |

Choices worth knowing:

* A request mints at most one id, and the request stands for it. Ids are
  therefore unique, as `newID` makes them; round ids are clock readings, and two
  in the same nanosecond are outside the model (listed as a hazard).
* A request is made once. A client that retries makes a new request, with a
  new bet id, as the server gives it.
* `Faults` says which external failures may happen, at every step they concern:
  `"debit"` and `"credit"` are a wallet that answers with an error and has done
  nothing, `"sim"` the simulator, `"save"` the replay file or the store.
  Failures the code itself decides (an uncovered debit, an unknown player, a
  full field, a winner that does not exist, an overflow in `rtp`) are not faults:
  the guards find them.
* The amount of a round bet is an integer number of `1/SubUnits` of a wallet
  unit, so that debit and payout are truncated separately, as in the code;
  binary floating point itself is not represented.
* The track is `TrackPool` at *any* index: the hash of the round id is
  arbitrary. The geometry behind a track is irrelevant to the manager.
* Fillers are seats that pay `BuyIn` and have no session: `Stakes` counts them,
  nothing else does.

### `Rgsd`

A member of `Bets`, `Runs` or `Reads` is one request with its goroutine; one of
`Scrapes` is a read of `/metrics`. What `RgsManager` has in detail is reduced
here to what a caller can tell: a stake is held, a bet waits, is raced, or has a
result. What is new is what lies around it:

| code | actions |
|---|---|
| the chain | `Accept` (into the handler, or 401), `Recover` for a panic; `Answers` sends the status and logs it |
| `placeBet`, `placeRoundBet` with `countingWallet` | `BadBet`; `Debit` or `DebitFails` then `RejectBet`; `Enqueue` then `ConfirmBet`, or `Refuse`; `BetPanics` |
| `runRound` with `instrumentedSim` | `StartRun`, `AnswerRun`; beside it `Take`, `Race`, `Observe`, `Credit`, `Settle`, `Save`, `WorkFails`, `WorkPanics` |
| `writeSessionResponse` | `NoSession`; `Snapshot`, then `Balance` |
| `metrics.Handler` | `StartScrape`, `ReadMetric` per metric, in sorted order |
| `main` | `MainReturns`: at the signal |

A panic in a handler is recovered and answered with 500; one in a background
round ends the process. A short answer is flushed when the handler has
returned to `Logging`, so answer and log line are one step. The state of the
process is gone when it ends; `cut` remembers the requests it cut off.

### `LiveStream`

A member of `Sims` is a TCP connection with the round it may open, a member of
`Viewers` one `GET /live/{id}`. Actions are the critical sections of the two
kinds of mutex and the operations on channels and sockets:

| code | actions, in order |
|---|---|
| `acceptLoop`, `handleConn` | `AcceptConn`; `HelloFails`, or `OpenRound`/`RefuseRound`; `Write` per message; `StopReading`; `Finalize` and `Unregister` (the two halves of `Round.Done`, with a gap between the mutexes) |
| `WSHandler` | `Lookup` or `NotFound`; `AcceptFails` or `Subscribe`; `Receive` (a message is taken and written); `ViewerLeaves`, also for a write that fails, or `StreamEnded` |
| replayd's `main`, `Listener.Close` | `Signal`, `CloseSocket`, `StopAccepting`; `Exit` once the accept loop and the handlers are gone, whatever viewers still read; `ServeFails` for the `log.Fatalf` that ends the process at once |

Messages are numbers (1 the header, `k+1` the k-th tick), which is all that order,
gaps and repetitions are about. The capacity of a channel is the code's
`1 + len(ticks) + headroom`; the headroom is 1 in the runs so that a viewer
lags within a few messages.

### `RoundAudit`

A member of `Jobs` is one round being produced. The program is an rgsd, whose
`RunNextRound`s go side by side, or a roundd, whose loop runs one round after
the other, picks a track different from the one before, and takes it over only
when the round was stored (`previous`, `aired`). A job goes through `Start` (make the work
directory, remove stale files),
`Spawn`, then `Timeout`, `SeeCrash`, `ReadStatus` or `NoStatus`; `CallerFails`,
`RefuseSave` or `MakeTemp`, `CopyReplay`, `WriteManifest`, `Rename`, with
`SaveFails` after each. Its Godot process runs beside it (`OpenReplay`,
`WriteReplay`, `WriteStatus` or `SkipStatus`, `GodotCrashes`) and survives a
`Crash` of the program. Files hold the name of the job that wrote them, so that
another's race is seen for what it is; a replay file is also still open, whole, or
cut short. The round id of a job is any id: two jobs may meet in a
directory. `alone` is a history variable that says whether they did. Crashes are
crashes of a process: the file system keeps what was done.

### `GameClient`

A member of `Clients` is one client and the one round it has minted; every HTTP
call is a node of its own, so answers come in any order, and every one of them may
be lost. The call that mints may reach the server after its client has fallen back or
quit. `MintRound`, `HearSpec`, or `FallBack` to a local race; `PlaceBet`,
`RecordBet` or `RefuseBet` at the server, `HearBet` or `LoseBet`; `CloseWindow`
sends the run and starts the local race; `TakeRound`, `SettleRound`, `FailRound` are
the server's side; `HearResult` or `HearFailure`, and `FinishRace` for the
local finish, in any order; `Quit` at any time. What the payout line says
is a function of who wrote it, the bets it counts and the winner it assumes, so
a line is those three. A run takes the oldest round, whoever minted it.

Definitions named for a wrong behaviour (`RejectAndKeepStake`, `TakeAndKeepQueue`,
`SwallowCreditError`...) are not part of `Next`. Each is a plausible mistake in the
action that follows it, kept because some property must notice it: with the
mistake in place of the action, TLC has to find that property violated.
PROJECT.json pairs them.

## 3. Runs

All runs are exhaustive within their bounds. `CHECK_DEADLOCK FALSE` in each:
requests are finite and nobody is obliged to send one, so the system may stop.

| run | question | bounds |
|---|---|---|
| `round_settle` | is the seed sealed until there is a result (`SeedAfterResult`), do rounds only advance (`RoundOnlyAdvances`), does `Settle` agree with exact arithmetic and refuse only overflows (`SettleIsExact`)? | five-bit words, RTP in quarters up to 5/4, fields of up to 3 with buy-ins up to the largest word, winners outside the field, clocks that go back |
| `wallet_ledger` | does the transaction record explain the balances, across a wrap too, and decide each id once? | 3 players of which one unknown, 3 ids, 5 amounts, four-bit words so that sums pass the limit; 8 and 12 are above the largest `int64`, and 8 as an `int64` is its own negation |
| `rgs_sessions` | session bets: types, one place per live bet, runs never refused, each session paid as it was settled wherever a run breaks off (`SessionsPaidAsSettled`), one manifest that decides the outcomes of a finished run (`AuditDecidesOutcomes`) | 3 sessions, 3 bets, 2 overlapping runs, 2 marbles (one fewer than bets), failing credits, simulations and saves |
| `rgs_round_bets` | round bets: recorded iff accepted, rounds played once, bets frozen once taken, paid exactly as far as the run got and only with a manifest (`RoundBetsPaidAsSettled`) | 2 pre-minted rounds, 2 bets with amounts that truncate, 2 overlapping runs, failing debits, credits and saves |
| `rgs_refines_ledger` | both kinds of bet at once: every step is a step of `BetLedger`, and the manifest explains the outcomes of sessions and round bets together | 1 session with 2 competing bets, 1 round bet, 2 runs, a winner index that may not exist, failing credits and saves |
| `rgs_progress` | what has begun finishes: taken sessions settle, money taken is queued or refunded | 2 sessions, 2 bets, 1 round bet, 1 run, failing debits |
| `rgsd_serves` | does the status tell where the stake is (`AnswerTellsStake`), is a prize shown only when paid (`ShownWinIsPaid`), do scrapes add up, is every request answered and logged (`RequestsEnd`)? | 1 bet, 2 runs, 1 read, 1 scrape; any panic, a signal at any time |
| `live_stream` | viewers in step, open channels, the hub under a contended id, a quiet exit, only laggards cut, viewers of ended rounds released | 2 connections with one id, 2 viewers, 3 messages and DONE against a headroom of 1, a signal at any time |
| `round_audit` | what is stored is complete, verified, never rewritten and the job's own race; roundd's tracks alternate; jobs end | 2 rounds of an rgsd or 3 of a roundd over 2 round ids and 2 tracks; any crash, any failing file operation |
| `game_client` | does each run find a round of its own, is the server's settlement what a client shows in the end, and does no client wait for ever? | 2 clients, 2 marbles, 2 bets in all; any call lost or late, any run failing, quits at any time |
| `claim_*` | section 5 | as small as the counterexample |

Why the bounds are enough to be of use. Races here are between pairs: two bets
on one session, a bet and a run, a bet and a close, two runs; the runs have
two of each, three where a third party can matter (three sessions and two
marbles fill and overflow a field, and leave one session for the other run).
Two
connections with one id are the smallest contention for the hub, two viewers the
smallest fan-out in which one is cut and one is not, and two jobs the smallest
meeting in a directory; a third adds states and no new kind of step. roundd has
three rounds, so that one can fail between two that are stored. Two clients are
the fewest of which one can take the other's round, two bets the fewest of
which one is recorded and lost on its way back. In `rgsd_serves` one bet meets
two runs and a read; relations between bets are the business of the `rgs_*` runs.
Word widths are small so that every boundary is crossed; nothing in the code
depends on the width. Symmetry is used only in runs of invariants and of safety
properties over interchangeable ids.

**Fairness.** `rgs_progress` uses `FairSpec`: weak fairness of each request's
steps *after its first*. A goroutine that has begun runs to its return, because
no step of it waits for another request: the critical sections are short and
unconditional. Nothing obliges anyone to send a request, so first steps
(`DebitStake`, `FindRound`, `MintSpec`, `TakeQueue`) have no fairness. Nor is any
particular outcome fair: with faults on, a call may fail each time. The run
lets debits fail but not credits, simulations or saves, because the code does
nothing to recover from those: it drops the refund (`manager.go:189,570`) or
abandons the round (`manager.go:315,354,401`), and progress is then lost, as
the hazards say.

`live_stream` has weak fairness of the handlers' own steps: the hello has a
deadline of five seconds, a write to a viewer one of ten, and nothing else in them
waits, except for a simulator to send or for a viewer's channel to fill; those
steps (`AcceptConn`, `Write`, `StopReading`, `ViewerLeaves`) and those of the
shutdown have no fairness, so a simulator may stay silent for ever, and
`EndReleasesViewers` speaks of rounds whose end was reached.

`round_audit` has weak fairness of the jobs' steps after `Start`, taken
together: `Timeout` is the deadline both callers set. `rgsd_serves` has weak
fairness of the serving goroutines, taken together: as long as one can run, one
does. That leaves out a client that sends its headers and stalls its body: the
servers set a `ReadHeaderTimeout` only, so such a handler waits as long as the
connection lasts, and `RequestsEnd` says nothing of it. `JobsEnd` takes the timeout of
the simulation as positive, as the defaults of both commands are; for any other
`sim.Run` sets no deadline. Nothing is assumed of Godot, of the sender of a request or of a signal.
Together is enough, because every behaviour has finitely many such steps; it is
less than the scheduler of Go provides.

`game_client` has weak fairness of the client's two timers only, the window's
and the 90 seconds of the run's call. Nothing is assumed of the server, the
network, the player or the local race; that is why `RunIsHeardOf` is worth
stating, and why it does not promise that the run settles.

**Refinement.** `KeepsLedger` maps the manager to `BetLedger`: a bet's status is
read off the wallet's record (debited, refunded, credited) and off what a run
has passed by (lost), its terms off the request. Every step of every request
must be `Place`, one `Decide`, or a stutter. This is the claim an operator's
accountant would make: balances move by stakes, refunds and payouts of placed
bets, and each bet has at most one outcome, although the manager's bookkeeping
is spread over sessions, queues, rounds and requests.

## 4. Proofs

Every safety property that a passing run checks is also a theorem, for every value
of the constants: any number of sessions, bets, rounds, runs, clients, viewers,
jobs and scrapes, any faults, any word width. Each proof module states an
inductive invariant, proves that every action keeps it (one lemma per action or
per kind of action), and draws the properties from it. Actions that touch
nothing an invariant speaks of go through frame lemmas; the argument is in the
few others.

### The manager (`RgsProofs`, about `RgsSafety`)

Three invariants, each on the one before.

*Types and ownership.* `Invariance`: `TypeInv /\ Ownership`. It gives `TypeCorrect`
(`TypeOK`), `BetsHeldOnce` (`HeldOnce`: an unsettled bet is in exactly one of its
request, the queue, one run) and `RunsNeverRefused` (`RunNeverRefused`).
`TypeInv` adds to `TypeOK` that an admitted field fits its marbles (`FieldFits`),
without which a marble index is not typed. `HeldOnce` is not inductive by
itself: it cannot exclude that a session just taken by a run is also being bet on
by a request that will queue it again. `Ownership` adds what the code relies on
without saying so: a live session's bet points back at its request (`BetIffLive`,
`CallHolds`); a bet whose request is `attached` has not been queued, and one that
is `accepted` is held by the queue or a run (`QueueHolds`, `RunHolds`); the kinds
of place exclude each other and themselves (`QueuedOnce`, `TakenOnce`,
`QueuedOrTaken`), one of them always holds a live bet (`HeldSomewhere`), and a run's
counters agree with its stage (`RunStages`).

*Rounds.* `RoundsInvariance` adds `RoundInv`: a round waits in the FIFO, or one run
has it, or neither (`RoundIds`); the list of bets that the GET endpoint reads
and the one the run settles are the same (`BothLists`); they hold exactly the
accepted bets that name the round (`Recorded`); a manifest is of a run that got
that far (`SavedOnce`). It gives `BetsRecorded` (`RecordedIffAccepted`), `PlayedOnce`
(`RoundPlayedOnce`) and the action property `BetsFrozen` (`BetsFrozenOnceTaken`).
`RoundIds` is what makes the unlocked reads of a run safe: without it
`ConfirmRoundBet` could append to a list another run is settling.

*Money.* `MoneyInvariance` adds `MoneyInv`: which of debit, refund and credit the
wallet has applied for a bet, at each point of its request (`BetMoney`,
`RoundBetMoney`), in the session that holds it (`HeldMoney`), and in the run that
settles it (`RunMoney`: the marble of a bettor is its place in the run, the outcomes
and payments made so far say what the wallet has recorded, a finished run has
saved its manifest). It gives `SessionsPaid` (`SessionsPaidAsSettled`), `RoundBetsPaid`
(`RoundBetsPaidAsSettled`) and `ManifestDecides` (`AuditDecidesOutcomes`). The first two
need all three invariants: that a bet behind the point a run has reached is untouched
rests on its session or round being held by that run only, and on its request having
neither refunded it nor any means to. They say what a run that breaks off leaves behind:
stakes debited and answered by nothing. They do not say that anybody picks them up,
because nobody does (section 5), nor that the prize of a session has a manifest: it is
credited before the manifest is saved, and a failed save leaves it without one. A round
bet is credited after, so its prize has one. That the manifest is the only one of its
round comes from `RoundPlayedOnce`.

*Refinement.* `LedgerKept`: `Spec /\ []Roomy => KeepsLedger`, step by step: each action
maps to `Place`, one `Decide` or a stutter of `BetLedger`. `BetLedger` counts money
without a limit and the wallet modulo 2^64, and `MockWallet.Credit` checks no
overflow, so the manager does not implement it when a balance wraps around. `Roomy`
says that no balance is within one stake or payout of the top of its word. It is a
hypothesis of the theorem and no constraint of the model; in the instance of
`rgs_refines_ledger` it holds in every state, and `LedgerExplainsBalances` says what is
still true beyond it.

### The wallet (`WalletProofs`, about `WalletCalls`)

`BalancesExplained` (`LedgerExplainsBalances`) from `WalletInv`: the opening balances
plus the recorded transactions and the current balances have sums that are equal
as words (`Congruent`). The invariant is stated with a multiple of the word size and
not with `Wrap`, so that the steps are linear; `Int64Congruent` covers
`-int64(amount)` of the most negative word, which is its own negation and still
right as a word. `DecidedOnce` (`TxDecidedOnce`) needs no invariant.

### Settlement (`RoundProofs` and `ArithmeticProofs`, about `RoundSettle`)

`RoundInv` gives `TypeCorrect` (`TypeOK`), `SeedIsSealed` (`SeedAfterResult`; the
interesting case is `FinishRace` with a clock that goes back: the result is recorded
and the phase stays), `WinnerHasSeat` (`PaysOneOfTheField`, which is a part of the
invariant and is only proved), `NeverGoesBack` (`RoundOnlyAdvances`) and `ArithmeticIsExact` (`SettleIsExact`).

The last is about a loop. `ArithmeticProofs` has induction over the numbers as a
lemma about a set (`Induction`, from the well-foundedness of inclusion on finite
sets), and with it that the recursions behind the running pot and behind `Sum` have
a solution (`PotRecursion`, `SumsExist`), that a sum does not depend on its order
(`SumOfOthers`), and that as long as the exact sum is a word the running pot is that
sum (`PotIsSum`). From there, the guard of the loop holds at some buy-in exactly
when the exact pot is no word, also when the running pot has wrapped around at an
earlier one (`PotGuardExact`); `total > MaxUint64 / bps` holds exactly when the
product is no word (`PrizeGuardExact`); and the prize is the exact share rounded
down and at most the pot (`PrizeExact`). `RgsProofs` uses the same lemmas to show
that the prize of a full field is a word (`PrizeIsWord`).

### The process (`RgsdProofs`, about `Rgsd`)

`RgsdInv` gives `TypeCorrect` (`TypeOK`), `ScrapesConsistent` (`ScrapesAddUp`),
`AnswersTell` (`AnswerTellsStake`) and `WinsArePaid` (`ShownWinIsPaid`). A scrape reads
its counters one by one while rounds run, so the invariant counts: the rounds
between their two counters are exactly the difference (`RacedRight`), and a scrape
that has read the durations is bounded by the rounds it will read (`ScrapeRight`).
The answers need a set that only grows: a bet that once waited waits, is raced or
has a result (`Entered`), and only `PlacedOnce` excludes that a second run races it.

### The live stream (`LiveStreamProofs`)

`StreamInv` gives `TypeCorrect`, `SubscribersStayOpen` (`SubscribersAreOpen`), `HubIsRight`
(`HubFindsLiveRound`), `ExitsQuietly` (`ExitIsQuiet`), `StaysInStep` (`InStep`) and the
action property `CutsLaggardsOnly` (`CutOnlyLaggards`). `InStep` speaks of what a viewer
has been sent; the invariant has to speak of the channel too (`FedInStep`: what was
sent and what waits are the stream from its start, and all of it for a subscriber).
The hub needs `HubIsLive` (it has the rounds whose connection streams, one per id),
`DoneIsLast` and `FoundIsOpened` for a viewer that has looked a round up and not yet
subscribed; the cut needs that every channel was made with the headroom (`RoomKept`).

### The audit store (`RoundAuditProofs`)

`AuditInv` gives `TypeCorrect`, `StoreIsVerified` (`VisibleIsVerified`), `OwnRaceIsStored`
(`StoresOwnRace`), `TracksAlternate` (`AiredTracksAlternate`) and the action property
`StoreOnlyGrows` (`AppendOnly`). The invariant follows the bytes: where the Godot
process of a job can be (`ProcessFollows`), what `Save` has in its hands at each step
(`SaveHolds`), and, for a job that has had its directory to itself, whose the files in
it are (`OwnFiles`). That `alone` means what it says is an invariant of pairs of
jobs (`AloneIsAlone`).

### The game client (`GameClientProofs`)

`ClientInv` gives `TypeCorrect`, `RunsTakeRounds` (`EachRunTakesARound`) and
`SettlementShown` (`SettlementIsShown`). A run takes whatever round is first, not its
client's. That it finds one is a counting argument: the rounds that exist are of
different clients (`RoundsRight`), every client that may run has one, and the runs
that took one are as many as the rounds taken (a pigeonhole over the finite set of
clients). What is shown needs what the client has heard next to what the server
has settled (`ClientRight`).

### Assumptions, and what is not proved

All assumptions are named, stated where the constant is declared, and evaluated by
TLC in the runs: `MaxUint64Assumption` (odd, so that half of the words are negative),
`BasisPointsAssumption`, `RequestAssumption`, `CallsAssumption` and `KindsAreDistinct`
(requests are typed and their kinds distinct), `ConfigAssumption` (a field has
marbles, the pool has tracks, amounts are words), `WalletAssumption` (finitely many
players, amounts are words), `RoundAssumption` and `SettleAssumption` (the cap and
the clock readings are numbers, buy-ins are words), `StreamAssumption`,
`JobsAssumption`, `ClientAssumption` (finitely many clients), and `NoneAssumption` (a
missing file is not a file).

Only model-checked: liveness under fairness (`RequestsEnd`, `TakenSessionsSettle`,
`StakeQueuedOrRefunded`, `JobsEnd`, `EndReleasesViewers`, `RunIsHeardOf`), which is out
of the prover's reach, and that `Roomy` holds in the instance of `rgs_refines_ledger`. The two
claims of section 5 are counterexamples, and there is nothing to prove.

## 5. Where the code and its documents disagree

Checked as violations, each with a counterexample TLC finds:

* `claim_full_field`: `manager.go:615-616` tells a player with an unsettled bet to
  wait for the next `RunNextRound`. With one more bettor than `MaxMarbles`, the run
  fails after it emptied the queue, and its sessions stay in `BET` for ever.
* `claim_drain`: `cmd/rgsd/main.go:134-135` gives requests in flight up to 20
  seconds to drain. `ListenAndServe` returns as soon as `Shutdown` begins, and `main`
  with it, without waiting for the goroutine that drains: requests with debited
  stakes are cut.

Met while modelling and not run. About money:

* `docs/rgs-integration.md:101` promises 19.0 times the stake of a round bet. Debit
  (`manager.go:540`) and payout (`:420`) are truncated separately: a bet of 1.5 units
  is debited as 1 and paid as 28.
* `manager.go:468-470` promises pre-minted rounds the rotation of `RunNextRound`. A
  run that finishes puts its own track back into `prevTrack` (`:446`), so two rounds
  waiting one behind the other may share a track.
* The integration document has rounds serialised (:339), but nothing serialises
  `RunNextRound`; it saves the manifest before crediting (:312), the code credits
  first; its `buy_in` (:323-324) counts bettors, the code counts every seat.
* `wallet.go:18-19` keeps a bet pending on a transient wallet error; `PlaceBet` drops it.
* A run that fails or is cancelled keeps the stakes of the bets it took
  (`manager.go:315`): nothing refunds them.

About the process:

* `middleware.go:18-24` and `cmd/rgsd/main.go:9` have the request id in every log
  line and panic body. `Logging` and `Recovery` are outside `RequestID` and
  read their own request's context, so theirs is always empty.
* `middleware.go:22-24` wants a panic not to crash the process; a panic of a round
  in the background (`api.go:200`) does.
* `rgsd_bets_total` is "placed and accepted", but counts debits that are refunded
  later; `rgsd_bet_errors_total` is for "any reason", but counts the wallet's refusals
  only; the histogram observes successful simulations only.
* `metrics.go:85` says that duplicate buckets are rejected; they are only sorted.
* `writeSessionResponse` reads `UpdatedAt` without the session's mutex (`api.go:413`).

About the client:

* `main.gd:148-149` expects the local race to have the server's winner; with two
  clients the server may have run the other's round, and nothing compares the ids.
* `main.gd:195-197` takes the server's result as authoritative, but
  `apply_settlement` ignores the winner and the modal keeps the local one's name.
* `main.gd:216-217` and `343-346` have no payout overlay after a failed run, but
  `reveal_winner` shows one of the client's own making.
* `main.gd:132,164` keeps the balance in sync, but answers may overtake each other,
  and nothing fetches it after the settlement.
* `hud.gd` wants `enable_rgs_mode` before `setup()`; `main.gd` calls it after.
* `live_main.gd:160-164` ends playback when the socket closes after the header. If
  no tick arrived before the close, `playback_player.gd`'s `_process` returns at its
  first test for ever, and the viewer stays open. A viewer cut off for lagging is
  also closed after its header, and shows the prefix it has as a finished race.
* `playback_player.gd:32-34` reveals the winner once, when a frame first has
  `EVENT_FINISH_CROSS`. `_process` looks only at the frame under its cursor, which
  passes over frames when rendering is slow or a stalled stream resumes.

## 6. What is not modelled, and why

JSON and logging say nothing about state beyond what `Rgsd` has of them.
Persistence of the manager does not exist (`manager.go:78-79` says so), so there is
no recovery to check. The replay HTTP API reads a store that `VisibleIsVerified`
describes, and keeps nothing. Signatures, timestamps and request ids are data nobody
else reads. The derivation of spawn slots hashes bytes, and says nothing that does
not depend on the hash. Tracks, physics, cameras and sound are continuous. Scripts
are offline tools.

Within the models: a power failure that loses what was not synced is beyond
`RoundAudit` (the store syncs the replay and neither the manifest nor the
directories). Whether a silent simulator lets `Listener.Close` return is left
to the simulator by the code, and no liveness is claimed for it. `GameClient`
leaves out the wallet, the balance label and the viewers. `Rgsd` leaves out which
4xx a request gets that is refused before it reaches the wallet. `Round` leaves out the
two errors for arguments that are empty (`ErrEmptyName`, `ErrResultMissing`): such a call
changes nothing. `MintFresh` merges the two critical sections in which a run takes note
of the round it mints for itself (`manager.go:233-235`, `244-246`), since nobody can know
the round's id between them.

## 7. Plan

1. Done: `Wallet`, `Rtp`, `Session`, `RgsManager`, `BetLedger`; the proofs of types
   and ownership; `Round`, `RoundSettle` and their proofs.
2. Done: `LiveStream` with the shutdown of replayd; `RoundAudit` with the loop of
   roundd; `Rgsd`; `GameClient`.
3. Recorder and playback: the decoder's cursor over a stream that stops anywhere,
   and interpolation at its ends; the balance label with overtaking answers.
4. Done: a theorem for every safety property and action property of the runs, and
   the step refinement of `BetLedger`.
5. Proofs left: a refinement without `Roomy`, of a `BetLedger` that counts in words;
   a refinement between `Rgsd` and the ledger part of `RgsManager`, which is
   compared by reading today; the exactness of `DebitUnits` and `PayoutUnits`.
