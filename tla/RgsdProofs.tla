----------------------------- MODULE RgsdProofs -----------------------------
(***************************************************************************)
(* The rgsd process, for any number of requests and scrapes, any panics    *)
(* and an end at any time: what an answer says of the stake, what a read   *)
(* shows of a prize, and what a scrape shows of the rounds.                *)
(***************************************************************************)
EXTENDS Rgsd, FiniteSetTheorems, TLAPS

Points == {"off", "handler", "debited", "rejected", "queued", "waiting", "snapshot", "over"}
Statuses == {0, 200, 202, 400, 401, 402, 404, 409, 500}
Refusals == {400, 401, 402, 404, 409}
Stages == {"off", "started", "racing", "raced", "settling", "done", "failed"}
Views == [bet : Bets \cup {NoBet}, state : {"none", "bet", "won", "lost"},
          read : BOOLEAN, out : BOOLEAN, paid : BOOLEAN]
Scraping == [at : 0..3, read : [Metrics -> Nat]]

Types ==
  /\ server \in {"up", "exited", "crashed"} /\ cut \subseteq Requests
  /\ pc \in [Requests -> Points]
  /\ answered \in [Requests -> Statuses] /\ logged \in [Requests -> Statuses]
  /\ held \subseteq Bets /\ kept \subseteq Bets /\ credited \subseteq Bets /\ queue \subseteq Bets
  /\ result \in [Bets -> {"none", "won", "lost"}]
  /\ work \in [Runs -> Stages]
  /\ taken \in [Runs -> SUBSET Bets]
  /\ winner \in [Runs -> Bets \cup {NoBet}]
  /\ shown \in [Reads -> Views]
  /\ counters \in [Metrics -> Nat]
  /\ scrape \in [Scrapes -> Scraping]

\* A bet the manager knows of: it waits, is raced, or was settled.
Entered(b) == Queued(b) \/ result[b] # "none"

\* A bet is in one place at most.
PlacedOnce(b) ==
  /\ b \in queue => result[b] = "none"
  /\ \A r \in Runs : b \in taken[r] =>
       /\ b \notin queue /\ result[b] = "none"
       /\ \A q \in Runs : b \in taken[q] => q = r

\* The stake, the prize and the answer of a bet, against where its request is.
BetRight(b) ==
  /\ Entered(b) => b \in held /\ pc[b] \in {"queued", "over"} /\ answered[b] \notin Refusals
  /\ b \in held => pc[b] \in {"debited", "queued", "over"}
  /\ pc[b] \in {"debited", "queued"} => b \in held
  /\ pc[b] = "queued" \/ answered[b] = 200 => Entered(b)
  /\ answered[b] \in Refusals /\ b \in held => b \in kept
  /\ b \in kept => b \in held /\ pc[b] = "over"
  /\ b \in credited => Entered(b)
  /\ result[b] = "won" => b \in credited

\* countingWallet counts before the request goes on.
CountRight(b) ==
  /\ pc[b] \in {"debited", "queued"} \/ answered[b] = 200 => counters["bets"] > 0
  /\ pc[b] = "rejected" \/ answered[b] = 402 => counters["errors"] > 0

\* Nobody is answered before the end of the request, and a round is not begun
\* before its request was accepted, nor holds bets before it took the queue.
RequestRight(q) == answered[q] # 0 => pc[q] = "over"

RunRight(r) ==
  /\ pc[r] \in {"off", "handler"} => work[r] = "off"
  /\ work[r] \in {"off", "started"} => taken[r] = {}

\* What a read has taken from the session is still true of the money when it
\* comes to the balance.
ReadRight(g) ==
  /\ shown[g].state # "none" => shown[g].bet \in Bets /\ Entered(shown[g].bet)
  /\ shown[g].state = "won" => shown[g].bet \in credited
  /\ answered[g] = 200 /\ shown[g].read =>
       /\ shown[g].state = "won" => shown[g].paid
       /\ shown[g].state # "none" => shown[g].out

\* A round is counted, then its duration: the rounds between the two are the
\* difference of the counters.
Raced == {r \in Runs : work[r] = "raced"}

RacedRight ==
  /\ IsFiniteSet(Raced)
  /\ counters["rounds"] = counters["durations"] + Cardinality(Raced)

\* The durations a scrape has read are bounded by the rounds it reads later.
ScrapeRight(s) ==
  /\ scrape[s].at = 2 => scrape[s].read["durations"] <= counters["rounds"]
  /\ scrape[s].at = 3 => scrape[s].read["durations"] <= scrape[s].read["rounds"]

BetsRight == \A b \in Bets : PlacedOnce(b) /\ BetRight(b)
CountsRight == \A b \in Bets : CountRight(b)
RequestsRight == \A q \in Requests : RequestRight(q)
RunsRight == \A r \in Runs : RunRight(r)
ReadsRight == \A g \in Reads : ReadRight(g)
ScrapesRight == \A s \in Scrapes : ScrapeRight(s)

RgsdInv ==
  /\ Types /\ BetsRight /\ CountsRight /\ RequestsRight /\ RunsRight /\ ReadsRight
  /\ RacedRight /\ ScrapesRight
-----------------------------------------------------------------------------
\* At the start nothing is held and nothing was counted.
LEMMA InitInv == Init => RgsdInv
<1> SUFFICES ASSUME Init PROVE RgsdInv
  OBVIOUS
<1>1. Types
  BY DEF Init, Fresh, Types, Points, Statuses, Stages, Views, Scraping, Metrics
<1>2. Raced = {} /\ IsFiniteSet(Raced) /\ Cardinality(Raced) = 0
  <2>1. Raced = {}
    BY DEF Init, Fresh, Raced
  <2> QED
    BY <2>1, FS_EmptySet
<1>3. RacedRight
  BY <1>2 DEF Init, Fresh, RacedRight, Metrics
<1>4. BetsRight
  BY DEF Init, Fresh, BetsRight, PlacedOnce, BetRight, Entered, Queued, Requests, Refusals
<1>5. CountsRight
  BY DEF Init, Fresh, CountsRight, CountRight, Requests
<1>6. RequestsRight /\ RunsRight
  BY DEF Init, Fresh, RequestsRight, RequestRight, RunsRight, RunRight, Requests
<1>7. ReadsRight
  BY DEF Init, Fresh, ReadsRight, ReadRight, Requests
<1>8. ScrapesRight
  BY DEF Init, Fresh, ScrapesRight, ScrapeRight
<1> QED
  BY <1>1, <1>3, <1>4, <1>5, <1>6, <1>7, <1>8 DEF RgsdInv

\* An end of the process leaves what it started with.
LEMMA EndsInv ==
  ASSUME NEW how \in {"exited", "crashed"}, Ends(how)
  PROVE  RgsdInv'
<1>1. Types'
  BY DEF Ends, InFlight, Fresh, Types, Points, Statuses, Stages, Views, Scraping, Metrics
<1>2. Raced' = {} /\ IsFiniteSet(Raced') /\ Cardinality(Raced') = 0
  <2>1. Raced' = {}
    BY DEF Ends, Fresh, Raced
  <2> QED
    BY <2>1, FS_EmptySet
<1>3. RacedRight'
  BY <1>2 DEF Ends, Fresh, RacedRight, Metrics
<1>4. BetsRight'
  BY DEF Ends, Fresh, BetsRight, PlacedOnce, BetRight, Entered, Queued, Requests, Refusals
<1>5. CountsRight'
  BY DEF Ends, Fresh, CountsRight, CountRight, Requests
<1>6. RequestsRight' /\ RunsRight'
  BY DEF Ends, Fresh, RequestsRight, RequestRight, RunsRight, RunRight, Requests
<1>7. ReadsRight'
  BY DEF Ends, Fresh, ReadsRight, ReadRight, Requests
<1>8. ScrapesRight'
  BY DEF Ends, Fresh, ScrapesRight, ScrapeRight
<1> QED
  BY <1>1, <1>3, <1>4, <1>5, <1>6, <1>7, <1>8 DEF RgsdInv
-----------------------------------------------------------------------------
(* Frames.                                                                 *)

\* Request q alone moves: to the point `to', its answer being `status' then.
OnlyMoves(q, to, status) ==
  /\ UNCHANGED <<server, cut, scrape>>
  /\ pc' \in [Requests -> Points]
  /\ answered' \in [Requests -> Statuses] /\ logged' \in [Requests -> Statuses]
  /\ pc'[q] = to /\ answered'[q] = status
  /\ \A p \in Requests \ {q} : pc'[p] = pc[p] /\ answered'[p] = answered[p]
  /\ status # 0 => to = "over"

\* A request that goes on has no answer.
LEMMA GoesOn ==
  ASSUME RgsdInv, NEW q \in Requests, NEW from, NEW to \in Points,
         from # "over", Goes(q, from, to)
  PROVE  OnlyMoves(q, to, 0)
  BY DEF RgsdInv, Types, RequestsRight, RequestRight, Goes, Moves, OnlyMoves

\* A request that is answered is over.
LEMMA IsAnswered ==
  ASSUME RgsdInv, NEW q \in Requests, NEW from, NEW status \in Statuses,
         Answers(q, from, status)
  PROVE  OnlyMoves(q, "over", status)
<1>1. "over" \in Points
  BY DEF Points
<1> QED
  BY <1>1 DEF RgsdInv, Types, Answers, Moves, OnlyMoves

LEMMA RequestsStep ==
  ASSUME RequestsRight, NEW q \in Requests, NEW to, NEW status, OnlyMoves(q, to, status)
  PROVE  RequestsRight'
  BY DEF RequestsRight, RequestRight, OnlyMoves

\* Nothing happens to the stake, the prize and the place of bet b.
SameHolding(b) ==
  /\ b \in held' <=> b \in held
  /\ b \in kept' <=> b \in kept
  /\ b \in credited' <=> b \in credited
  /\ b \in queue' <=> b \in queue
  /\ \A r \in Runs : b \in taken'[r] <=> b \in taken[r]
  /\ result'[b] = result[b]

LEMMA OtherBet ==
  ASSUME NEW b \in Bets, PlacedOnce(b), BetRight(b), SameHolding(b),
         pc'[b] = pc[b], answered'[b] = answered[b]
  PROVE  PlacedOnce(b)' /\ BetRight(b)' /\ (Entered(b)' <=> Entered(b))
<1>1. Entered(b)' <=> Entered(b)
  BY DEF SameHolding, Entered, Queued
<1>2. PlacedOnce(b)'
  BY DEF PlacedOnce, SameHolding
<1>3. BetRight(b)'
  BY <1>1 DEF BetRight, SameHolding
<1> QED
  BY <1>1, <1>2, <1>3

\* What holds of a read lasts: bets stay known, and prizes paid.
LEMMA ReadsFrame ==
  ASSUME ReadsRight, UNCHANGED shown, credited \subseteq credited',
         \A g \in Reads : answered'[g] = answered[g] \/ answered'[g] # 200,
         \A b \in Bets : Entered(b) => Entered(b)'
  PROVE  ReadsRight'
<1> SUFFICES ASSUME NEW g \in Reads PROVE ReadRight(g)'
  BY DEF ReadsRight
<1>1. ReadRight(g)
  BY DEF ReadsRight
<1>2. shown'[g] = shown[g]
  OBVIOUS
<1>3. \A c \in Bets : Entered(c) =>
        \/ c \in queue' \/ \E r \in Runs : c \in taken'[r]
        \/ result'[c] # "none"
  BY DEF Entered, Queued
<1> QED
  BY <1>1, <1>2, <1>3 DEF ReadRight, Entered, Queued

\* Counters of rounds that grow leave what a scrape has read below them.
LEMMA ScrapesFrame ==
  ASSUME Types, ScrapesRight, UNCHANGED scrape, counters' \in [Metrics -> Nat],
         counters'["rounds"] >= counters["rounds"]
  PROVE  ScrapesRight'
<1> SUFFICES ASSUME NEW s \in Scrapes PROVE ScrapeRight(s)'
  BY DEF ScrapesRight
<1>1. ScrapeRight(s) /\ scrape'[s] = scrape[s]
  BY DEF ScrapesRight
<1>2. scrape[s].read \in [Metrics -> Nat] /\ "durations" \in Metrics /\ "rounds" \in Metrics
  BY DEF Types, Scraping, Metrics
<1>3. counters["rounds"] \in Nat /\ counters'["rounds"] \in Nat /\ scrape[s].read["durations"] \in Nat
  BY <1>2 DEF Types
<1> QED
  BY <1>1, <1>3 DEF ScrapeRight

LEMMA RunsFrame ==
  ASSUME RunsRight, UNCHANGED <<work, taken>>, \A r \in Runs : pc'[r] = pc[r]
  PROVE  RunsRight'
  BY DEF RunsRight, RunRight

LEMMA RacedFrame ==
  ASSUME RacedRight, Raced' = Raced,
         counters'["rounds"] = counters["rounds"], counters'["durations"] = counters["durations"]
  PROVE  RacedRight'
  BY DEF RacedRight

LEMMA CountsFrame ==
  ASSUME CountsRight, Types, UNCHANGED <<pc, answered>>, counters' \in [Metrics -> Nat],
         counters'["bets"] >= counters["bets"], counters'["errors"] >= counters["errors"]
  PROVE  CountsRight'
<1>1. counters["bets"] \in Nat /\ counters'["bets"] \in Nat
      /\ counters["errors"] \in Nat /\ counters'["errors"] \in Nat
  BY DEF Types, Metrics
<1> QED
  BY <1>1 DEF CountsRight, CountRight-----------------------------------------------------------------------------
(* The steps of a bet.                                                     *)

\* What is left to show of a step of bet b's request: what it does to b itself.
LEMMA BetMoves ==
  ASSUME RgsdInv, NEW b \in Bets, NEW to, NEW status, OnlyMoves(b, to, status), Types',
         UNCHANGED <<runVars, shown, credited, result>>,
         counters'["rounds"] = counters["rounds"], counters'["durations"] = counters["durations"],
         counters'["bets"] >= counters["bets"], counters'["errors"] >= counters["errors"],
         \A c \in Bets \ {b} : SameHolding(c),
         Entered(b) => Entered(b)',
         PlacedOnce(b)', BetRight(b)', CountRight(b)'
  PROVE  RgsdInv'
<1> USE DEF RgsdInv
<1>1. b \in Requests /\ Bets \subseteq Requests /\ Runs \subseteq Requests /\ Reads \subseteq Requests
  BY DEF Requests
<1>2. b \notin Runs /\ b \notin Reads
  BY KindsAreDistinct
<1>3. \A c \in Bets \ {b} : PlacedOnce(c)' /\ BetRight(c)' /\ (Entered(c)' <=> Entered(c))
  <2> TAKE c \in Bets \ {b}
  <2>1. pc'[c] = pc[c] /\ answered'[c] = answered[c] /\ PlacedOnce(c) /\ BetRight(c)
    BY <1>1 DEF OnlyMoves, BetsRight
  <2> QED
    BY <2>1, OtherBet
<1>4. BetsRight'
  BY <1>3 DEF BetsRight
<1>5. CountsRight'
  <2>1. counters["bets"] \in Nat /\ counters'["bets"] \in Nat
        /\ counters["errors"] \in Nat /\ counters'["errors"] \in Nat
    BY DEF Types, Metrics
  <2>2. \A c \in Bets \ {b} : pc'[c] = pc[c] /\ answered'[c] = answered[c] /\ CountRight(c)
    BY <1>1 DEF OnlyMoves, CountsRight
  <2>3. \A c \in Bets \ {b} : CountRight(c)'
    BY <2>1, <2>2 DEF CountRight
  <2> QED
    BY <2>3 DEF CountsRight
<1>6. RequestsRight'
  BY <1>1, RequestsStep
<1>7. RunsRight'
  <2>1. UNCHANGED <<work, taken>> /\ \A r \in Runs : pc'[r] = pc[r]
    BY <1>1, <1>2 DEF OnlyMoves, runVars
  <2> QED
    BY <2>1, RunsFrame
<1>8. ReadsRight'
  <2>1. \A g \in Reads : answered'[g] = answered[g]
    BY <1>1, <1>2 DEF OnlyMoves
  <2>2. \A c \in Bets : Entered(c) => Entered(c)'
    BY <1>3
  <2> QED
    BY <2>1, <2>2, ReadsFrame
<1>9. RacedRight'
  <2>1. Raced' = Raced
    BY DEF Raced, runVars
  <2> QED
    BY <2>1, RacedFrame
<1>10. ScrapesRight'
  <2>1. counters'["rounds"] >= counters["rounds"] /\ counters' \in [Metrics -> Nat]
    BY DEF Types, Metrics
  <2> QED
    BY <2>1, ScrapesFrame DEF OnlyMoves
<1> QED
  BY <1>4, <1>5, <1>6, <1>7, <1>8, <1>9, <1>10

\* An answer, or a step of the chain, to a bet that moves no money: it must be
\* an answer that fits where the stake is.
LEMMA BetAnswers ==
  ASSUME RgsdInv, NEW b \in Bets, NEW to \in {"handler", "over"}, NEW status \in Statuses,
         OnlyMoves(b, to, status), UNCHANGED <<moneyVars, runVars, shown, counters>>,
         to = "handler" => pc[b] = "off",
         status \in Refusals => pc[b] \in {"off", "handler", "rejected"},
         status = 200 => pc[b] = "queued",
         status = 402 => pc[b] = "rejected"
  PROVE  RgsdInv'
<1> USE DEF RgsdInv
<1>1. Types'
  BY DEF Types, OnlyMoves, moneyVars, runVars
<1>2. \A c \in Bets : SameHolding(c)
  BY DEF SameHolding, moneyVars, runVars
<1>3. Entered(b)' <=> Entered(b)
  BY <1>2 DEF SameHolding, Entered, Queued
<1>4. PlacedOnce(b) /\ BetRight(b) /\ CountRight(b) /\ pc[b] \in Points
  BY DEF BetsRight, CountsRight, Types, Requests
<1>5. PlacedOnce(b)'
  BY <1>2, <1>4 DEF PlacedOnce, SameHolding
<1>6. BetRight(b)'
  BY <1>2, <1>3, <1>4 DEF BetRight, SameHolding, OnlyMoves, Refusals
<1>7. CountRight(b)'
  BY <1>4 DEF CountRight, OnlyMoves
<1>8. UNCHANGED <<credited, result>>
  BY DEF moneyVars
<1>9. counters["bets"] \in Nat /\ counters["errors"] \in Nat
  BY DEF Types, Metrics
<1> QED
  BY <1>1, <1>2, <1>3, <1>5, <1>6, <1>7, <1>8, <1>9, BetMoves

LEMMA AcceptBet ==
  ASSUME RgsdInv, NEW b \in Bets, Accept(b)
  PROVE  RgsdInv'
<1>1. b \in Requests /\ "handler" \in Points /\ 0 \in Statuses /\ 401 \in Statuses
  BY DEF Requests, Points, Statuses
<1>2. UNCHANGED <<moneyVars, runVars, shown, counters>>
  BY DEF Accept
<1>3. CASE Goes(b, "off", "handler")
  <2>1. OnlyMoves(b, "handler", 0) /\ pc[b] = "off"
    BY <1>1, <1>3, GoesOn DEF Goes, Moves
  <2> QED
    BY <1>1, <1>2, <2>1, BetAnswers DEF Refusals
<1>4. CASE Answers(b, "off", 401)
  <2>1. OnlyMoves(b, "over", 401) /\ pc[b] = "off"
    BY <1>1, <1>4, IsAnswered DEF Answers, Moves
  <2> QED
    BY <1>1, <1>2, <2>1, BetAnswers
<1> QED
  BY <1>3, <1>4 DEF Accept

LEMMA BadBetInv ==
  ASSUME RgsdInv, NEW b \in Bets, BadBet(b)
  PROVE  RgsdInv'
<1>1. b \in Requests /\ 400 \in Statuses
  BY DEF Requests, Statuses
<1>2. OnlyMoves(b, "over", 400) /\ pc[b] = "handler" /\ UNCHANGED <<moneyVars, runVars, shown, counters>>
  BY <1>1, IsAnswered DEF BadBet, Answers, Moves
<1> QED
  BY <1>1, <1>2, BetAnswers

LEMMA RejectBetInv ==
  ASSUME RgsdInv, NEW b \in Bets, RejectBet(b)
  PROVE  RgsdInv'
<1>1. PICK status \in {400, 402, 404} : Answers(b, "rejected", status)
  BY DEF RejectBet
<1>2. b \in Requests /\ status \in Statuses
  BY DEF Requests, Statuses
<1>3. OnlyMoves(b, "over", status)
  BY <1>1, <1>2, IsAnswered
<1>4. pc[b] = "rejected"
  BY <1>1 DEF Answers, Moves
<1>5. UNCHANGED <<moneyVars, runVars, shown, counters>>
  BY DEF RejectBet
<1> QED
  BY <1>2, <1>3, <1>4, <1>5, BetAnswers

LEMMA ConfirmBetInv ==
  ASSUME RgsdInv, NEW b \in Bets, ConfirmBet(b)
  PROVE  RgsdInv'
<1>1. b \in Requests /\ 200 \in Statuses
  BY DEF Requests, Statuses
<1>2. OnlyMoves(b, "over", 200) /\ pc[b] = "queued" /\ UNCHANGED <<moneyVars, runVars, shown, counters>>
  BY <1>1, IsAnswered DEF ConfirmBet, Answers, Moves
<1> QED
  BY <1>1, <1>2, BetAnswers DEF Refusals

LEMMA BetPanicsInv ==
  ASSUME RgsdInv, NEW b \in Bets, BetPanics(b)
  PROVE  RgsdInv'
<1>1. b \in Requests /\ 500 \in Statuses
  BY DEF Requests, Statuses
<1>2. OnlyMoves(b, "over", 500) /\ UNCHANGED <<moneyVars, runVars, shown, counters>>
  BY <1>1, IsAnswered DEF BetPanics, Recover
<1> QED
  BY <1>1, <1>2, BetAnswers DEF Refusals

\* A counter goes up by one and the others stay.
LEMMA CountEffect ==
  ASSUME Types, NEW m \in Metrics, Count(m)
  PROVE  /\ counters' \in [Metrics -> Nat]
         /\ counters'[m] = counters[m] + 1
         /\ \A k \in Metrics \ {m} : counters'[k] = counters[k]
         /\ \A k \in Metrics : counters[k] \in Nat /\ counters'[k] \in Nat
  BY DEF Types, Count

\* The stake leaves a balance it had not left, and is counted.
LEMMA DebitInv ==
  ASSUME RgsdInv, NEW b \in Bets, Debit(b)
  PROVE  RgsdInv'
<1> USE DEF RgsdInv
<1>1. b \in Requests /\ "debited" \in Points /\ Metrics = {"errors", "bets", "durations", "rounds"}
  BY DEF Requests, Points, Metrics
<1>2. OnlyMoves(b, "debited", 0) /\ pc[b] = "handler"
  BY <1>1, GoesOn DEF Debit, Goes, Moves
<1>3. UNCHANGED <<kept, credited, queue, result, runVars, shown>> /\ held' = held \cup {b}
  BY DEF Debit
<1>4. Count("bets")
  BY DEF Debit
<1>5. counters' \in [Metrics -> Nat] /\ counters'["bets"] = counters["bets"] + 1
      /\ counters'["rounds"] = counters["rounds"] /\ counters'["durations"] = counters["durations"]
      /\ counters'["errors"] = counters["errors"] /\ counters["bets"] \in Nat /\ counters["errors"] \in Nat
  BY <1>1, <1>4, CountEffect
<1>6. Types'
  BY <1>2, <1>3, <1>5 DEF Types, OnlyMoves, runVars
<1>7. \A c \in Bets \ {b} : SameHolding(c)
  BY <1>3 DEF SameHolding, runVars
<1>8. PlacedOnce(b) /\ BetRight(b) /\ ~Entered(b) /\ b \notin held
  BY <1>2 DEF BetsRight, BetRight
<1>9. PlacedOnce(b)' /\ ~Entered(b)'
  BY <1>3, <1>8 DEF PlacedOnce, Entered, Queued, runVars
<1>10. BetRight(b)'
  BY <1>2, <1>3, <1>8, <1>9 DEF BetRight, OnlyMoves, Refusals
<1>11. CountRight(b)'
  BY <1>2, <1>5 DEF CountRight, OnlyMoves
<1> QED
  BY <1>2, <1>3, <1>5, <1>6, <1>7, <1>8, <1>9, <1>10, <1>11, BetMoves

\* A debit that fails is counted, and nothing is held.
LEMMA DebitFailsInv ==
  ASSUME RgsdInv, NEW b \in Bets, DebitFails(b)
  PROVE  RgsdInv'
<1> USE DEF RgsdInv
<1>1. b \in Requests /\ "rejected" \in Points /\ Metrics = {"errors", "bets", "durations", "rounds"}
  BY DEF Requests, Points, Metrics
<1>2. OnlyMoves(b, "rejected", 0) /\ pc[b] = "handler"
  BY <1>1, GoesOn DEF DebitFails, Goes, Moves
<1>3. UNCHANGED <<moneyVars, runVars, shown>>
  BY DEF DebitFails
<1>4. Count("errors")
  BY DEF DebitFails
<1>5. counters' \in [Metrics -> Nat] /\ counters'["errors"] = counters["errors"] + 1
      /\ counters'["rounds"] = counters["rounds"] /\ counters'["durations"] = counters["durations"]
      /\ counters'["bets"] = counters["bets"] /\ counters["bets"] \in Nat /\ counters["errors"] \in Nat
  BY <1>1, <1>4, CountEffect
<1>6. Types'
  BY <1>2, <1>3, <1>5 DEF Types, OnlyMoves, moneyVars, runVars
<1>7. \A c \in Bets : SameHolding(c)
  BY <1>3 DEF SameHolding, moneyVars, runVars
<1>8. PlacedOnce(b) /\ BetRight(b) /\ ~Entered(b) /\ b \notin held
  BY <1>2 DEF BetsRight, BetRight
<1>9. PlacedOnce(b)' /\ ~Entered(b)'
  BY <1>3, <1>8 DEF PlacedOnce, Entered, Queued, moneyVars, runVars
<1>10. BetRight(b)'
  BY <1>2, <1>7, <1>8, <1>9 DEF BetRight, OnlyMoves, Refusals, SameHolding
<1>11. CountRight(b)'
  BY <1>2, <1>5 DEF CountRight, OnlyMoves
<1>12. UNCHANGED <<credited, result>>
  BY <1>3 DEF moneyVars
<1> QED
  BY <1>2, <1>3, <1>5, <1>6, <1>7, <1>8, <1>9, <1>10, <1>11, <1>12, BetMoves

\* A bet whose stake is held is queued: it was nowhere before.
LEMMA EnqueueInv ==
  ASSUME RgsdInv, NEW b \in Bets, Enqueue(b)
  PROVE  RgsdInv'
<1> USE DEF RgsdInv
<1>1. b \in Requests /\ "queued" \in Points
  BY DEF Requests, Points
<1>2. OnlyMoves(b, "queued", 0) /\ pc[b] = "debited"
  BY <1>1, GoesOn DEF Enqueue, Goes, Moves
<1>3. UNCHANGED <<held, kept, credited, result, runVars, shown, counters>> /\ queue' = queue \cup {b}
  BY DEF Enqueue
<1>4. Types'
  BY <1>2, <1>3 DEF Types, OnlyMoves, runVars
<1>5. \A c \in Bets \ {b} : SameHolding(c)
  BY <1>3 DEF SameHolding, runVars
<1>6. BetRight(b) /\ CountRight(b) /\ ~Entered(b)
  BY <1>2 DEF BetsRight, BetRight, CountsRight
<1>7. PlacedOnce(b)' /\ Entered(b)'
  BY <1>3, <1>6 DEF PlacedOnce, Entered, Queued, runVars
<1>8. BetRight(b)'
  BY <1>2, <1>3, <1>6, <1>7 DEF BetRight, OnlyMoves, Refusals
<1>9. CountRight(b)'
  BY <1>2, <1>3, <1>6 DEF CountRight, OnlyMoves
<1>10. counters["bets"] \in Nat /\ counters["errors"] \in Nat
  BY DEF Types, Metrics
<1> QED
  BY <1>2, <1>3, <1>4, <1>5, <1>7, <1>8, <1>9, <1>10, BetMoves

\* A refusal after the debit returns the stake, or keeps it and says so in kept.
LEMMA RefuseInv ==
  ASSUME RgsdInv, NEW b \in Bets, Refuse(b)
  PROVE  RgsdInv'
<1> USE DEF RgsdInv
<1>1. b \in Requests /\ 409 \in Statuses
  BY DEF Requests, Statuses
<1>2. OnlyMoves(b, "over", 409) /\ pc[b] = "debited"
  BY <1>1, IsAnswered DEF Refuse, Answers, Moves
<1>3. UNCHANGED <<credited, queue, result, runVars, shown, counters>>
  BY DEF Refuse
<1>4. \/ held' = held \ {b} /\ kept' = kept
      \/ held' = held /\ kept' = kept \cup {b}
  BY DEF Refuse
<1>5. Types'
  BY <1>2, <1>3, <1>4 DEF Types, OnlyMoves, runVars
<1>6. \A c \in Bets \ {b} : SameHolding(c)
  BY <1>3, <1>4 DEF SameHolding, runVars
<1>7. PlacedOnce(b) /\ BetRight(b) /\ CountRight(b) /\ ~Entered(b) /\ b \in held /\ b \notin kept
  BY <1>2 DEF BetsRight, BetRight, CountsRight
<1>8. PlacedOnce(b)' /\ ~Entered(b)'
  BY <1>3, <1>7 DEF PlacedOnce, Entered, Queued, runVars
<1>9. BetRight(b)'
  BY <1>2, <1>3, <1>4, <1>7, <1>8 DEF BetRight, OnlyMoves, Refusals
<1>10. CountRight(b)'
  BY <1>2, <1>3, <1>7 DEF CountRight, OnlyMoves
<1>11. counters["bets"] \in Nat /\ counters["errors"] \in Nat
  BY DEF Types, Metrics
<1> QED
  BY <1>2, <1>3, <1>5, <1>6, <1>7, <1>8, <1>9, <1>10, <1>11, BetMoves

LEMMA BetStepInv ==
  ASSUME RgsdInv, NEW b \in Bets, BetStep(b)
  PROVE  RgsdInv'
  BY BadBetInv, DebitInv, DebitFailsInv, RejectBetInv, EnqueueInv, ConfirmBetInv, RefuseInv,
     BetPanicsInv DEF BetStep-----------------------------------------------------------------------------
(* The steps of a run.                                                     *)

\* A request for a run that moves changes nothing for bets and reads.
LEMMA RunMoves ==
  ASSUME RgsdInv, NEW r \in Runs, NEW to, NEW status, OnlyMoves(r, to, status), Types',
         UNCHANGED <<moneyVars, taken, shown, counters>>,
         \A q \in Runs \ {r} : work'[q] = work[q],
         Raced' = Raced, RunRight(r)'
  PROVE  RgsdInv'
<1> USE DEF RgsdInv
<1>1. r \in Requests /\ Bets \subseteq Requests /\ Runs \subseteq Requests /\ Reads \subseteq Requests
  BY DEF Requests
<1>2. r \notin Bets /\ r \notin Reads
  BY KindsAreDistinct
<1>3. \A c \in Bets : pc'[c] = pc[c] /\ answered'[c] = answered[c]
  BY <1>1, <1>2 DEF OnlyMoves
<1>4. \A c \in Bets : PlacedOnce(c)' /\ BetRight(c)' /\ (Entered(c)' <=> Entered(c))
  <2> TAKE c \in Bets
  <2>1. SameHolding(c) /\ PlacedOnce(c) /\ BetRight(c)
    BY DEF SameHolding, moneyVars, BetsRight
  <2> QED
    BY <1>3, <2>1, OtherBet
<1>5. BetsRight'
  BY <1>4 DEF BetsRight
<1>6. CountsRight'
  BY <1>3 DEF CountsRight, CountRight
<1>7. RequestsRight'
  BY <1>1, RequestsStep
<1>8. RunsRight'
  <2>1. \A q \in Runs \ {r} : pc'[q] = pc[q]
    BY <1>1 DEF OnlyMoves
  <2> QED
    BY <2>1 DEF RunsRight, RunRight
<1>9. ReadsRight'
  <2>1. \A g \in Reads : answered'[g] = answered[g]
    BY <1>1, <1>2 DEF OnlyMoves
  <2>2. credited' = credited
    BY DEF moneyVars
  <2> QED
    BY <1>4, <2>1, <2>2, ReadsFrame
<1>10. RacedRight'
  BY RacedFrame
<1>11. ScrapesRight'
  <2>1. counters'["rounds"] >= counters["rounds"] /\ counters' \in [Metrics -> Nat]
    BY DEF Types, Metrics
  <2> QED
    BY <2>1, ScrapesFrame DEF OnlyMoves
<1> QED
  BY <1>5, <1>6, <1>7, <1>8, <1>9, <1>10, <1>11

\* A step of the chain, or an answer, to a run that has begun or never will.
LEMMA RunAnswers ==
  ASSUME RgsdInv, NEW r \in Runs, NEW to \in {"handler", "over"}, NEW status \in Statuses,
         OnlyMoves(r, to, status), UNCHANGED <<moneyVars, runVars, shown, counters>>,
         to = "handler" => pc[r] = "off"
  PROVE  RgsdInv'
<1> USE DEF RgsdInv
<1>1. Types'
  BY DEF Types, OnlyMoves, moneyVars, runVars
<1>2. RunRight(r)'
  BY DEF RunsRight, RunRight, OnlyMoves, runVars
<1>3. Raced' = Raced /\ UNCHANGED taken /\ \A q \in Runs \ {r} : work'[q] = work[q]
  BY DEF Raced, runVars
<1> QED
  BY <1>1, <1>2, <1>3, RunMoves

LEMMA AcceptRun ==
  ASSUME RgsdInv, NEW r \in Runs, Accept(r)
  PROVE  RgsdInv'
<1>1. r \in Requests /\ "handler" \in Points /\ 0 \in Statuses /\ 401 \in Statuses
  BY DEF Requests, Points, Statuses
<1>2. UNCHANGED <<moneyVars, runVars, shown, counters>>
  BY DEF Accept
<1>3. CASE Goes(r, "off", "handler")
  <2>1. OnlyMoves(r, "handler", 0) /\ pc[r] = "off"
    BY <1>1, <1>3, GoesOn DEF Goes, Moves
  <2> QED
    BY <1>1, <1>2, <2>1, RunAnswers
<1>4. CASE Answers(r, "off", 401)
  <2>1. OnlyMoves(r, "over", 401)
    BY <1>1, <1>4, IsAnswered
  <2> QED
    BY <1>1, <1>2, <2>1, RunAnswers
<1> QED
  BY <1>3, <1>4 DEF Accept

LEMMA AnswerRunInv ==
  ASSUME RgsdInv, NEW r \in Runs, AnswerRun(r)
  PROVE  RgsdInv'
<1>1. r \in Requests /\ 200 \in Statuses /\ 500 \in Statuses
  BY DEF Requests, Statuses
<1>2. UNCHANGED <<moneyVars, runVars, shown, counters>>
  BY DEF AnswerRun
<1>3. PICK status \in {200, 500} : OnlyMoves(r, "over", status)
  BY <1>1, IsAnswered DEF AnswerRun
<1> QED
  BY <1>1, <1>2, <1>3, RunAnswers

LEMMA StartRunInv ==
  ASSUME RgsdInv, NEW r \in Runs, StartRun(r)
  PROVE  RgsdInv'
<1> USE DEF RgsdInv
<1>1. r \in Requests /\ "waiting" \in Points /\ 202 \in Statuses
  BY DEF Requests, Points, Statuses
<1>2. /\ UNCHANGED <<moneyVars, taken, winner, shown, counters>>
      /\ work' = [work EXCEPT ![r] = "started"]
  BY DEF StartRun
<1>3. work[r] = "off" /\ taken[r] = {}
  BY DEF StartRun, Goes, Answers, Moves, RunsRight, RunRight
<1>4. PICK to \in {"waiting", "over"}, status \in Statuses : OnlyMoves(r, to, status)
  <2>1. CASE Goes(r, "handler", "waiting")
    BY <1>1, <2>1, GoesOn DEF Statuses
  <2>2. CASE Answers(r, "handler", 202)
    BY <1>1, <2>2, IsAnswered
  <2> QED
    BY <2>1, <2>2 DEF StartRun
<1>5. Types'
  BY <1>2, <1>4 DEF Types, OnlyMoves, moneyVars, Stages
<1>6. Raced' = Raced /\ \A q \in Runs \ {r} : work'[q] = work[q]
  BY <1>2, <1>3 DEF Raced, Types
<1>7. RunRight(r)'
  BY <1>2, <1>3, <1>4 DEF RunRight, OnlyMoves, Types
<1> QED
  BY <1>2, <1>4, <1>5, <1>6, <1>7, RunMoves

\* What is left to show of a step of a round itself: what it does to the bets,
\* and to the two counters of rounds.
LEMMA RoundMoves ==
  ASSUME RgsdInv, NEW r \in Runs, NEW from, NEW to \in Stages, Works(r, from, to), Types',
         UNCHANGED held, credited \subseteq credited',
         to \in {"off", "started"} => taken'[r] = {},
         from # "off",
         \A q \in Runs \ {r} : taken'[q] \subseteq taken[q],
         counters'["bets"] = counters["bets"], counters'["errors"] = counters["errors"],
         counters'["rounds"] >= counters["rounds"],
         \A b \in Bets : PlacedOnce(b)' /\ BetRight(b)' /\ (Entered(b) => Entered(b)'),
         RacedRight'
  PROVE  RgsdInv'
<1> USE DEF RgsdInv
<1>1. /\ UNCHANGED <<server, cut, pc, answered, logged, shown, scrape>>
      /\ work[r] = from /\ work' = [work EXCEPT ![r] = to]
  BY DEF Works, requestVars
<1>2. counters' \in [Metrics -> Nat] /\ counters \in [Metrics -> Nat]
  BY DEF Types
<1>3. BetsRight'
  BY DEF BetsRight
<1>4. CountsRight'
  BY <1>1 DEF CountsRight, CountRight
<1>5. RequestsRight'
  BY <1>1 DEF RequestsRight, RequestRight
<1>6. RunsRight'
  <2> SUFFICES ASSUME NEW q \in Runs PROVE RunRight(q)'
    BY DEF RunsRight
  <2>1. RunRight(q) /\ RunRight(r) /\ pc'[q] = pc[q]
    BY <1>1 DEF RunsRight
  <2>2. CASE q = r
    BY <1>1, <2>1, <2>2 DEF RunRight, Types
  <2>3. CASE q # r
    BY <1>1, <2>1, <2>3 DEF RunRight, Types
  <2> QED
    BY <2>2, <2>3
<1>7. ReadsRight'
  BY <1>1, ReadsFrame
<1>8. ScrapesRight'
  BY <1>1, <1>2, ScrapesFrame
<1> QED
  BY <1>3, <1>4, <1>5, <1>6, <1>7, <1>8

\* The set of the rounds between their two counts, after a step of one round.
LEMMA RacedSame ==
  ASSUME RgsdInv, NEW r \in Runs, NEW from, NEW to, Works(r, from, to),
         from # "raced", to # "raced", UNCHANGED counters
  PROVE  RacedRight'
<1>1. Raced' = Raced
  BY DEF RgsdInv, Types, Works, Raced
<1> QED
  BY <1>1, RacedFrame DEF RgsdInv

\* The queue goes to the run, which had no bets: every bet is where it was, or
\* has moved from the one place to the other.
LEMMA TakeInv ==
  ASSUME RgsdInv, NEW r \in Runs, Take(r)
  PROVE  RgsdInv'
<1> USE DEF RgsdInv
<1>1. Works(r, "started", "racing") /\ work[r] = "started" /\ UNCHANGED <<pc, answered>>
  BY DEF Take, Works, requestVars
<1>2. /\ taken' = [taken EXCEPT ![r] = queue] /\ queue' = {}
      /\ UNCHANGED <<held, kept, credited, result, winner, counters>>
  BY DEF Take
<1>3. taken[r] = {} /\ "racing" \in Stages
  BY <1>1 DEF RunsRight, RunRight, Stages
<1>4. Types'
  BY <1>1, <1>2, <1>3 DEF Types, Works, requestVars
<1>5. taken'[r] = queue /\ \A q \in Runs \ {r} : taken'[q] = taken[q]
  BY <1>2 DEF Types
<1>6. ASSUME NEW b \in Bets
      PROVE  PlacedOnce(b)' /\ BetRight(b)' /\ (Entered(b) => Entered(b)')
  <2>1. PlacedOnce(b) /\ BetRight(b)
    BY DEF BetsRight
  <2>2. \A q \in Runs : b \in taken'[q] <=> b \in taken[q] \/ (q = r /\ b \in queue)
    BY <1>3, <1>5
  <2>3. Entered(b)' <=> Entered(b)
    BY <1>2, <2>2 DEF Entered, Queued
  <2>4. PlacedOnce(b)'
    BY <1>2, <2>1, <2>2 DEF PlacedOnce
  <2>5. BetRight(b)'
    BY <1>1, <1>2, <2>1, <2>3 DEF BetRight
  <2> QED
    BY <2>3, <2>4, <2>5
<1>7. RacedRight'
  BY <1>1, <1>2, RacedSame
<1>8. counters["rounds"] >= counters["rounds"]
  BY DEF Types, Metrics
<1> QED
  BY <1>1, <1>2, <1>3, <1>4, <1>5, <1>6, <1>7, <1>8, RoundMoves
\* A step of a round that leaves every bet where it is.
LEMMA RoundOnly ==
  ASSUME RgsdInv, NEW r \in Runs, NEW from, NEW to \in Stages, Works(r, from, to), Types',
         UNCHANGED <<moneyVars, taken>>, from \notin {"off", "started"}, to \notin {"off", "started"},
         counters'["bets"] = counters["bets"], counters'["errors"] = counters["errors"],
         counters'["rounds"] >= counters["rounds"], RacedRight'
  PROVE  RgsdInv'
<1> USE DEF RgsdInv
<1>1. \A b \in Bets : PlacedOnce(b)' /\ BetRight(b)' /\ (Entered(b) => Entered(b)')
  <2> TAKE b \in Bets
  <2>1. PlacedOnce(b) /\ BetRight(b) /\ SameHolding(b) /\ pc'[b] = pc[b] /\ answered'[b] = answered[b]
    BY DEF BetsRight, SameHolding, moneyVars, Works, requestVars
  <2> QED
    BY <2>1, OtherBet
<1>2. UNCHANGED <<held, credited>>
  BY DEF moneyVars
<1> QED
  BY <1>1, <1>2, RoundMoves

\* A round that has been raced is counted: one more is between its two counts.
LEMMA RaceInv ==
  ASSUME RgsdInv, NEW r \in Runs, Race(r)
  PROVE  RgsdInv'
<1> USE DEF RgsdInv
<1>1. Works(r, "racing", "raced") /\ work[r] = "racing" /\ work' = [work EXCEPT ![r] = "raced"]
  BY DEF Race, Works
<1>2. UNCHANGED <<moneyVars, taken>> /\ Count("rounds") /\ "raced" \in Stages
  BY DEF Race, Stages
<1>3. /\ counters' \in [Metrics -> Nat] /\ counters["rounds"] \in Nat /\ counters["durations"] \in Nat
      /\ counters'["rounds"] = counters["rounds"] + 1 /\ counters'["durations"] = counters["durations"]
      /\ counters'["bets"] = counters["bets"] /\ counters'["errors"] = counters["errors"]
  BY <1>2, CountEffect DEF Metrics
<1>4. winner' \in [Runs -> Bets \cup {NoBet}]
  BY DEF Race, Types
<1>5. Types'
  BY <1>1, <1>2, <1>3, <1>4 DEF Types, Works, requestVars, moneyVars
<1>6. RacedRight'
  <2>1. Raced' = Raced \cup {r} /\ r \notin Raced
    BY <1>1 DEF Raced, Types
  <2>2. IsFiniteSet(Raced) /\ Cardinality(Raced) \in Nat
    BY FS_CardinalityType DEF RacedRight
  <2>3. IsFiniteSet(Raced') /\ Cardinality(Raced') = Cardinality(Raced) + 1
    BY <2>1, <2>2, FS_AddElement
  <2> QED
    BY <1>3, <2>2, <2>3 DEF RacedRight
<1> QED
  BY <1>1, <1>2, <1>3, <1>5, <1>6, RoundOnly

\* Its duration is observed: one fewer is.
LEMMA ObserveInv ==
  ASSUME RgsdInv, NEW r \in Runs, Observe(r)
  PROVE  RgsdInv'
<1> USE DEF RgsdInv
<1>1. Works(r, "raced", "settling") /\ work[r] = "raced" /\ work' = [work EXCEPT ![r] = "settling"]
  BY DEF Observe, Works
<1>2. UNCHANGED <<moneyVars, taken, winner>> /\ Count("durations") /\ "settling" \in Stages
  BY DEF Observe, Stages
<1>3. /\ counters' \in [Metrics -> Nat] /\ counters["rounds"] \in Nat /\ counters["durations"] \in Nat
      /\ counters'["durations"] = counters["durations"] + 1 /\ counters'["rounds"] = counters["rounds"]
      /\ counters'["bets"] = counters["bets"] /\ counters'["errors"] = counters["errors"]
  BY <1>2, CountEffect DEF Metrics
<1>4. Types'
  BY <1>1, <1>2, <1>3 DEF Types, Works, requestVars, moneyVars
<1>5. RacedRight'
  <2>1. Raced' = Raced \ {r} /\ r \in Raced
    BY <1>1 DEF Raced, Types
  <2>2. IsFiniteSet(Raced) /\ Cardinality(Raced) \in Nat
    BY FS_CardinalityType DEF RacedRight
  <2>3. IsFiniteSet(Raced') /\ Cardinality(Raced') = Cardinality(Raced) - 1
    BY <2>1, <2>2, FS_RemoveElement
  <2> QED
    BY <1>3, <2>2, <2>3 DEF RacedRight
<1> QED
  BY <1>1, <1>2, <1>3, <1>4, <1>5, RoundOnly

\* The prize goes to a bet that the run still has.
LEMMA CreditInv ==
  ASSUME RgsdInv, NEW r \in Runs, Credit(r)
  PROVE  RgsdInv'
<1> USE DEF RgsdInv
<1>1. Works(r, "settling", "settling") /\ UNCHANGED <<pc, answered>> /\ "settling" \in Stages
  BY DEF Credit, Works, requestVars, Stages
<1>2. /\ winner[r] \in taken[r] /\ credited' = credited \cup {winner[r]}
      /\ UNCHANGED <<held, kept, queue, result, taken, winner, counters>>
  BY DEF Credit
<1>3. Types'
  BY <1>1, <1>2 DEF Types, Works, requestVars
<1>4. ASSUME NEW b \in Bets
      PROVE  PlacedOnce(b)' /\ BetRight(b)' /\ (Entered(b) => Entered(b)')
  <2>1. PlacedOnce(b) /\ BetRight(b)
    BY DEF BetsRight
  <2>2. Entered(b)' <=> Entered(b)
    BY <1>2 DEF Entered, Queued
  <2>3. b \in credited' => Entered(b)
    BY <1>2, <2>1 DEF BetRight, Entered, Queued
  <2>4. PlacedOnce(b)'
    BY <1>2, <2>1 DEF PlacedOnce
  <2>5. BetRight(b)'
    BY <1>1, <1>2, <2>1, <2>2, <2>3 DEF BetRight
  <2> QED
    BY <2>2, <2>4, <2>5
<1>5. RacedRight'
  BY <1>1, <1>2, RacedSame
<1>6. counters["rounds"] >= counters["rounds"]
  BY DEF Types, Metrics
<1> QED
  BY <1>1, <1>2, <1>3, <1>4, <1>5, <1>6, RoundMoves

\* A bet leaves the run with its result, a winner after its prize.
LEMMA SettleInv ==
  ASSUME RgsdInv, NEW r \in Runs, Settle(r)
  PROVE  RgsdInv'
<1> USE DEF RgsdInv
<1>1. Works(r, "settling", "settling") /\ UNCHANGED <<pc, answered>> /\ "settling" \in Stages
  BY DEF Settle, Works, requestVars, Stages
<1>2. PICK c \in taken[r] : (c = winner[r] => c \in credited) /\ Settled(r, c)
  BY DEF Settle
<1>3. /\ result' = [result EXCEPT ![c] = IF c = winner[r] THEN "won" ELSE "lost"]
      /\ taken' = [taken EXCEPT ![r] = @ \ {c}]
      /\ UNCHANGED <<held, kept, credited, queue, winner, counters>>
  BY <1>2 DEF Settled
<1>4. c \in Bets /\ PlacedOnce(c) /\ BetRight(c) /\ Entered(c)
  BY DEF Types, BetsRight, Entered, Queued
<1>5. Types'
  BY <1>1, <1>3, <1>4 DEF Types, Works, requestVars
<1>6. /\ taken'[r] = taken[r] \ {c} /\ \A q \in Runs \ {r} : taken'[q] = taken[q]
      /\ result'[c] # "none" /\ (result'[c] = "won" => c \in credited)
      /\ \A b \in Bets \ {c} : result'[b] = result[b]
  BY <1>2, <1>3, <1>4 DEF Types
<1>7. ASSUME NEW b \in Bets
      PROVE  PlacedOnce(b)' /\ BetRight(b)' /\ (Entered(b) => Entered(b)')
  <2>1. PlacedOnce(b) /\ BetRight(b)
    BY DEF BetsRight
  <2>2. CASE b # c
    <3>1. SameHolding(b)
      BY <1>3, <1>6, <2>2 DEF SameHolding
    <3> QED
      BY <1>1, <2>1, <3>1, OtherBet
  <2>3. CASE b = c
    <3>1. c \notin queue /\ \A q \in Runs : c \notin taken'[q]
      BY <1>4, <1>6 DEF PlacedOnce
    <3>2. Entered(c)'
      BY <1>6 DEF Entered
    <3>3. PlacedOnce(c)'
      BY <1>3, <3>1 DEF PlacedOnce
    <3>4. BetRight(c)'
      BY <1>1, <1>3, <1>4, <1>6, <3>2 DEF BetRight
    <3> QED
      BY <2>3, <3>2, <3>3, <3>4
  <2> QED
    BY <2>2, <2>3
<1>8. RacedRight'
  BY <1>1, <1>3, RacedSame
<1>9. counters["rounds"] >= counters["rounds"] /\ \A q \in Runs \ {r} : taken'[q] \subseteq taken[q]
  BY <1>6 DEF Types, Metrics
<1> QED
  BY <1>1, <1>3, <1>5, <1>7, <1>8, <1>9, RoundMoves

\* A round that ends, or fails with its bets, keeps them where they are.
LEMMA WorkEnds ==
  ASSUME RgsdInv, NEW r \in Runs, NEW from \in {"racing", "settling"}, NEW to \in {"done", "failed"},
         Works(r, from, to), UNCHANGED <<moneyVars, taken, winner, counters>>
  PROVE  RgsdInv'
<1> USE DEF RgsdInv
<1>1. to \in Stages
  BY DEF Stages
<1>2. Types'
  BY <1>1 DEF Types, Works, requestVars, moneyVars
<1>3. RacedRight'
  BY RacedSame
<1>4. counters["rounds"] >= counters["rounds"]
  BY DEF Types, Metrics
<1> QED
  BY <1>1, <1>2, <1>3, <1>4, RoundOnly

LEMMA SaveInv ==
  ASSUME RgsdInv, NEW r \in Runs, Save(r)
  PROVE  RgsdInv'
  BY WorkEnds DEF Save

LEMMA WorkFailsInv ==
  ASSUME RgsdInv, NEW r \in Runs, WorkFails(r)
  PROVE  RgsdInv'
  BY WorkEnds DEF WorkFails

\* A panic ends the request and the round, or the process.
LEMMA WorkPanicsInv ==
  ASSUME RgsdInv, NEW r \in Runs, WorkPanics(r)
  PROVE  RgsdInv'
<1> USE DEF RgsdInv
<1>1. CASE Ends("crashed")
  BY <1>1, EndsInv
<1>2. CASE /\ Recover(r, "waiting")
           /\ work' = [work EXCEPT ![r] = "failed"]
           /\ UNCHANGED <<moneyVars, taken, winner, shown, counters>>
  <2>1. r \in Requests /\ 500 \in Statuses
    BY DEF Requests, Statuses
  <2>2. OnlyMoves(r, "over", 500)
    BY <1>2, <2>1, IsAnswered DEF Recover
  <2>3. Types'
    BY <1>2, <2>2 DEF Types, OnlyMoves, moneyVars, Stages
  <2>4. work[r] \in {"racing", "settling"}
    BY DEF WorkPanics
  <2>5. Raced' = Raced /\ \A q \in Runs \ {r} : work'[q] = work[q]
    BY <1>2, <2>4 DEF Raced, Types
  <2>6. RunRight(r)'
    BY <1>2, <2>2 DEF RunRight, OnlyMoves, Types
  <2> QED
    BY <1>2, <2>1, <2>2, <2>3, <2>5, <2>6, RunMoves
<1> QED
  BY <1>1, <1>2 DEF WorkPanics

LEMMA WorkStepInv ==
  ASSUME RgsdInv, NEW r \in Runs, WorkStep(r)
  PROVE  RgsdInv'
  BY TakeInv, RaceInv, ObserveInv, CreditInv, SettleInv, SaveInv, WorkFailsInv, WorkPanicsInv
  DEF WorkStep-----------------------------------------------------------------------------
(* The steps of a read.                                                    *)

\* What is left to show of a step of a read: what it does to the read itself.
LEMMA ReadMoves ==
  ASSUME RgsdInv, NEW g \in Reads, NEW to, NEW status, OnlyMoves(g, to, status), Types',
         UNCHANGED <<moneyVars, runVars, counters>>,
         \A q \in Reads \ {g} : shown'[q] = shown[q],
         ReadRight(g)'
  PROVE  RgsdInv'
<1> USE DEF RgsdInv
<1>1. g \in Requests /\ Bets \subseteq Requests /\ Runs \subseteq Requests /\ Reads \subseteq Requests
  BY DEF Requests
<1>2. g \notin Bets /\ g \notin Runs
  BY KindsAreDistinct
<1>3. \A c \in Bets : pc'[c] = pc[c] /\ answered'[c] = answered[c]
  BY <1>1, <1>2 DEF OnlyMoves
<1>4. \A c \in Bets : PlacedOnce(c)' /\ BetRight(c)' /\ (Entered(c)' <=> Entered(c))
  <2> TAKE c \in Bets
  <2>1. SameHolding(c) /\ PlacedOnce(c) /\ BetRight(c)
    BY DEF SameHolding, moneyVars, runVars, BetsRight
  <2> QED
    BY <1>3, <2>1, OtherBet
<1>5. BetsRight'
  BY <1>4 DEF BetsRight
<1>6. CountsRight'
  BY <1>3 DEF CountsRight, CountRight
<1>7. RequestsRight'
  BY <1>1, RequestsStep
<1>8. RunsRight'
  <2>1. UNCHANGED <<work, taken>> /\ \A r \in Runs : pc'[r] = pc[r]
    BY <1>1, <1>2 DEF OnlyMoves, runVars
  <2> QED
    BY <2>1, RunsFrame
<1>9. ReadsRight'
  <2> SUFFICES ASSUME NEW q \in Reads \ {g} PROVE ReadRight(q)'
    BY DEF ReadsRight
  <2>1. ReadRight(q) /\ shown'[q] = shown[q] /\ answered'[q] = answered[q]
    BY <1>1 DEF ReadsRight, OnlyMoves
  <2>2. \A c \in Bets : Entered(c) =>
          \/ c \in queue' \/ \E r \in Runs : c \in taken'[r]
          \/ result'[c] # "none"
    BY <1>4 DEF Entered, Queued
  <2>3. credited' = credited
    BY DEF moneyVars
  <2> QED
    BY <2>1, <2>2, <2>3 DEF ReadRight, Entered, Queued
<1>10. RacedRight'
  <2>1. Raced' = Raced
    BY DEF Raced, runVars
  <2> QED
    BY <2>1, RacedFrame
<1>11. ScrapesRight'
  <2>1. counters'["rounds"] >= counters["rounds"] /\ counters' \in [Metrics -> Nat]
    BY DEF Types, Metrics
  <2> QED
    BY <2>1, ScrapesFrame DEF OnlyMoves
<1> QED
  BY <1>5, <1>6, <1>7, <1>8, <1>9, <1>10, <1>11

\* A read that goes into its handler, or that is refused.
LEMMA ReadAnswers ==
  ASSUME RgsdInv, NEW g \in Reads, NEW to \in {"handler", "over"}, NEW status \in Statuses \ {200},
         OnlyMoves(g, to, status), UNCHANGED <<moneyVars, runVars, shown, counters>>
  PROVE  RgsdInv'
<1> USE DEF RgsdInv
<1>1. Types'
  BY DEF Types, OnlyMoves, moneyVars, runVars
<1>2. ReadRight(g)'
  BY DEF ReadsRight, ReadRight, OnlyMoves, Entered, Queued, moneyVars, runVars
<1> QED
  BY <1>1, <1>2, ReadMoves

LEMMA AcceptRead ==
  ASSUME RgsdInv, NEW g \in Reads, Accept(g)
  PROVE  RgsdInv'
<1>1. g \in Requests /\ "handler" \in Points /\ 0 \in Statuses /\ 401 \in Statuses
  BY DEF Requests, Points, Statuses
<1>2. UNCHANGED <<moneyVars, runVars, shown, counters>>
  BY DEF Accept
<1>3. CASE Goes(g, "off", "handler")
  <2>1. OnlyMoves(g, "handler", 0)
    BY <1>1, <1>3, GoesOn
  <2> QED
    BY <1>1, <1>2, <2>1, ReadAnswers
<1>4. CASE Answers(g, "off", 401)
  <2>1. OnlyMoves(g, "over", 401)
    BY <1>1, <1>4, IsAnswered
  <2> QED
    BY <1>1, <1>2, <2>1, ReadAnswers
<1> QED
  BY <1>3, <1>4 DEF Accept

LEMMA NoSessionInv ==
  ASSUME RgsdInv, NEW g \in Reads, NoSession(g)
  PROVE  RgsdInv'
<1>1. g \in Requests /\ 404 \in Statuses
  BY DEF Requests, Statuses
<1>2. OnlyMoves(g, "over", 404) /\ UNCHANGED <<moneyVars, runVars, shown, counters>>
  BY <1>1, IsAnswered DEF NoSession
<1> QED
  BY <1>1, <1>2, ReadAnswers

\* A session that shows a bet knows of it, and of its prize when it was won.
LEMMA SnapshotInv ==
  ASSUME RgsdInv, NEW g \in Reads, Snapshot(g)
  PROVE  RgsdInv'
<1> USE DEF RgsdInv
<1>1. g \in Requests /\ "snapshot" \in Points
  BY DEF Requests, Points
<1>2. OnlyMoves(g, "snapshot", 0) /\ UNCHANGED <<moneyVars, runVars, counters>>
  BY <1>1, GoesOn DEF Snapshot
<1>3. PICK b \in Bets : shown' = [shown EXCEPT ![g] = [@ EXCEPT !.bet = b, !.state = StateOf(b)]]
  BY DEF Snapshot
<1>4. /\ StateOf(b) \in {"none", "bet", "won", "lost"}
      /\ StateOf(b) # "none" => Entered(b)
      /\ StateOf(b) = "won" => b \in credited
  BY DEF StateOf, Entered, BetsRight, BetRight, Types
<1>5. /\ shown' \in [Reads -> Views]
      /\ shown'[g].bet = b /\ shown'[g].state = StateOf(b)
      /\ \A q \in Reads \ {g} : shown'[q] = shown[q]
  BY <1>3, <1>4 DEF Types, Views
<1>6. Types'
  BY <1>2, <1>5 DEF Types, OnlyMoves, moneyVars, runVars
<1>7. ReadRight(g)'
  <2>1. answered'[g] = 0 /\ UNCHANGED <<queue, result, taken, credited>>
    BY <1>2 DEF OnlyMoves, moneyVars, runVars
  <2> QED
    BY <1>4, <1>5, <2>1 DEF ReadRight, Entered, Queued
<1> QED
  BY <1>1, <1>2, <1>5, <1>6, <1>7, ReadMoves

\* The balance, if the wallet tells it, is read after the state, and nothing was
\* taken back in between.
LEMMA BalanceInv ==
  ASSUME RgsdInv, NEW g \in Reads, Balance(g)
  PROVE  RgsdInv'
<1> USE DEF RgsdInv
<1> DEFINE b == shown[g].bet
<1>1. g \in Requests /\ 200 \in Statuses
  BY DEF Requests, Statuses
<1>2. OnlyMoves(g, "over", 200) /\ UNCHANGED <<moneyVars, runVars, counters>>
  BY <1>1, IsAnswered DEF Balance
<1>3. PICK read \in BOOLEAN :
        shown' = [shown EXCEPT ![g] = [@ EXCEPT !.read = read,
                    !.out = read /\ b \in held, !.paid = read /\ b \in credited]]
  BY DEF Balance
<1>4. /\ shown' \in [Reads -> Views]
      /\ shown'[g].bet = b /\ shown'[g].state = shown[g].state /\ shown'[g].read = read
      /\ shown'[g].out = (read /\ b \in held) /\ shown'[g].paid = (read /\ b \in credited)
      /\ \A q \in Reads \ {g} : shown'[q] = shown[q]
  <2> DEFINE o == read /\ b \in held
             p == read /\ b \in credited
  <2>1. shown \in [Reads -> Views] /\ shown[g] \in Views /\ b = shown[g].bet /\ o \in BOOLEAN /\ p \in BOOLEAN
    BY DEF Types
  <2>2. shown' = [shown EXCEPT ![g] = [@ EXCEPT !.read = read, !.out = o, !.paid = p]]
    BY <1>3
  <2> HIDE DEF b, o, p
  <2>3. /\ shown'[g] = [shown[g] EXCEPT !.read = read, !.out = o, !.paid = p]
        /\ \A q \in Reads \ {g} : shown'[q] = shown[q]
    BY <2>1, <2>2
  <2>4. /\ shown'[g] \in Views
        /\ shown'[g].bet = b /\ shown'[g].state = shown[g].state /\ shown'[g].read = read
        /\ shown'[g].out = o /\ shown'[g].paid = p
    BY <2>1, <2>3 DEF Views
  <2>5. shown' \in [Reads -> Views]
    BY <2>1, <2>2, <2>3, <2>4
  <2> QED
    BY <2>3, <2>4, <2>5 DEF o, p
<1>5. Types'
  BY <1>2, <1>4 DEF Types, OnlyMoves, moneyVars, runVars
<1>6. /\ shown[g].state # "none" => b \in Bets /\ Entered(b) /\ b \in held
      /\ shown[g].state = "won" => b \in credited
  BY DEF ReadsRight, ReadRight, BetsRight, BetRight
<1>7. UNCHANGED <<queue, result, taken, credited>>
  BY <1>2 DEF moneyVars, runVars
<1>8. \A c \in Bets : Entered(c) =>
        \/ c \in queue' \/ \E r \in Runs : c \in taken'[r]
        \/ result'[c] # "none"
  BY <1>7 DEF Entered, Queued
<1>9. ReadRight(g)'
  BY <1>4, <1>6, <1>7, <1>8 DEF ReadRight, Entered, Queued
<1> QED
  BY <1>1, <1>2, <1>4, <1>5, <1>9, ReadMoves

LEMMA ReadStepInv ==
  ASSUME RgsdInv, NEW g \in Reads, ReadStep(g)
  PROVE  RgsdInv'
  BY NoSessionInv, SnapshotInv, BalanceInv DEF ReadStep
-----------------------------------------------------------------------------
(* The steps of a scrape.                                                  *)

\* Nothing but the scrapes moves.
LEMMA ScrapeFrame ==
  ASSUME RgsdInv, scrape' \in [Scrapes -> Scraping], ScrapesRight',
         UNCHANGED <<server, cut, requestVars, moneyVars, runVars, shown, counters>>
  PROVE  RgsdInv'
<1> USE DEF RgsdInv, requestVars, moneyVars, runVars
<1>1. Types'
  BY DEF Types
<1>2. BetsRight' /\ CountsRight' /\ RequestsRight' /\ RunsRight'
  BY DEF BetsRight, PlacedOnce, BetRight, Entered, Queued, CountsRight, CountRight, RequestsRight,
     RequestRight, RunsRight, RunRight
<1>3. ReadsRight' /\ RacedRight'
  BY DEF ReadsRight, ReadRight, Entered, Queued, RacedRight, Raced
<1> QED
  BY <1>1, <1>2, <1>3

\* There are two metrics to read, and the durations come first.
LEMMA OrderOfReads == Len(ScrapeOrder) = 2 /\ ScrapeOrder[1] = "durations" /\ ScrapeOrder[2] = "rounds"
  BY DEF ScrapeOrder

LEMMA StartScrapeInv ==
  ASSUME RgsdInv, NEW s \in Scrapes, StartScrape(s)
  PROVE  RgsdInv'
<1> USE DEF RgsdInv
<1>1. /\ scrape' = [scrape EXCEPT ![s].at = 1]
      /\ UNCHANGED <<server, cut, requestVars, moneyVars, runVars, shown, counters>>
  BY DEF StartScrape
<1>2. scrape' \in [Scrapes -> Scraping]
  BY <1>1 DEF Types, Scraping
<1>3. ScrapesRight'
  BY <1>1 DEF Types, Scraping, ScrapesRight, ScrapeRight
<1> QED
  BY <1>1, <1>2, <1>3, ScrapeFrame

\* At any time there are at least as many rounds as durations.
LEMMA RoundsAhead ==
  ASSUME RgsdInv
  PROVE  /\ counters["durations"] \in Nat /\ counters["rounds"] \in Nat
         /\ counters["durations"] <= counters["rounds"]
<1>1. Cardinality(Raced) \in Nat
  BY FS_CardinalityType DEF RgsdInv, RacedRight
<1>2. counters["durations"] \in Nat /\ counters["rounds"] \in Nat
  BY DEF RgsdInv, Types, Metrics
<1> QED
  BY <1>1, <1>2 DEF RgsdInv, RacedRight

LEMMA ReadMetricInv ==
  ASSUME RgsdInv, NEW s \in Scrapes, ReadMetric(s)
  PROVE  RgsdInv'
<1> USE DEF RgsdInv
<1> DEFINE m == ScrapeOrder[scrape[s].at]
<1>1. /\ scrape[s].at \in {1, 2} /\ m \in Metrics
      /\ scrape' = [scrape EXCEPT ![s].at = @ + 1, ![s].read[m] = counters[m]]
      /\ UNCHANGED <<server, cut, requestVars, moneyVars, runVars, shown, counters>>
  BY OrderOfReads DEF ReadMetric, Metrics
<1>2. scrape[s] \in Scraping /\ counters[m] \in Nat /\ scrape \in [Scrapes -> Scraping]
  BY <1>1 DEF Types
<1>3. /\ scrape'[s].at = scrape[s].at + 1
      /\ scrape'[s].read = [scrape[s].read EXCEPT ![m] = counters[m]]
      /\ scrape'[s].read \in [Metrics -> Nat] /\ scrape'[s] \in Scraping
      /\ \A x \in Scrapes \ {s} : scrape'[x] = scrape[x]
  <2> HIDE DEF m
  <2>1. scrape'[s] = [scrape[s] EXCEPT !.at = scrape[s].at + 1,
                                       !.read = [scrape[s].read EXCEPT ![m] = counters[m]]]
    BY <1>1, <1>2 DEF Scraping
  <2>2. scrape[s].read \in [Metrics -> Nat] /\ scrape[s].at \in {1, 2} /\ scrape[s].at + 1 \in 0..3
    BY <1>1, <1>2 DEF Scraping
  <2>3. /\ scrape'[s].at = scrape[s].at + 1
        /\ scrape'[s].read = [scrape[s].read EXCEPT ![m] = counters[m]]
    BY <1>2, <2>1 DEF Scraping
  <2>4. [scrape[s].read EXCEPT ![m] = counters[m]] \in [Metrics -> Nat]
    BY <1>1, <1>2, <2>2
  <2>5. scrape'[s] \in Scraping
    BY <1>2, <2>1, <2>2, <2>4 DEF Scraping
  <2>6. \A x \in Scrapes \ {s} : scrape'[x] = scrape[x]
    BY <1>1, <1>2
  <2> QED
    BY <2>3, <2>4, <2>5, <2>6
<1>4. scrape' \in [Scrapes -> Scraping]
  BY <1>1, <1>2, <1>3
<1>5. ScrapeRight(s)'
  <2>1. CASE scrape[s].at = 1
    <3>1. scrape'[s].read["durations"] = counters["durations"] /\ scrape'[s].at = 2
      BY <1>2, <1>3, <2>1, OrderOfReads DEF Scraping, Metrics
    <3> QED
      BY <1>1, <3>1, RoundsAhead DEF ScrapeRight
  <2>2. CASE scrape[s].at = 2
    <3>1. /\ scrape'[s].read["durations"] = scrape[s].read["durations"]
          /\ scrape'[s].read["rounds"] = counters["rounds"] /\ scrape'[s].at = 3
      BY <1>2, <1>3, <2>2, OrderOfReads DEF Scraping, Metrics
    <3> QED
      BY <2>2, <3>1 DEF ScrapesRight, ScrapeRight
  <2> QED
    BY <1>1, <2>1, <2>2
<1>6. ScrapesRight'
  BY <1>1, <1>3, <1>5 DEF ScrapesRight, ScrapeRight
<1> QED
  BY <1>1, <1>4, <1>6, ScrapeFrame
-----------------------------------------------------------------------------
LEMMA NextInv == RgsdInv /\ [Next]_vars => RgsdInv'
<1> SUFFICES ASSUME RgsdInv, [Next]_vars PROVE RgsdInv'
  OBVIOUS
<1>1. CASE Steps
  BY <1>1, BetStepInv, StartRunInv, AnswerRunInv, WorkStepInv, ReadStepInv DEF Steps
<1>2. CASE \E r \in Requests : Accept(r)
  BY <1>2, AcceptBet, AcceptRun, AcceptRead DEF Requests
<1>3. CASE \E s \in Scrapes : StartScrape(s) \/ ReadMetric(s)
  BY <1>3, StartScrapeInv, ReadMetricInv
<1>4. CASE MainReturns
  BY <1>4, EndsInv DEF MainReturns
<1>5. CASE UNCHANGED vars
  <2>1. scrape' = scrape /\ UNCHANGED <<server, cut, requestVars, moneyVars, runVars, shown, counters>>
    BY <1>5 DEF vars
  <2>2. scrape' \in [Scrapes -> Scraping] /\ ScrapesRight'
    BY <2>1 DEF RgsdInv, Types, ScrapesRight, ScrapeRight
  <2> QED
    BY <2>1, <2>2, ScrapeFrame
<1> QED
  BY <1>1, <1>2, <1>3, <1>4, <1>5 DEF Next

\* The invariant all results below rest on.
THEOREM Invariance == Spec => []RgsdInv
  BY InitInv, NextInv, PTL DEF Spec

\* A bet is in one place at most: the runs that have taken it are none or one, and
\* neither when it waits or has a result.
LEMMA OnePlace ==
  ASSUME RgsdInv, NEW b \in Bets
  PROVE  Cardinality({r \in Runs : b \in taken[r]}) + (IF b \in queue THEN 1 ELSE 0)
           + (IF result[b] # "none" THEN 1 ELSE 0) <= 1
<1> DEFINE at == {r \in Runs : b \in taken[r]}
<1>1. PlacedOnce(b)
  BY DEF RgsdInv, BetsRight
<1>2. CASE at = {}
  <2>1. Cardinality(at) = 0
    BY <1>2, FS_EmptySet
  <2> QED
    BY <1>1, <2>1 DEF PlacedOnce
<1>3. CASE at # {}
  <2>1. PICK r \in at : TRUE
    BY <1>3
  <2>2. at = {r} /\ b \notin queue /\ result[b] = "none"
    BY <1>1, <2>1 DEF PlacedOnce
  <2>3. Cardinality(at) = 1
    BY <2>2, FS_Singleton
  <2> QED
    BY <2>2, <2>3
<1> QED
  BY <1>2, <1>3

\* Every variable keeps its type, and a bet waits, or is in one run, or is
\* settled, and not twice (Take empties the queue as it takes it).
THEOREM TypeCorrect == Spec => []TypeOK
<1>1. RgsdInv => TypeOK
  <2> SUFFICES ASSUME RgsdInv PROVE TypeOK
    OBVIOUS
  <2>1. \A b \in Bets : b \in kept \/ b \in credited \/ b \in queue => b \in held
    BY DEF RgsdInv, BetsRight, BetRight, Entered, Queued
  <2>2. \A r \in Runs : \A b \in taken[r] : b \in held
    BY DEF RgsdInv, Types, BetsRight, BetRight, Entered, Queued
  <2>3. taken \in [Runs -> SUBSET held]
    BY <2>2 DEF RgsdInv, Types
  <2>4. kept \subseteq held /\ credited \subseteq held /\ queue \subseteq held
    BY <2>1 DEF RgsdInv, Types
  <2>5. \A s \in Scrapes : scrape[s].read \in [Metrics -> Nat] /\ scrape[s].at \in 0..Len(ScrapeOrder) + 1
    BY OrderOfReads DEF RgsdInv, Types, Scraping
  <2> QED
    BY <2>3, <2>4, <2>5, OnePlace DEF TypeOK, RgsdInv, Types, Points, Statuses, Stages, Views
<1> QED
  BY <1>1, Invariance, PTL

\* A finished scrape shows no more durations than rounds, however many rounds
\* went on between its two reads (instrumentedSim, metrics.Handler).
THEOREM ScrapesConsistent == Spec => []ScrapesAddUp
<1>1. RgsdInv => ScrapesAddUp
  BY OrderOfReads DEF RgsdInv, Types, Scraping, ScrapesRight, ScrapeRight, ScrapesAddUp
<1> QED
  BY <1>1, Invariance, PTL

\* The status tells the bettor where the stake is, for good (placeBet,
\* placeRoundBet, the writers of errors).
THEOREM AnswersTell == Spec => []AnswerTellsStake
<1>1. RgsdInv => AnswerTellsStake
  BY DEF RgsdInv, BetsRight, BetRight, CountsRight, CountRight, Entered, Refusals, AnswerTellsStake
<1> QED
  BY <1>1, Invariance, PTL

\* A read never shows a prize before it was paid, nor a bet before its stake was
\* taken (writeSessionResponse reads the state first and the balance later).
THEOREM WinsArePaid == Spec => []ShownWinIsPaid
<1>1. RgsdInv => ShownWinIsPaid
  BY DEF RgsdInv, ReadsRight, ReadRight, ShownWinIsPaid
<1> QED
  BY <1>1, Invariance, PTL
=============================================================================
