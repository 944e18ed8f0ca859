---------------------------- MODULE RoundSettle -----------------------------
(***************************************************************************)
(* A round and the settlement of its pot: what RunNextRound and            *)
(* runOneRound do with a round.Round and with rtp.Settle, for any order of *)
(* the calls, any buy-ins and any winner the simulation may report.        *)
(***************************************************************************)
EXTENDS Round, Rtp, Sums

CONSTANTS
  BuyIns,        \* the buy-ins a marble may have paid, a subset of Word
  Winners,       \* the winners a simulation may report
  MaxBps         \* bound: the largest RTP tried, above BasisPoints

ASSUME SettleAssumption == BuyIns \subseteq Word /\ MaxBps \in Nat

VARIABLES
  buyIns,        \* what the participants have paid, in join order
  bps,           \* the RTP of the call of Settle
  answer         \* NotCalled, then what Settle returned

vars == <<roundVars, buyIns, bps, answer>>

NotCalled == [err |-> "not called", prize |-> 0, houseCut |-> 0]

Init == New /\ buyIns = <<>> /\ bps \in 0..MaxBps /\ answer = NotCalled

Join(name, buyIn) ==
  /\ AddParticipant(name)
  /\ buyIns' = Append(buyIns, buyIn)
  /\ UNCHANGED <<bps, answer>>

Step(now) ==
  /\ OpenBuyIn(now) \/ StartRace(now) \/ \E w \in Winners : FinishRace(w, now)
  /\ UNCHANGED <<buyIns, bps, answer>>

\* The callers settle once RevealedSeed has returned the seed.
Call ==
  /\ SeedRevealed
  /\ answer = NotCalled
  /\ answer' = Settle(bps, buyIns, result)
  /\ UNCHANGED <<roundVars, buyIns, bps>>

Next ==
  \/ \E name \in Names, buyIn \in BuyIns : Join(name, buyIn)
  \/ \E now \in Clock : Step(now)
  \/ Call

Spec == Init /\ [][Next]_vars
-----------------------------------------------------------------------------
\* The phases and the clock readings are what they should be, nobody joins a
\* full round, and a participant's marble is its place in the join order.
TypeOK ==
  /\ phase \in {"WAITING", "BUY_IN", "RACING", "SETTLE"}
  /\ phaseStart \in Clock
  /\ participants \in Seq([index : Nat, name : Names])
  /\ Len(participants) <= MaxMarbles
  /\ \A i \in 1..Len(participants) : participants[i].index = i - 1
  /\ result \in Winners \cup {0}
  /\ hasResult \in BOOLEAN

\* The seed is revealed only when the race has been run and its winner is
\* recorded, and no winner is recorded before the field is locked, whatever calls
\* are made and whatever their clocks say (RevealedSeed, FinishRace).
SeedAfterResult ==
  /\ SeedRevealed => hasResult
  /\ hasResult => phase \in {"RACING", "SETTLE"}

\* A round goes through its phases one by one and never back in time, its field
\* does not change once the race has started, and nothing changes once the seed
\* is known (advance, AddParticipant, FinishRace).
RoundOnlyAdvances ==
  [][ /\ phaseStart <= phaseStart'
      /\ phase' # phase =>
           <<phase, phase'>> \in {<<"WAITING", "BUY_IN">>, <<"BUY_IN", "RACING">>, <<"RACING", "SETTLE">>}
      /\ phase \in {"RACING", "SETTLE"} => participants' = participants
      /\ SeedRevealed => UNCHANGED roundVars ]_roundVars

Answered == answer.err = "nil"

\* The exact sum of the buy-ins, and not by the loop of the code.
ExactPot == Sum(buyIns)

\* What rtp.go promises of an answer: prize + houseCut is the pot, the prize
\* is the pot's RTP share rounded down, and neither has wrapped around.
SplitsThePot ==
  Answered =>
    /\ answer.prize + answer.houseCut = ExactPot
    /\ answer.prize * BasisPoints <= ExactPot * bps
    /\ ExactPot * bps < (answer.prize + 1) * BasisPoints

\* Settle refuses a well-formed call exactly when the pot, or the product
\* the prize is computed from, does not fit a uint64: the overflow guards
\* neither let a wrapped value through nor reject one that fits.
RefusesOnlyOverflow ==
  answer # NotCalled /\ bps <= BasisPoints /\ result \in 0..(Len(buyIns) - 1) =>
    /\ answer.err = "ErrPotOverflow" <=> ExactPot > MaxUint64
    /\ answer.err = "ErrPrizeOverflow" <=>
         ExactPot <= MaxUint64 /\ ExactPot * bps > MaxUint64

\* rtp.Settle agrees with exact arithmetic on what it answers and on what it
\* refuses.
SettleIsExact == SplitsThePot /\ RefusesOnlyOverflow

\* A round whose winner is not one of its marbles is never paid out: Settle is
\* what keeps such a result out of the store, for FinishRace takes any winner.
PaysOneOfTheField == Answered => \E i \in 1..Len(participants) : participants[i].index = result
=============================================================================
