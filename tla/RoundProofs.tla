---------------------------- MODULE RoundProofs -----------------------------
(***************************************************************************)
(* Proofs about RoundSettle, for every cap, every set of names, every set  *)
(* of clock readings, every RTP and every word size.                       *)
(***************************************************************************)
EXTENDS RoundSettle, ArithmeticProofs

\* What the settled pot has to do with the field: one buy-in per participant,
\* no answer before the seed is known, and then the one that Settle gives.
CallersFollow ==
  /\ buyIns \in Seq(BuyIns)
  /\ Len(buyIns) = Len(participants)
  /\ answer # NotCalled => SeedRevealed
  /\ bps \in Nat
  /\ answer # NotCalled => answer = Settle(bps, buyIns, result)

RoundInv == TypeOK /\ SeedAfterResult /\ CallersFollow /\ PaysOneOfTheField

LEMMA InitInv == Init => RoundInv
<1> SUFFICES ASSUME Init PROVE RoundInv
  OBVIOUS
<1>1. TypeOK
  <2>1. participants = <<>> /\ phase = "WAITING" /\ phaseStart \in Clock /\ result = 0 /\ hasResult = FALSE
    BY DEF Init, New
  <2>2. participants \in Seq([index : Nat, name : Names]) /\ Len(participants) = 0
    BY <2>1
  <2>3. Len(participants) <= MaxMarbles
    BY <2>2, RoundAssumption
  <2>4. \A i \in 1..Len(participants) : participants[i].index = i - 1
    BY <2>2
  <2> QED
    BY <2>1, <2>2, <2>3, <2>4 DEF TypeOK
<1>2. SeedAfterResult /\ CallersFollow
  BY SettleAssumption DEF Init, New, SeedAfterResult, SeedRevealed, CallersFollow
<1>3. PaysOneOfTheField
  BY DEF Init, NotCalled, PaysOneOfTheField, Answered
<1> QED
  BY <1>1, <1>2, <1>3 DEF RoundInv

\* A call of the round that is no call of AddParticipant.
LEMMA StepInv ==
  ASSUME RoundInv, NEW now \in Clock, Step(now)
  PROVE  RoundInv'
<1>1. TypeOK'
  BY DEF RoundInv, TypeOK, Step, OpenBuyIn, StartRace, FinishRace, Advance
<1>2. SeedAfterResult'
  BY DEF RoundInv, TypeOK, SeedAfterResult, SeedRevealed, Step, OpenBuyIn, StartRace, FinishRace,
         Advance
<1>3. answer = NotCalled
  BY DEF RoundInv, CallersFollow, SeedRevealed, Step, OpenBuyIn, StartRace, FinishRace
<1>4. CallersFollow' /\ PaysOneOfTheField'
  BY <1>3
  DEF RoundInv, CallersFollow, PaysOneOfTheField, Answered, NotCalled, Step, OpenBuyIn, StartRace,
      FinishRace
<1> QED
  BY <1>1, <1>2, <1>4 DEF RoundInv

LEMMA JoinInv ==
  ASSUME RoundInv, NEW name \in Names, NEW buyIn \in BuyIns, Join(name, buyIn)
  PROVE  RoundInv'
<1>1. participants' = Append(participants, [index |-> Len(participants), name |-> name])
  BY DEF Join, AddParticipant
<1>2. Len(participants') = Len(participants) + 1 /\ Len(participants) \in Nat
  BY <1>1 DEF RoundInv, TypeOK
<1>3. participants' \in Seq([index : Nat, name : Names])
  BY <1>1, <1>2 DEF RoundInv, TypeOK
<1>4. \A i \in 1..Len(participants') : participants'[i].index = i - 1
  BY <1>1, <1>2 DEF RoundInv, TypeOK
<1>5. TypeOK'
  BY <1>2, <1>3, <1>4, RoundAssumption DEF RoundInv, TypeOK, Join, AddParticipant
<1>6. SeedAfterResult'
  BY DEF RoundInv, SeedAfterResult, SeedRevealed, Join, AddParticipant
<1>7. answer = NotCalled
  BY DEF RoundInv, CallersFollow, SeedRevealed, Join, AddParticipant
<1>8. CallersFollow'
  BY <1>2, <1>7 DEF RoundInv, CallersFollow, Join, AddParticipant
<1>9. PaysOneOfTheField'
  BY <1>7 DEF PaysOneOfTheField, Answered, NotCalled, Join
<1> QED
  BY <1>5, <1>6, <1>8, <1>9 DEF RoundInv

LEMMA CallInv ==
  ASSUME RoundInv, Call
  PROVE  RoundInv'
<1>1. TypeOK' /\ SeedAfterResult' /\ CallersFollow'
  BY DEF RoundInv, Call, roundVars, TypeOK, SeedAfterResult, SeedRevealed, CallersFollow
<1>2. ASSUME answer'.err = "nil"
      PROVE  \E i \in 1..Len(participants) : participants[i].index = result
  <2>1. SettleError(bps, buyIns, result) = "nil"
    BY <1>2 DEF Call, Settle
  <2>2. result \in 0..(Len(buyIns) - 1)
    BY <2>1 DEF SettleError, OutsideField
  <2>3. result + 1 \in 1..Len(participants) /\ participants[result + 1].index = result
    BY <2>2 DEF RoundInv, TypeOK, CallersFollow
  <2> QED
    BY <2>3
<1>3. PaysOneOfTheField'
  BY <1>2 DEF PaysOneOfTheField, Answered, Call, roundVars
<1> QED
  BY <1>1, <1>3 DEF RoundInv

LEMMA NextInv == RoundInv /\ [Next]_vars => RoundInv'
<1> SUFFICES ASSUME RoundInv, [Next]_vars
             PROVE  RoundInv'
  OBVIOUS
<1>1. ASSUME NEW name \in Names, NEW buyIn \in BuyIns, Join(name, buyIn)
      PROVE  RoundInv'
  BY <1>1, JoinInv
<1>2. ASSUME NEW now \in Clock, Step(now)
      PROVE  RoundInv'
  BY <1>2, StepInv
<1>3. ASSUME Call
      PROVE  RoundInv'
  BY <1>3, CallInv
<1>4. CASE UNCHANGED vars
  BY <1>4
  DEF vars, roundVars, RoundInv, TypeOK, SeedAfterResult, SeedRevealed, CallersFollow,
      PaysOneOfTheField, Answered
<1> QED
  BY <1>1, <1>2, <1>3, <1>4 DEF Next

LEMMA Invariance == Spec => []RoundInv
  BY InitInv, NextInv, PTL DEF Spec

\* TypeOK, for every cap and every order of calls: nobody joins a full round and
\* a participant's marble is its place in the join order (AddParticipant).
THEOREM TypeCorrect == Spec => []TypeOK
  BY Invariance, PTL DEF RoundInv

\* The seed is revealed only when the race has been run and its winner recorded
\* (RevealedSeed, FinishRace).
THEOREM SeedIsSealed == Spec => []SeedAfterResult
  BY Invariance, PTL DEF RoundInv

\* Settle pays no one who is not in the field, however it does its arithmetic
\* (SettleError, before FinishRace's winner is used).
THEOREM WinnerHasSeat == Spec => []PaysOneOfTheField
  BY Invariance, PTL DEF RoundInv

\* Settle answers what exact arithmetic answers, and refuses for overflow what
\* does not fit a word and nothing else, for any buy-ins, any RTP and any word
\* size (the two overflow guards of Settle).
THEOREM ArithmeticIsExact == Spec => []SettleIsExact
<1>1. RoundInv => SettleIsExact
  <2> SUFFICES ASSUME RoundInv PROVE SettleIsExact
    OBVIOUS
  <2>1. CASE answer = NotCalled
    BY <2>1 DEF SettleIsExact, SplitsThePot, RefusesOnlyOverflow, Answered, NotCalled
  <2>2. CASE answer # NotCalled
    <3>1. buyIns \in Seq(Word) /\ bps \in Nat /\ answer = Settle(bps, buyIns, result)
      BY <2>2, SettleAssumption DEF RoundInv, CallersFollow
    <3>2. ExactAnswer(answer, bps, buyIns, result)
      BY <3>1, SettleExact
    <3> QED
      BY <3>2
      DEF SettleIsExact, SplitsThePot, RefusesOnlyOverflow, Answered, ExactPot, ExactAnswer
  <2> QED
    BY <2>1, <2>2
<1> QED
  BY <1>1, Invariance, PTL

\* One step of a round goes forward, in its phases and in time.
LEMMA StepAdvances ==
  ASSUME TypeOK, [Next]_vars
  PROVE  [ /\ phaseStart <= phaseStart'
           /\ phase' # phase =>
                <<phase, phase'>> \in {<<"WAITING", "BUY_IN">>, <<"BUY_IN", "RACING">>, <<"RACING", "SETTLE">>}
           /\ phase \in {"RACING", "SETTLE"} => participants' = participants
           /\ SeedRevealed => UNCHANGED roundVars ]_roundVars
<1>0. phaseStart \in Nat
  BY RoundAssumption DEF TypeOK
<1>1. ASSUME NEW name \in Names, NEW buyIn \in BuyIns, Join(name, buyIn)
      PROVE  phase = "BUY_IN" /\ phase' = phase /\ phaseStart' = phaseStart
  BY <1>1 DEF Join, AddParticipant
<1>2. ASSUME NEW now \in Clock, Step(now)
      PROVE  /\ phaseStart <= phaseStart'
             /\ phase' # phase =>
                  <<phase, phase'>> \in {<<"WAITING", "BUY_IN">>, <<"BUY_IN", "RACING">>, <<"RACING", "SETTLE">>}
             /\ participants' = participants
             /\ ~SeedRevealed
  <2>1. now \in Nat
    BY RoundAssumption
  <2> QED
    BY <1>0, <1>2, <2>1 DEF Step, OpenBuyIn, StartRace, FinishRace, Advance, SeedRevealed
<1>3. ASSUME Call \/ UNCHANGED vars
      PROVE  UNCHANGED roundVars
  BY <1>3 DEF Call, vars
<1> QED
  BY <1>0, <1>1, <1>2, <1>3 DEF Next, SeedRevealed, roundVars

\* A round goes through its phases one by one and never back in time, its field
\* is locked once the race has started, and nothing changes once the seed is known
\* (advance, AddParticipant, FinishRace).
THEOREM NeverGoesBack == Spec => RoundOnlyAdvances
  BY Invariance, StepAdvances, PTL DEF Spec, RoundInv, RoundOnlyAdvances
=============================================================================
