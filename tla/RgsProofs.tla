----------------------------- MODULE RgsProofs ------------------------------
(***************************************************************************)
(* Proofs about RgsSafety, the manager of sessions and of rounds, for      *)
(* every value of the constants, in three parts, each on the invariants of *)
(* the one before:                                                         *)
(*   - types, and where a live bet is: Ownership, with TypeInv, implies    *)
(*     HeldOnce and RunNeverRefused;                                       *)
(*   - which bets a round settles: a round is minted, registered and taken *)
(*     once, its list of bets is the accepted bets that name it, and one   *)
(*     manifest at most is saved for it;                                   *)
(*   - what a bet is paid: which transactions of a bet the wallet has      *)
(*     applied at each point of its life, what the outcomes of a run say,  *)
(*     and that the manager implements BetLedger.                          *)
(***************************************************************************)
EXTENDS RgsSafety, ArithmeticProofs
-----------------------------------------------------------------------------
(* Part 1: types, and where a live bet is.                                  *)

\* Unsigned arithmetic always leaves a word.
LEMMA WrapIsWord == \A n \in Int : Wrap(n) \in Word
  BY MaxUint64Assumption DEF Wrap, Word

\* int64(a) and -int64(a) are integers.
LEMMA Int64Type == \A a \in Word : ToInt64(a) \in Int /\ NegInt64(a) \in Int
  BY MaxUint64Assumption DEF ToInt64, NegInt64, MaxInt64, Word

\* Recording a transaction keeps the ledger a map from transaction ids.
LEMMA RecordType ==
  ASSUME NEW tx \in TxIds, NEW amount \in Int,
         DOMAIN applied \subseteq TxIds, applied \in [DOMAIN applied -> Int],
         Record(tx, amount)
  PROVE  DOMAIN applied' \subseteq TxIds /\ applied' \in [DOMAIN applied' -> Int]
  BY DEF Record

\* The prize of a full field is a word, by the loop over its stakes.
LEMMA PrizeIsWord == Prize \in Word
<1>1. Stakes \in Seq(Word)
  BY ConfigAssumption DEF Stakes
<1> QED
  BY <1>1, ConfigAssumption, PotType, PrizeType DEF Prize

\* A call of Debit keeps the wallet's types.
LEMMA DebitType ==
  ASSUME WalletTypeOK, NEW p, NEW a \in Word, NEW tx \in TxIds, Debit(p, a, tx)
  PROVE  WalletTypeOK'
<1>1. CASE UNCHANGED walletVars
  BY <1>1 DEF walletVars, WalletTypeOK
<1>2. CASE /\ balances' = [balances EXCEPT ![p] = Wrap(@ - a)]
           /\ Record(tx, NegInt64(a))
  <2>1. p \in DOMAIN Opening => Wrap(balances[p] - a) \in Word
    BY WrapIsWord, MaxUint64Assumption DEF WalletTypeOK, Word
  <2>2. balances' \in [DOMAIN Opening -> Word]
    BY <1>2, <2>1 DEF WalletTypeOK
  <2>3. DOMAIN applied' \subseteq TxIds /\ applied' \in [DOMAIN applied' -> Int]
    BY <1>2, RecordType, Int64Type DEF WalletTypeOK
  <2> QED BY <2>2, <2>3 DEF WalletTypeOK
<1> QED BY <1>1, <1>2 DEF Debit

\* A call of Credit keeps the wallet's types.
LEMMA CreditType ==
  ASSUME WalletTypeOK, NEW p, NEW a \in Word, NEW tx \in TxIds, Credit(p, a, tx)
  PROVE  WalletTypeOK'
<1>1. CASE UNCHANGED walletVars
  BY <1>1 DEF walletVars, WalletTypeOK
<1>2. CASE /\ balances' = [balances EXCEPT ![p] = Wrap(@ + a)]
           /\ Record(tx, ToInt64(a))
  <2>1. p \in DOMAIN Opening => Wrap(balances[p] + a) \in Word
    BY WrapIsWord, MaxUint64Assumption DEF WalletTypeOK, Word
  <2>2. balances' \in [DOMAIN Opening -> Word]
    BY <1>2, <2>1 DEF WalletTypeOK
  <2>3. DOMAIN applied' \subseteq TxIds /\ applied' \in [DOMAIN applied' -> Int]
    BY <1>2, RecordType, Int64Type DEF WalletTypeOK
  <2> QED BY <2>2, <2>3 DEF WalletTypeOK
<1> QED BY <1>1, <1>2 DEF Credit

\* A manager that has just been built has every field typed and no run under way.
LEMMA InitTypeInv == Init => TypeInv
<1> SUFFICES ASSUME Init PROVE TypeInv
  OBVIOUS
<1> USE RequestAssumption, CallsAssumption, ConfigAssumption DEF Init
<1>1. SessionTypeOK
  <2>1. (CHOOSE p \in Players : TRUE) \in Players
    BY DEF ConfigAssumption
  <2>2. NoResult \in Outcome
    BY MaxUint64Assumption DEF Outcome, NoResult, Word
  <2>3. -1 \in -1..(MaxMarbles - 1)
    OBVIOUS
  <2> QED BY <2>1, <2>2, <2>3 DEF SessionTypeOK, SessionInit, SessionStates
<1>2. WalletTypeOK
  BY DEF WalletTypeOK, WalletInit, ConfigAssumption
<1>3. QueueTypeOK
  BY DEF QueueTypeOK
<1>4. CallsTypeOK
  BY DEF CallsTypeOK, BetPoints, RoundBetPoints
<1>5. RunsTypeOK
  BY DEF RunsTypeOK, RunPoints, Rounds, ConfigAssumption
<1>6. FieldFits
  BY DEF FieldFits
<1> QED BY <1>1, <1>2, <1>3, <1>4, <1>5, <1>6 DEF TypeInv, TypeOK

USE DEF TypeOK, SessionTypeOK, QueueTypeOK, CallsTypeOK, RunsTypeOK, FieldFits,
        BetPoints, RoundBetPoints, RunPoints, SessionStates,
        sessionVars, queueVars, trackVars, betVars, roundBetVars, runVars

\* OpenSession keeps the types: the new session is OPEN and belongs to a player.
LEMMA OpenSessionType == ASSUME TypeInv, NEW s \in Sessions, OpenSession(s) PROVE TypeInv'
  BY DEF TypeInv, OpenSession, Open, WalletTypeOK, walletVars

\* CloseSession keeps the types: it only moves the state of one session.
LEMMA CloseSessionType == ASSUME TypeInv, NEW s \in Sessions, CloseSession(s) PROVE TypeInv'
  BY DEF TypeInv, CloseSession, Close, WalletTypeOK, walletVars

-----------------------------------------------------------------------------
(* PlaceBet.                                                               *)

\* The arguments of a bet request, and the ids of its transactions.
LEMMA BetRequestType ==
  ASSUME TypeInv, NEW c \in BetCalls
  PROVE  /\ cReq[c].session \in Sessions /\ cReq[c].amount \in Word
         /\ \A k \in {"bet", "credit", "refund"} : <<c, k>> \in TxIds
  BY RequestAssumption DEF TypeInv, TxIds

\* The debit of PlaceBet keeps the types, whatever the wallet answers from.
LEMMA DebitStakeType == ASSUME TypeInv, NEW c \in BetCalls, DebitStake(c) PROVE TypeInv'
<1>1. WalletTypeOK'
  BY BetRequestType, DebitType DEF DebitStake, TypeInv
<1> QED BY <1>1 DEF TypeInv, DebitStake, BetMoves

\* A bet refused before the debit changes nothing but its own control point.
LEMMA RefuseBetType == ASSUME TypeInv, NEW c \in BetCalls, RefuseBet(c) PROVE TypeInv'
  BY DEF TypeInv, RefuseBet, BetMoves, WalletTypeOK, walletVars

\* Session.PlaceBet keeps the types: the session holds the id of a bet.
LEMMA AttachToSessionType ==
  ASSUME TypeInv, NEW c \in BetCalls, AttachToSession(c) PROVE TypeInv'
<1>1. SessionTypeOK'
  <2>1. -1 \in -1..(MaxMarbles - 1)
    BY ConfigAssumption
  <2> QED BY <2>1, BetRequestType DEF TypeInv, AttachToSession, AttachBet
<1> QED BY <1>1 DEF TypeInv, AttachToSession, BetMoves, WalletTypeOK, walletVars

\* A session that refuses a debited bet is left as it was.
LEMMA RejectAttachType == ASSUME TypeInv, NEW c \in BetCalls, RejectAttach(c) PROVE TypeInv'
  BY DEF TypeInv, RejectAttach, BetMoves, WalletTypeOK, walletVars

\* The refund of PlaceBet keeps the types.
LEMMA RefundStakeType == ASSUME TypeInv, NEW c \in BetCalls, RefundStake(c) PROVE TypeInv'
<1>1. WalletTypeOK'
  BY BetRequestType, CreditType DEF RefundStake, TypeInv
<1> QED BY <1>1 DEF TypeInv, RefundStake, BetMoves

\* A refund whose error is discarded keeps the types.
LEMMA LoseRefundType == ASSUME TypeInv, NEW c \in BetCalls, LoseRefund(c) PROVE TypeInv'
  BY DEF TypeInv, LoseRefund, BetMoves, WalletTypeOK, walletVars

\* Appending to Manager.pending keeps it a queue of sessions.
LEMMA EnqueueBetType == ASSUME TypeInv, NEW c \in BetCalls, EnqueueBet(c) PROVE TypeInv'
<1>1. pending' \in Seq(Sessions)
  <2>1. pending \in Seq(Sessions) /\ cReq[c].session \in Sessions
    BY BetRequestType DEF TypeInv
  <2> QED BY <2>1 DEF EnqueueBet
<1> QED BY <1>1 DEF TypeInv, EnqueueBet, BetMoves, WalletTypeOK, walletVars
-----------------------------------------------------------------------------
(* GenerateRoundSpec.                                                      *)

\* SelectTrack picks an entry of the pool.
LEMMA TrackType ==
  ASSUME NEW i \in 1..Len(TrackPool), NEW previous
  PROVE  SelectTrack(i, previous) \in Int
<1>1. TrackPool \in Seq(Nat) /\ Len(TrackPool) \in Nat /\ Len(TrackPool) > 0
  BY ConfigAssumption
<1>2. \A j \in 1..Len(TrackPool) : TrackPool[j] \in Nat
  BY <1>1
<1>3. \A m \in Nat : m > 0 => i % m \in 0..(m - 1)
  <2>1. i \in Int
    BY <1>1
  <2> QED BY <2>1
<1>4. (i % Len(TrackPool)) + 1 \in 1..Len(TrackPool)
  BY <1>1, <1>3
<1> QED BY <1>2, <1>4 DEF SelectTrack

\* GenerateRoundSpec picks a track of the pool, so track and prevTrack stay typed.
LEMMA MintSpecType == ASSUME TypeInv, NEW g \in StartCalls, MintSpec(g) PROVE TypeInv'
<1>1. PICK i \in 1..Len(TrackPool) :
               /\ track' = [track EXCEPT ![g] = SelectTrack(i, prevTrack)]
               /\ prevTrack' = SelectTrack(i, prevTrack)
  BY DEF MintSpec
<1>2. track' \in [Rounds -> Int] /\ prevTrack' \in Int
  <2>1. SelectTrack(i, prevTrack) \in Int
    BY TrackType
  <2> QED BY <1>1, <2>1 DEF TypeInv
<1> QED BY <1>2 DEF TypeInv, MintSpec, WalletTypeOK, walletVars

\* Registering a round keeps the map a map from rounds.
LEMMA RememberType ==
  ASSUME NEW map, NEW r \in Rounds, DOMAIN map \subseteq Rounds,
         map \in [DOMAIN map -> Seq(RoundBetCalls)]
  PROVE  /\ DOMAIN Remember(map, r) \subseteq Rounds
         /\ Remember(map, r) \in [DOMAIN Remember(map, r) -> Seq(RoundBetCalls)]
  BY DEF Remember

\* Registering a minted round keeps the FIFO and the map of round bets typed.
LEMMA RegisterSpecType ==
  ASSUME TypeInv, NEW g \in StartCalls, RegisterSpec(g) PROVE TypeInv'
<1>1. DOMAIN roundBets' \subseteq Rounds
      /\ roundBets' \in [DOMAIN roundBets' -> Seq(RoundBetCalls)]
  BY RememberType DEF TypeInv, RegisterSpec, Rounds
<1>2. pendingRounds' \in Seq(StartCalls)
  BY DEF TypeInv, RegisterSpec
<1> QED BY <1>1, <1>2 DEF TypeInv, RegisterSpec, WalletTypeOK, walletVars
-----------------------------------------------------------------------------
(* PlaceBetOnRound.                                                        *)

\* The arguments of a round bet, the amounts they convert to, its transactions.
LEMMA RoundBetRequestType ==
  ASSUME TypeInv, NEW c \in RoundBetCalls
  PROVE  /\ bReq[c].round \in Rounds
         /\ DebitUnits(bReq[c].amount) \in Word
         /\ PayoutUnits(bReq[c].amount) \in Word
         /\ \A k \in {"bet", "credit", "refund"} : <<c, k>> \in TxIds
<1>1. bReq[c].amount \in Int /\ bReq[c].round \in Rounds
  BY RequestAssumption DEF TypeInv
<1>2. \A a \in Int : a \div SubUnits \in Int
  BY ConfigAssumption
<1>3. bReq[c].amount * PayoutMultiplier \in Int
  BY <1>1, ConfigAssumption
<1> QED BY <1>1, <1>2, <1>3, WrapIsWord DEF DebitUnits, PayoutUnits, TxIds

\* Validating a round bet keeps the types.
LEMMA FindRoundType == ASSUME TypeInv, NEW c \in RoundBetCalls, FindRound(c) PROVE TypeInv'
  BY DEF TypeInv, FindRound, RoundBetMoves, WalletTypeOK, walletVars

\* A round bet refused before the debit keeps the types.
LEMMA RefuseRoundBetType ==
  ASSUME TypeInv, NEW c \in RoundBetCalls, RefuseRoundBet(c) PROVE TypeInv'
  BY DEF TypeInv, RefuseRoundBet, RoundBetMoves, WalletTypeOK, walletVars

\* The debit of PlaceBetOnRound keeps the types.
LEMMA DebitRoundBetType ==
  ASSUME TypeInv, NEW c \in RoundBetCalls, DebitRoundBet(c) PROVE TypeInv'
<1>1. WalletTypeOK'
  BY RoundBetRequestType, DebitType DEF DebitRoundBet, TypeInv
<1> QED BY <1>1 DEF TypeInv, DebitRoundBet, RoundBetMoves

\* A round bet whose debit is refused keeps the types.
LEMMA RefuseRoundDebitType ==
  ASSUME TypeInv, NEW c \in RoundBetCalls, RefuseRoundDebit(c) PROVE TypeInv'
  BY DEF TypeInv, RefuseRoundDebit, RoundBetMoves, WalletTypeOK, walletVars

\* Recording a round bet keeps both copies of the list of bets typed.
LEMMA ConfirmRoundBetType ==
  ASSUME TypeInv, NEW c \in RoundBetCalls, ConfirmRoundBet(c) PROVE TypeInv'
<1> DEFINE r == bReq[c].round
<1>1. prBets' = [prBets EXCEPT ![r] = Append(@, c)]
      /\ roundBets' = [roundBets EXCEPT ![r] = Append(@, c)]
  BY DEF ConfirmRoundBet
<1>2. \A q \in Seq(RoundBetCalls) : Append(q, c) \in Seq(RoundBetCalls)
  OBVIOUS
<1>3. prBets' \in [Rounds -> Seq(RoundBetCalls)]
  BY <1>1, <1>2 DEF TypeInv
<1>4. DOMAIN roundBets' \subseteq Rounds
      /\ roundBets' \in [DOMAIN roundBets' -> Seq(RoundBetCalls)]
  BY <1>1, <1>2 DEF TypeInv
<1> QED BY <1>3, <1>4 DEF TypeInv, ConfirmRoundBet, RoundBetMoves, WalletTypeOK, walletVars

\* Finding the round gone after the debit keeps the types.
LEMMA MissRoundType == ASSUME TypeInv, NEW c \in RoundBetCalls, MissRound(c) PROVE TypeInv'
  BY DEF TypeInv, MissRound, RoundBetMoves, WalletTypeOK, walletVars

\* The refund of PlaceBetOnRound keeps the types.
LEMMA RefundRoundBetType ==
  ASSUME TypeInv, NEW c \in RoundBetCalls, RefundRoundBet(c) PROVE TypeInv'
<1>1. WalletTypeOK'
  BY RoundBetRequestType, CreditType DEF RefundRoundBet, TypeInv
<1> QED BY <1>1 DEF TypeInv, RefundRoundBet, RoundBetMoves

\* A round refund whose error is discarded keeps the types.
LEMMA LoseRoundRefundType ==
  ASSUME TypeInv, NEW c \in RoundBetCalls, LoseRoundRefund(c) PROVE TypeInv'
  BY DEF TypeInv, LoseRoundRefund, RoundBetMoves, WalletTypeOK, walletVars
-----------------------------------------------------------------------------
(* RunNextRound.                                                           *)

\* Taking the queue and the oldest round keeps both queues and the locals typed.
LEMMA TakeQueueType == ASSUME TypeInv, NEW n \in RunCalls, TakeQueue(n) PROVE TypeInv'
<1>1. /\ took' \in [RunCalls -> Seq(Sessions)]
      /\ pending' \in Seq(Sessions)
      /\ rPrev' \in [RunCalls -> Int]
  BY DEF TypeInv, TakeQueue
<1>2. rRound' \in [RunCalls -> Rounds] /\ pendingRounds' \in Seq(StartCalls)
  <2>1. CASE pendingRounds = <<>>
    BY <2>1 DEF TypeInv, TakeQueue
  <2>2. CASE pendingRounds # <<>>
    <3>1. Head(pendingRounds) \in StartCalls /\ Tail(pendingRounds) \in Seq(StartCalls)
      BY <2>2 DEF TypeInv
    <3> QED BY <2>2, <3>1 DEF TypeInv, TakeQueue, Rounds
  <2> QED BY <2>1, <2>2
<1>3. rPc' \in [RunCalls -> RunPoints] /\ rPc'[n] \in {"fresh", "admit"}
      /\ \A m \in RunCalls \ {n} : rPc'[m] = rPc[m] /\ took'[m] = took[m]
  BY DEF TypeInv, TakeQueue, RunMoves
<1>4. FieldFits'
  BY <1>3 DEF TypeInv
<1> QED BY <1>1, <1>2, <1>3, <1>4 DEF TypeInv, TakeQueue, RunMoves, WalletTypeOK, walletVars

\* A round minted by a run has a track of the pool and an empty list of bets.
LEMMA MintFreshType == ASSUME TypeInv, NEW n \in RunCalls, MintFresh(n) PROVE TypeInv'
<1>1. PICK i \in 1..Len(TrackPool) :
               track' = [track EXCEPT ![n] = SelectTrack(i, rPrev[n])]
  BY DEF MintFresh
<1>2. track' \in [Rounds -> Int]
  <2>1. SelectTrack(i, rPrev[n]) \in Int
    BY TrackType
  <2> QED BY <1>1, <2>1 DEF TypeInv
<1>3. DOMAIN roundBets' \subseteq Rounds
      /\ roundBets' \in [DOMAIN roundBets' -> Seq(RoundBetCalls)]
  BY RememberType DEF TypeInv, MintFresh, Rounds
<1> QED BY <1>2, <1>3 DEF TypeInv, MintFresh, RunMoves, WalletTypeOK, walletVars

\* AddParticipant establishes FieldFits: a run past it has a marble for every bettor.
LEMMA AdmitType == ASSUME TypeInv, NEW n \in RunCalls, Admit(n) PROVE TypeInv'
<1>1. Len(took[n]) \in Nat /\ MaxMarbles \in Nat
  BY ConfigAssumption DEF TypeInv
<1>2. FieldFits'
  BY <1>1 DEF TypeInv, Admit, RunMoves
<1> QED BY <1>2 DEF TypeInv, Admit, RunMoves, WalletTypeOK, walletVars

\* AssignMarble hands out an index of the field, because the field fits.
LEMMA LockMarbleType == ASSUME TypeInv, NEW n \in RunCalls, LockMarble(n) PROVE TypeInv'
<1> DEFINE k == assigned[n]
           s == took[n][k + 1]
<1>1. k \in 0..(MaxMarbles - 1) /\ MaxMarbles \in Nat
  BY ConfigAssumption, SMTT(30) DEF TypeInv, LockMarble, RunMoves
<1>2. s \in Sessions
  BY SMTT(30), <1>1 DEF TypeInv, LockMarble
<1>3. sMarble' \in [Sessions -> -1..(MaxMarbles - 1)]
  <2>1. k \in -1..(MaxMarbles - 1)
    BY <1>1
  <2>2. sMarble' = [sMarble EXCEPT ![s] = k]
    BY DEF LockMarble, AssignMarble
  <2> QED BY <2>1, <2>2 DEF TypeInv
<1>4. assigned' \in [RunCalls -> 0..MaxMarbles]
  <2>1. k + 1 \in 0..MaxMarbles
    BY <1>1
  <2>2. assigned' = [assigned EXCEPT ![n] = k + 1]
    BY DEF LockMarble
  <2> QED BY <2>1, <2>2 DEF TypeInv
<1>5. sState' \in [Sessions -> SessionStates] /\ UNCHANGED <<sPlayer, sBet, sLast>>
  BY <1>2 DEF TypeInv, LockMarble, AssignMarble
<1> QED BY <1>3, <1>4, <1>5 DEF TypeInv, LockMarble, RunMoves, WalletTypeOK, walletVars

\* The race keeps the types: the winner is whatever index the simulator reports.
LEMMA RaceType == ASSUME TypeInv, NEW n \in RunCalls, Race(n) PROVE TypeInv'
<1>1. PICK w \in SimWinners :
        /\ winner' = [winner EXCEPT ![n] = w]
        /\ RunMoves(n, "assign",
             IF SettleError(RTPBps, Stakes, w) = "nil" THEN "settle" ELSE "failed")
  BY DEF Race
<1>2. winner' \in [RunCalls -> Int]
  BY <1>1, ConfigAssumption DEF TypeInv
<1>3. rPc[n] = "assign" /\ \E to \in {"settle", "failed"} : rPc' = [rPc EXCEPT ![n] = to]
  BY <1>1 DEF RunMoves
<1>4. UNCHANGED <<betVars, roundBetVars, gPc>>
  BY <1>1 DEF RunMoves
<1>5. rPc' \in [RunCalls -> RunPoints] /\ FieldFits'
  BY <1>3 DEF TypeInv, Race
<1> QED BY <1>2, <1>4, <1>5 DEF TypeInv, Race, WalletTypeOK, walletVars

\* A failed simulation keeps the types.
LEMMA SimFailsType == ASSUME TypeInv, NEW n \in RunCalls, SimFails(n) PROVE TypeInv'
  BY DEF TypeInv, SimFails, RunMoves, WalletTypeOK, walletVars

\* A failed credit keeps the types.
LEMMA CreditFailsType == ASSUME TypeInv, NEW n \in RunCalls, CreditFails(n) PROVE TypeInv'
  BY DEF TypeInv, CreditFails, RunMoves, WalletTypeOK, walletVars

\* The ledger entry names a bet because the session a run settles holds one.
LEMMA CreditWinnerType ==
  ASSUME TypeInv, NEW n \in RunCalls, CreditWinner(n), sBet[Settling(n)] \in BetCalls
  PROVE  TypeInv'
<1>1. <<sBet[Settling(n)], "credit">> \in TxIds
  BY DEF TxIds
<1>2. WalletTypeOK'
  BY <1>1, PrizeIsWord, CreditType DEF CreditWinner, TypeInv
<1> QED BY <1>2 DEF TypeInv, CreditWinner, RunMoves

\* Session.Settle keeps the types: its outcome names a bet and a prize in a word.
LEMMA SettleSessionType ==
  ASSUME TypeInv, NEW n \in RunCalls, SettleSession(n) PROVE TypeInv'
<1> DEFINE s == Settling(n)
           won == HoldsWinner(n)
           o == [bet |-> sBet[s], won |-> won, prize |-> IF won THEN Prize ELSE 0]
<1>1. settled[n] \in 0..(MaxMarbles - 1) /\ MaxMarbles \in Nat
      /\ settled[n] + 1 \in 1..Len(took[n])
  <2>1. settled[n] \in 0..MaxMarbles /\ Len(took[n]) \in Nat /\ MaxMarbles \in Nat
    BY ConfigAssumption DEF TypeInv
  <2>2. settled[n] < Len(took[n]) /\ rPc[n] \in {"settle", "credited"}
    BY DEF SettleSession, RunMoves
  <2>3. Len(took[n]) <= MaxMarbles
    BY <2>2 DEF TypeInv
  <2> QED BY <2>1, <2>2, <2>3
<1>2. s \in Sessions
  BY SMTT(30), <1>1 DEF TypeInv, Settling
<1>3. won \in BOOLEAN
  BY DEF HoldsWinner
<1>4. o \in Outcome
  <2>1. (IF won THEN Prize ELSE 0) \in Word
    BY PrizeIsWord, MaxUint64Assumption DEF Word
  <2> QED BY <1>2, <1>3, <2>1 DEF TypeInv, Outcome
<1>5. SettleBet(s, o) /\ outcomes' = [outcomes EXCEPT ![n] = Append(@, o)]
  BY DEF SettleSession
<1>6. sLast' \in [Sessions -> Outcome]
  BY <1>2, <1>4, <1>5 DEF TypeInv, SettleBet
<1>7. outcomes' \in [RunCalls -> Seq(Outcome)]
  <2>1. Append(outcomes[n], o) \in Seq(Outcome)
    BY <1>4 DEF TypeInv
  <2> QED BY <1>5, <2>1 DEF TypeInv
<1>8. sMarble' \in [Sessions -> -1..(MaxMarbles - 1)]
  <2>1. -1 \in -1..(MaxMarbles - 1)
    BY ConfigAssumption
  <2> QED BY <1>2, <1>5, <2>1 DEF TypeInv, SettleBet
<1>9. /\ sState' \in [Sessions -> SessionStates]
      /\ sBet' \in [Sessions -> BetCalls \cup {NoBet}]
      /\ UNCHANGED sPlayer
  BY <1>2, <1>5 DEF TypeInv, SettleBet
<1>10. settled' \in [RunCalls -> 0..MaxMarbles]
  <2>1. settled[n] + 1 \in 0..MaxMarbles
    BY <1>1
  <2>2. settled' = [settled EXCEPT ![n] = settled[n] + 1]
    BY DEF SettleSession
  <2> QED BY <2>1, <2>2 DEF TypeInv
<1>11. /\ rPc[n] \in {"settle", "credited"} /\ rPc' = [rPc EXCEPT ![n] = "settle"]
       /\ UNCHANGED <<betVars, roundBetVars, gPc>>
  BY DEF SettleSession, RunMoves
<1>12. rPc' \in [RunCalls -> RunPoints] /\ FieldFits'
  BY <1>11 DEF TypeInv, SettleSession
<1> QED
  BY <1>6, <1>7, <1>8, <1>9, <1>10, <1>11, <1>12
  DEF TypeInv, SettleSession, WalletTypeOK, walletVars

\* Saving the manifest keeps the store a list of manifests.
LEMMA SaveManifestType == ASSUME TypeInv, NEW n \in RunCalls, SaveManifest(n) PROVE TypeInv'
<1> DEFINE entry == [round |-> rRound[n], track |-> track[rRound[n]], winner |-> winner[n]]
<1>1. entry \in [round : Rounds, track : Int, winner : Int]
  BY DEF TypeInv
<1>2. manifests' \in Seq([round : Rounds, track : Int, winner : Int])
  <2>1. manifests' = Append(manifests, entry)
    BY DEF SaveManifest
  <2>2. manifests \in Seq([round : Rounds, track : Int, winner : Int])
    BY DEF TypeInv
  <2> QED BY <1>1, <2>1, <2>2
<1> QED BY <1>2 DEF TypeInv, SaveManifest, RunMoves, WalletTypeOK, walletVars

\* A failed save keeps the types.
LEMMA SaveFailsType == ASSUME TypeInv, NEW n \in RunCalls, SaveFails(n) PROVE TypeInv'
  BY DEF TypeInv, SaveFails, RunMoves, WalletTypeOK, walletVars

\* Settling a round bet keeps the types, paid or not.
LEMMA SettleRoundBetType ==
  ASSUME TypeInv, NEW n \in RunCalls, SettleRoundBet(n) PROVE TypeInv'
<1> DEFINE c == PayingBet(n)
<1>1. c \in RoundBetCalls
  <2>1. prBets[rRound[n]] \in Seq(RoundBetCalls) /\ paid[n] \in Nat
    BY DEF TypeInv
  <2> QED BY <2>1 DEF SettleRoundBet, PayingBet
<1>2. WalletTypeOK'
  <2>1. CASE bReq[c].marble = winner[n]
    <3>1. Credit(bReq[c].player, PayoutUnits(bReq[c].amount), <<c, "credit">>)
      BY <2>1 DEF SettleRoundBet
    <3> QED BY <1>1, <3>1, RoundBetRequestType, CreditType DEF TypeInv
  <2>2. CASE bReq[c].marble # winner[n]
    BY <2>2 DEF SettleRoundBet, TypeInv, WalletTypeOK, walletVars
  <2> QED BY <2>1, <2>2
<1>3. paid' \in [RunCalls -> Nat]
  <2>1. paid' = [paid EXCEPT ![n] = paid[n] + 1]
    BY DEF SettleRoundBet
  <2>2. paid[n] + 1 \in Nat
    BY DEF TypeInv
  <2> QED BY <2>1, <2>2 DEF TypeInv
<1>4. RunMoves(n, "roundBets", "roundBets")
      /\ UNCHANGED <<sessionVars, queueVars, trackVars, manifests, took, rRound, rPrev,
                     winner, assigned, settled, outcomes>>
  BY DEF SettleRoundBet
<1> QED BY <1>2, <1>3, <1>4 DEF TypeInv, RunMoves

\* A failed credit of a round bet keeps the types.
LEMMA RoundCreditFailsType == ASSUME TypeInv, NEW n \in RunCalls, RoundCreditFails(n) PROVE TypeInv'
  BY DEF TypeInv, RoundCreditFails, RunMoves, WalletTypeOK, walletVars

\* The end of a run keeps prevTrack a track.
LEMMA FinishRoundType == ASSUME TypeInv, NEW n \in RunCalls, FinishRound(n) PROVE TypeInv'
<1>1. prevTrack' \in Int
  BY DEF TypeInv, FinishRound
<1> QED BY <1>1 DEF TypeInv, FinishRound, RunMoves, WalletTypeOK, walletVars
-----------------------------------------------------------------------------
(* Where a live bet is.                                                    *)

HolderVars == <<sState, sBet, cReq, pending, took, assigned, settled>>

\* The parts of Ownership that do not look at the control point of a run.
Held ==
  /\ BetIffLive /\ CallHolds /\ QueueHolds /\ RunHolds
  /\ QueuedOnce /\ TakenOnce /\ QueuedOrTaken /\ HeldSomewhere

\* At the start no session is live and nothing holds one.
LEMMA InitOwnership == Init => Ownership
  BY RequestAssumption
  DEF Init, SessionInit, Ownership, BetIffLive, CallHolds, QueueHolds, RunHolds,
      QueuedOnce, TakenOnce, QueuedOrTaken, HeldSomewhere, RunStages, RunStage,
      Live, Unsettled, Accepted
-----------------------------------------------------------------------------
(* Steps that touch none of the state Ownership speaks of.                 *)

\* A step that leaves sessions, queue and runs alone, and the bet requests too.
LEMMA HeldFrame ==
  ASSUME Held, UNCHANGED HolderVars, UNCHANGED cPc
  PROVE  Held'
  BY DEF Held, HolderVars, BetIffLive, CallHolds, QueueHolds, RunHolds, QueuedOnce,
         TakenOnce, QueuedOrTaken, HeldSomewhere, Live, Unsettled, Accepted, InCall

\* A step of run n that only moves its control point.
LEMMA StageFrame ==
  ASSUME TypeInv, RunStages, NEW n \in RunCalls, NEW to,
         rPc' = [rPc EXCEPT ![n] = to],
         UNCHANGED <<took, assigned, settled>>,
         to = "idle" => took[n] = <<>>,
         to \in {"fresh", "admit"} => assigned[n] = 0,
         to = "assign" => settled[n] = 0,
         to \in {"settle", "credited"} => assigned[n] = Len(took[n])
  PROVE  RunStages'
  BY DEF TypeInv, TypeOK, RunsTypeOK, RunStages, RunStage

\* A bet request that moves between points at which it holds no session.
LEMMA RequestFrame ==
  ASSUME TypeInv, Ownership, NEW c \in BetCalls, NEW to,
         cPc[c] \notin {"attached", "accepted"}, to \notin {"attached", "accepted"},
         cPc' = [cPc EXCEPT ![c] = to],
         UNCHANGED HolderVars, UNCHANGED rPc
  PROVE  Ownership'
<1> USE DEF TypeInv, TypeOK, CallsTypeOK, Ownership, HolderVars
<1>1. \A s \in Sessions : Accepted(s)' <=> Accepted(s)
  BY DEF Accepted
<1>2. \A d \in BetCalls : \A s : InCall(d, s)' <=> InCall(d, s)
  BY DEF InCall
<1>3. CallHolds'
  BY DEF CallHolds
<1>4. QueueHolds' /\ RunHolds'
  <2>1. QueueHolds'
    BY DEF QueueHolds, Accepted
  <2>2. \A n \in RunCalls : \A i \in Unsettled(n) : took[n][i] \in Sessions
    BY DEF RunsTypeOK, Unsettled
  <2>3. \A n \in RunCalls : Unsettled(n)' = Unsettled(n)
    BY DEF Unsettled
  <2>4. RunHolds'
    BY <1>1, <2>2, <2>3 DEF RunHolds
  <2> QED BY <2>1, <2>4
<1>5. BetIffLive' /\ QueuedOnce' /\ TakenOnce' /\ QueuedOrTaken'
  BY DEF BetIffLive, Live, QueuedOnce, TakenOnce, QueuedOrTaken, Unsettled
<1>6. HeldSomewhere'
  BY ZenonT(30), <1>2 DEF HeldSomewhere, Live, Unsettled
<1>7. RunStages'
  BY DEF RunStages, RunStage
<1> QED BY <1>3, <1>4, <1>5, <1>6, <1>7

\* The queue and the runs hold the same sessions at the same positions.
LEMMA PositionsFrame ==
  ASSUME QueuedOnce, TakenOnce, QueuedOrTaken, UNCHANGED <<pending, took, settled>>
  PROVE  QueuedOnce' /\ TakenOnce' /\ QueuedOrTaken'
  BY DEF QueuedOnce, TakenOnce, QueuedOrTaken, Unsettled

\* What the runs hold does not change.
LEMMA TakenFrame ==
  ASSUME TakenOnce, UNCHANGED <<took, settled>>
  PROVE  TakenOnce'
  BY DEF TakenOnce, Unsettled

\* No run moves.
LEMMA StagesFrame ==
  ASSUME RunStages, UNCHANGED <<rPc, took, assigned, settled>>
  PROVE  RunStages'
  BY DEF RunStages, RunStage

\* A session becomes live only inside the request that bets on it, and no
\* request lets go of one.
LEMMA SomewhereFrame ==
  ASSUME HeldSomewhere, UNCHANGED <<pending, took, settled>>,
         \A x \in Sessions : Live(x)' => Live(x) \/ \E c \in BetCalls : InCall(c, x)',
         \A c \in BetCalls, x \in Sessions : InCall(c, x) => InCall(c, x)'
  PROVE  HeldSomewhere'
<1> SUFFICES ASSUME NEW x \in Sessions, Live(x)'
             PROVE  \/ \E c \in BetCalls : InCall(c, x)'
                    \/ \E i \in 1..Len(pending') : pending'[i] = x
                    \/ \E n \in RunCalls : \E i \in Unsettled(n)' : took'[n][i] = x
  BY DEF HeldSomewhere
<1> QED BY DEF HeldSomewhere, Unsettled

-----------------------------------------------------------------------------
(* OpenSession, CloseSession and AttachToSession: the session held no bet, *)
(* so nothing that holds a session holds this one.                         *)

\* Nobody holds a session that is not live.
LEMMA NotHeld ==
  ASSUME Ownership, NEW s \in Sessions, ~Live(s)
  PROVE  /\ \A c \in BetCalls : ~InCall(c, s)
         /\ \A i \in 1..Len(pending) : pending[i] # s
         /\ \A n \in RunCalls : \A i \in Unsettled(n) : took[n][i] # s
  BY DEF Ownership, CallHolds, QueueHolds, RunHolds, Live, InCall

\* The positions a run has yet to settle are positions of the list it took.
LEMMA UnsettledType ==
  ASSUME TypeInv, NEW n \in RunCalls
  PROVE  \A i \in Unsettled(n) : i \in 1..Len(took[n]) /\ took[n][i] \in Sessions
<1>1. settled[n] \in Nat /\ took[n] \in Seq(Sessions)
  BY ConfigAssumption DEF TypeInv, TypeOK, RunsTypeOK
<1> QED BY <1>1 DEF Unsettled

\* A session that holds no bet changes between states without one.
LEMMA IdleSessionFrame ==
  ASSUME TypeInv, Ownership, NEW s \in Sessions, NEW state \in {"OPEN", "CLOSED"},
         ~Live(s), sState' = [sState EXCEPT ![s] = state],
         UNCHANGED <<sBet, cPc, cReq, pending, rPc, took, assigned, settled>>
  PROVE  Ownership'
<1> USE DEF TypeInv, TypeOK, SessionTypeOK, Ownership
<1>1. \A x \in Sessions \ {s} : sState'[x] = sState[x]
  OBVIOUS
<1>2. BetIffLive'
  BY DEF BetIffLive, Live
<1>3. CallHolds'
  BY SMTT(30), <1>1, NotHeld, BetRequestType DEF CallHolds, InCall
<1>4. QueueHolds'
  <2>1. \A i \in 1..Len(pending) : pending[i] \in Sessions \ {s}
    BY NotHeld DEF QueueTypeOK
  <2> QED BY <1>1, <2>1 DEF QueueHolds, Accepted
<1>5. RunHolds'
  <2>1. \A n \in RunCalls : \A i \in Unsettled(n) : took[n][i] \in Sessions \ {s}
    BY SMTT(30), NotHeld DEF RunsTypeOK, Unsettled
  <2>2. \A n \in RunCalls : Unsettled(n)' = Unsettled(n)
    BY DEF Unsettled
  <2>3. \A x \in Sessions \ {s} : Accepted(x)' <=> Accepted(x)
    BY DEF Accepted
  <2> QED BY <1>1, <2>1, <2>2, <2>3 DEF RunHolds
<1>6. QueuedOnce' /\ TakenOnce' /\ QueuedOrTaken' /\ RunStages'
  BY PositionsFrame, StagesFrame
<1>7. HeldSomewhere'
  BY <1>1, SomewhereFrame DEF Live, InCall
<1> QED BY <1>2, <1>3, <1>4, <1>5, <1>6, <1>7

\* A session that accepts a bet was held by nobody; now its request holds it.
LEMMA AttachToSessionOwns ==
  ASSUME TypeInv, Ownership, NEW c \in BetCalls, AttachToSession(c)
  PROVE  Ownership'
<1> DEFINE s == cReq[c].session
<1> USE DEF TypeInv, TypeOK, SessionTypeOK, CallsTypeOK, Ownership
<1>1. s \in Sessions
  BY BetRequestType
<1>2. ~Live(s) /\ cPc[c] = "debited" /\ sBet[s] = NoBet
  BY DEF AttachToSession, AttachBet, CanPlaceBet, BetMoves, Live
<1>3. /\ sState' = [sState EXCEPT ![s] = "BET"]
      /\ sBet' = [sBet EXCEPT ![s] = c]
      /\ cPc' = [cPc EXCEPT ![c] = "attached"]
      /\ UNCHANGED <<cReq, pending, rPc, took, assigned, settled>>
  BY DEF AttachToSession, AttachBet, BetMoves, betVars, queueVars, runVars
<1>4. \A x \in Sessions \ {s} :
        sState'[x] = sState[x] /\ sBet'[x] = sBet[x] /\ (Accepted(x) => Accepted(x)')
  BY <1>1, <1>2, <1>3 DEF Accepted
<1>5. BetIffLive'
  BY <1>1, <1>3, <1>4 DEF BetIffLive, Live
<1>6. CallHolds'
  <2> SUFFICES ASSUME NEW d \in BetCalls, cPc'[d] = "attached"
               PROVE  sState'[cReq[d].session] = "BET" /\ sBet'[cReq[d].session] = d
    BY <1>3 DEF CallHolds
  <2>1. CASE d = c
    BY <1>1, <1>3, <2>1
  <2>2. CASE d # c
    <3>1. cPc[d] = "attached" /\ cReq[d].session \in Sessions
      BY <1>3, <2>2, BetRequestType
    <3>2. cReq[d].session # s
      BY <1>1, <1>2, <3>1, NotHeld DEF InCall
    <3> QED BY <1>4, <3>1, <3>2 DEF CallHolds
  <2> QED BY <2>1, <2>2
<1>7. QueueHolds'
  <2>1. \A i \in 1..Len(pending) : pending[i] \in Sessions \ {s}
    BY <1>1, <1>2, NotHeld DEF QueueTypeOK
  <2> QED BY <1>3, <1>4, <2>1 DEF QueueHolds
<1>8. RunHolds'
  <2>1. \A n \in RunCalls : \A i \in Unsettled(n) : took[n][i] \in Sessions \ {s}
    BY <1>1, <1>2, NotHeld, UnsettledType
  <2>2. \A n \in RunCalls : Unsettled(n)' = Unsettled(n)
    BY <1>3 DEF Unsettled
  <2> QED BY SMTT(30), <1>3, <1>4, <2>1, <2>2 DEF RunHolds
<1>9. QueuedOnce' /\ TakenOnce' /\ QueuedOrTaken' /\ RunStages'
  BY <1>3, PositionsFrame, StagesFrame
<1>10. HeldSomewhere'
  <2>1. \A d \in BetCalls : \A x : InCall(d, x) => InCall(d, x)'
    BY <1>2, <1>3 DEF InCall
  <2>2. InCall(c, s)'
    BY <1>3 DEF InCall
  <2> QED BY <1>1, <1>3, <1>4, <2>1, <2>2, SomewhereFrame DEF Live
<1> QED BY <1>5, <1>6, <1>7, <1>8, <1>9, <1>10
-----------------------------------------------------------------------------
(* EnqueueBet and TakeQueue: a session moves from the request to the queue *)
(* and from the queue to a run.                                            *)

\* PlaceBet hands the session it holds over to the queue.
LEMMA EnqueueBetOwns ==
  ASSUME TypeInv, Ownership, NEW c \in BetCalls, EnqueueBet(c)
  PROVE  Ownership'
<1> DEFINE s == cReq[c].session
           last == Len(pending) + 1
<1> USE DEF Ownership
<1>0. /\ cPc \in [BetCalls -> BetPoints] /\ pending \in Seq(Sessions)
      /\ took \in [RunCalls -> Seq(Sessions)]
  BY DEF TypeInv, TypeOK, CallsTypeOK, QueueTypeOK, RunsTypeOK
<1>1. /\ cPc[c] = "attached" /\ cPc' = [cPc EXCEPT ![c] = "accepted"]
      /\ pending' = Append(pending, s)
      /\ UNCHANGED <<sState, sBet, cReq, rPc, took, assigned, settled>>
  BY DEF EnqueueBet, BetMoves, sessionVars, runVars
<1>2. s \in Sessions /\ sState[s] = "BET" /\ sBet[s] = c
  BY <1>1, BetRequestType DEF CallHolds
<1>3. /\ Len(pending) \in Nat /\ Len(pending') = last /\ pending'[last] = s
      /\ \A i \in 1..Len(pending) : pending'[i] = pending[i]
  BY <1>0, <1>1, <1>2
<1>4. \A x \in Sessions : Accepted(x) => Accepted(x)'
  BY <1>0, <1>1 DEF Accepted
<1>5. Accepted(s)' /\ ~Accepted(s)
  BY <1>0, <1>1, <1>2 DEF Accepted
<1>6. \A i \in 1..Len(pending) : pending[i] # s
  BY <1>5 DEF QueueHolds
<1>7. \A n \in RunCalls : \A i \in Unsettled(n) : took[n][i] # s
  BY <1>5 DEF RunHolds
<1>8. BetIffLive'
  BY <1>1 DEF BetIffLive, Live
<1>9. CallHolds'
  BY <1>0, <1>1 DEF CallHolds
<1>10. QueueHolds'
  <2> SUFFICES ASSUME NEW i \in 1..last
               PROVE  /\ sState[pending'[i]] = "BET"
                      /\ sBet[pending'[i]] \in BetCalls
                      /\ cPc'[sBet[pending'[i]]] = "accepted"
    BY <1>1, <1>3 DEF QueueHolds, Accepted
  <2>1. CASE i = last
    BY <1>0, <1>1, <1>2, <1>3, <2>1
  <2>2. CASE i \in 1..Len(pending)
    BY <1>0, <1>1, <1>3, <2>2 DEF QueueHolds, Accepted
  <2> QED BY <1>3, <2>1, <2>2
<1>11. RunHolds'
  <2>1. \A n \in RunCalls : \A i \in Unsettled(n) : took[n][i] \in Sessions
    BY UnsettledType
  <2> QED BY <1>1, <1>4, <2>1 DEF RunHolds, Unsettled
<1>12. QueuedOnce'
  <2> SUFFICES ASSUME NEW i \in 1..last, NEW j \in 1..last, pending'[i] = pending'[j]
               PROVE  i = j
    BY <1>3 DEF QueuedOnce
  <2>1. i \in 1..Len(pending) \/ i = last
    BY <1>3
  <2>2. j \in 1..Len(pending) \/ j = last
    BY <1>3
  <2> QED BY <1>3, <1>6, <2>1, <2>2 DEF QueuedOnce
<1>13. TakenOnce'
  BY <1>1, TakenFrame
<1>14. QueuedOrTaken'
  <2>1. \A i \in 1..Len(pending') : i \in 1..Len(pending) \/ i = last
    BY <1>3
  <2>2. \A n \in RunCalls : Unsettled(n)' = Unsettled(n) /\ took'[n] = took[n]
    BY <1>1 DEF Unsettled
  <2>3. \A i \in 1..Len(pending') : \A n \in RunCalls : \A j \in Unsettled(n) :
          pending'[i] # took[n][j]
    BY <1>3, <1>7, <2>1 DEF QueuedOrTaken
  <2> QED BY <2>2, <2>3 DEF QueuedOrTaken
<1>15. HeldSomewhere'
  <2> SUFFICES ASSUME NEW x \in Sessions, Live(x)
               PROVE  \/ \E d \in BetCalls : InCall(d, x)'
                      \/ \E i \in 1..Len(pending') : pending'[i] = x
                      \/ \E n \in RunCalls : \E i \in Unsettled(n) : took[n][i] = x
    <3>1. \A n \in RunCalls : Unsettled(n)' = Unsettled(n) /\ took'[n] = took[n]
      BY <1>1 DEF Unsettled
    <3>2. \A x \in Sessions : Live(x)' <=> Live(x)
      BY <1>1 DEF Live
    <3> QED BY <3>1, <3>2 DEF HeldSomewhere
  <2>1. CASE x = s
    BY <1>3, <2>1
  <2>2. CASE x # s
    <3>1. \A d \in BetCalls : InCall(d, x) => InCall(d, x)'
      BY <1>0, <1>1, <2>2 DEF InCall
    <3>2. \A i \in 1..Len(pending) : i \in 1..Len(pending') /\ pending'[i] = pending[i]
      BY <1>3
    <3> QED BY <3>1, <3>2 DEF HeldSomewhere
  <2> QED BY <2>1, <2>2
<1>16. RunStages'
  BY <1>1, StagesFrame
<1> QED BY <1>8, <1>9, <1>10, <1>11, <1>12, <1>13, <1>14, <1>15, <1>16

\* RunNextRound hands the whole queue over to the run, position by position.
LEMMA TakeQueueOwns ==
  ASSUME TypeInv, Ownership, NEW n \in RunCalls, TakeQueue(n)
  PROVE  Ownership'
<1> USE DEF Ownership
<1>0. /\ took \in [RunCalls -> Seq(Sessions)] /\ pending \in Seq(Sessions)
      /\ rPc \in [RunCalls -> RunPoints]
      /\ assigned \in [RunCalls -> 0..MaxMarbles] /\ settled \in [RunCalls -> 0..MaxMarbles]
      /\ MaxMarbles \in Nat
  BY ConfigAssumption DEF TypeInv, TypeOK, QueueTypeOK, RunsTypeOK
<1>1. /\ rPc[n] = "idle" /\ \E to \in {"fresh", "admit"} : rPc' = [rPc EXCEPT ![n] = to]
      /\ took' = [took EXCEPT ![n] = pending] /\ pending' = <<>>
      /\ UNCHANGED <<sState, sBet, cPc, cReq, assigned, settled>>
  BY DEF TakeQueue, RunMoves, betVars, sessionVars
<1>2. assigned[n] = 0 /\ settled[n] = 0 /\ Unsettled(n) = {}
  <2>1. Len(took[n]) = 0
    BY <1>1 DEF RunStages, RunStage
  <2> QED BY <1>0, <2>1 DEF RunStages, RunStage, Unsettled
<1>3. Unsettled(n)' = 1..Len(pending) /\ took'[n] = pending
  BY <1>0, <1>1, <1>2 DEF Unsettled
<1>4. \A m \in RunCalls \ {n} : Unsettled(m)' = Unsettled(m) /\ took'[m] = took[m]
  BY <1>0, <1>1 DEF Unsettled
<1>5. Len(pending') = 0
  BY <1>1
<1>6. \A x : (Accepted(x)' <=> Accepted(x)) /\ \A c : InCall(c, x)' <=> InCall(c, x)
  BY <1>1 DEF Accepted, InCall
<1>7. BetIffLive' /\ CallHolds'
  BY <1>1 DEF BetIffLive, Live, CallHolds
<1>8. QueueHolds' /\ QueuedOnce' /\ QueuedOrTaken'
  BY <1>5 DEF QueueHolds, QueuedOnce, QueuedOrTaken
<1>9. RunHolds'
  <2> SUFFICES ASSUME NEW m \in RunCalls, NEW i \in Unsettled(m)'
               PROVE  /\ sState[took'[m][i]] = IF i <= assigned[m] THEN "RACING" ELSE "BET"
                      /\ Accepted(took'[m][i])
    BY <1>1, <1>6 DEF RunHolds
  <2>1. CASE m = n
    BY <1>2, <1>3, <2>1 DEF QueueHolds
  <2>2. CASE m # n
    BY <1>4, <2>2 DEF RunHolds
  <2> QED BY <2>1, <2>2
<1>10. TakenOnce'
  <2> SUFFICES ASSUME NEW m \in RunCalls, NEW k \in RunCalls, NEW i \in Unsettled(m)',
                      NEW j \in Unsettled(k)', took'[m][i] = took'[k][j]
               PROVE  m = k /\ i = j
    BY DEF TakenOnce
  <2>0. /\ m = n => i \in 1..Len(pending) /\ took'[m][i] = pending[i]
        /\ k = n => j \in 1..Len(pending) /\ took'[k][j] = pending[j]
        /\ m # n => i \in Unsettled(m) /\ took'[m][i] = took[m][i]
        /\ k # n => j \in Unsettled(k) /\ took'[k][j] = took[k][j]
    BY <1>0, <1>1, <1>2 DEF Unsettled
  <2>1. CASE m = n /\ k = n
    BY <2>0, <2>1 DEF QueuedOnce
  <2>2. CASE m = n /\ k # n
    BY <2>0, <2>2 DEF QueuedOrTaken
  <2>3. CASE m # n /\ k = n
    BY <2>0, <2>3 DEF QueuedOrTaken
  <2>4. CASE m # n /\ k # n
    BY <1>4, <2>4 DEF TakenOnce
  <2> QED BY <2>1, <2>2, <2>3, <2>4
<1>11. HeldSomewhere'
  <2> SUFFICES ASSUME NEW x \in Sessions, Live(x)
               PROVE  \/ \E c \in BetCalls : InCall(c, x)
                      \/ \E m \in RunCalls : \E i \in Unsettled(m)' : took'[m][i] = x
    BY <1>1, <1>6 DEF HeldSomewhere, Live
  <2>1. CASE \E i \in 1..Len(pending) : pending[i] = x
    BY <1>3, <2>1
  <2>2. CASE \E m \in RunCalls : \E i \in Unsettled(m) : took[m][i] = x
    BY <1>2, <1>4, <2>2
  <2> QED BY <2>1, <2>2 DEF HeldSomewhere
<1>12. RunStages'
  <2>1. Len(pending) \in Nat /\ assigned'[n] = 0 /\ settled'[n] = 0
    BY <1>0, <1>1, <1>2
  <2>2. RunStage(n)'
    BY <1>0, <1>1, <1>3, <2>1 DEF RunStage
  <2>3. \A m \in RunCalls \ {n} : RunStage(m)'
    BY <1>0, <1>1, <1>4 DEF RunStages, RunStage
  <2> QED BY <2>2, <2>3 DEF RunStages
<1> QED BY <1>7, <1>8, <1>9, <1>10, <1>11, <1>12
-----------------------------------------------------------------------------
(* LockMarble and SettleSession: only the run that holds the session       *)
(* changes it.                                                             *)

\* A session a run has yet to settle is in no other place.
LEMMA HeldByRun ==
  ASSUME TypeInv, Ownership, NEW n \in RunCalls, NEW i \in Unsettled(n)
  PROVE  /\ took[n][i] \in Sessions
         /\ \A c \in BetCalls : ~InCall(c, took[n][i])
         /\ \A j \in 1..Len(pending) : pending[j] # took[n][i]
         /\ \A m \in RunCalls : \A j \in Unsettled(m) :
              m # n \/ j # i => took[m][j] # took[n][i]
<1>1. took[n][i] \in Sessions
  BY UnsettledType
<1>2. \A c \in BetCalls : ~InCall(c, took[n][i])
  BY DEF Ownership, CallHolds, RunHolds, Accepted, InCall
<1> QED BY <1>1, <1>2 DEF Ownership, QueuedOrTaken, TakenOnce

\* AssignMarble moves the next session of the run to RACING and nothing else.
LEMMA LockMarbleOwns ==
  ASSUME TypeInv, Ownership, NEW n \in RunCalls, LockMarble(n)
  PROVE  Ownership'
<1> DEFINE k == assigned[n]
           s == took[n][k + 1]
<1> USE DEF Ownership
<1>0. /\ sState \in [Sessions -> SessionStates]
      /\ cReq \in [BetCalls -> BetRequests] /\ pending \in Seq(Sessions)
      /\ assigned \in [RunCalls -> 0..MaxMarbles] /\ settled \in [RunCalls -> 0..MaxMarbles]
      /\ took \in [RunCalls -> Seq(Sessions)] /\ MaxMarbles \in Nat
  BY ConfigAssumption DEF TypeInv, TypeOK, SessionTypeOK, CallsTypeOK, QueueTypeOK, RunsTypeOK
<1>1. /\ rPc[n] = "assign" /\ rPc' = [rPc EXCEPT ![n] = "assign"]
      /\ k < Len(took[n])
      /\ sState' = [sState EXCEPT ![s] = "RACING"]
      /\ assigned' = [assigned EXCEPT ![n] = k + 1]
      /\ UNCHANGED <<sBet, cPc, cReq, pending, took, settled>>
  BY DEF LockMarble, RunMoves, AssignMarble, betVars, queueVars
<1>2. settled[n] = 0 /\ k + 1 \in Unsettled(n)
  BY <1>0, <1>1 DEF RunStages, RunStage, Unsettled
<1>3. s \in Sessions /\ sState[s] = "BET"
  BY <1>0, <1>2, HeldByRun DEF RunHolds
<1>4. sState'[s] = "RACING" /\ \A x \in Sessions \ {s} : sState'[x] = sState[x]
  BY <1>0, <1>1, <1>3
<1>5. \A x \in Sessions : Live(x)' <=> Live(x)
  BY <1>3, <1>4 DEF Live
<1>6. BetIffLive'
  BY <1>1, <1>5 DEF BetIffLive
<1>7. CallHolds'
  <2> SUFFICES ASSUME NEW c \in BetCalls, cPc[c] = "attached"
               PROVE  sState'[cReq[c].session] = "BET" /\ sBet[cReq[c].session] = c
    BY <1>1 DEF CallHolds
  <2>1. cReq[c].session \in Sessions /\ cReq[c].session # s
    BY <1>2, HeldByRun, BetRequestType DEF InCall
  <2> QED BY <1>4, <2>1 DEF CallHolds
<1>8. QueueHolds'
  <2> SUFFICES ASSUME NEW i \in 1..Len(pending)
               PROVE  sState'[pending[i]] = "BET" /\ Accepted(pending[i])
    BY <1>1 DEF QueueHolds, Accepted
  <2>1. pending[i] \in Sessions /\ pending[i] # s
    BY <1>0, <1>2, HeldByRun
  <2> QED BY <1>4, <2>1 DEF QueueHolds
<1>9. RunHolds'
  <2> SUFFICES ASSUME NEW m \in RunCalls, NEW i \in Unsettled(m)
               PROVE  /\ sState'[took[m][i]] = IF i <= assigned'[m] THEN "RACING" ELSE "BET"
                      /\ Accepted(took[m][i])
    BY <1>1 DEF RunHolds, Unsettled, Accepted
  <2>1. took[m][i] \in Sessions /\ Accepted(took[m][i])
    BY UnsettledType DEF RunHolds
  <2>2. CASE m = n /\ i = k + 1
    BY <1>0, <1>1, <1>4, <2>1, <2>2
  <2>3. CASE m = n /\ i # k + 1
    <3>1. took[m][i] # s
      BY <1>2, <2>3, HeldByRun
    <3>2. assigned'[m] = k + 1 /\ i \in Int /\ k \in Int
      BY <1>0, <1>1, <2>3 DEF Unsettled
    <3> QED BY <1>4, <2>1, <2>3, <3>1, <3>2 DEF RunHolds
  <2>4. CASE m # n
    <3>1. took[m][i] # s /\ assigned'[m] = assigned[m]
      BY <1>0, <1>1, <1>2, <2>4, HeldByRun
    <3> QED BY <1>4, <2>1, <3>1 DEF RunHolds
  <2> QED BY <2>2, <2>3, <2>4
<1>10. QueuedOnce' /\ TakenOnce' /\ QueuedOrTaken'
  BY <1>1, PositionsFrame
<1>11. HeldSomewhere'
  <2>1. \A c \in BetCalls, x \in Sessions : InCall(c, x) => InCall(c, x)'
    BY <1>1 DEF InCall
  <2> QED BY <1>1, <1>5, <2>1, SomewhereFrame
<1>12. RunStages'
  <2>1. RunStage(n)'
    BY <1>0, <1>1, <1>2 DEF RunStage
  <2>2. \A m \in RunCalls \ {n} : RunStage(m)'
    BY <1>0, <1>1 DEF RunStages, RunStage
  <2> QED BY <2>1, <2>2 DEF RunStages
<1> QED BY <1>6, <1>7, <1>8, <1>9, <1>10, <1>11, <1>12

\* Session.Settle lets go of one session: no longer live, and no longer held.
LEMMA SettleSessionOwns ==
  ASSUME TypeInv, Ownership, NEW n \in RunCalls, SettleSession(n)
  PROVE  Ownership'
<1> DEFINE k == settled[n]
           s == took[n][k + 1]
<1> USE DEF Ownership
<1>0. /\ sState \in [Sessions -> SessionStates] /\ sBet \in [Sessions -> BetCalls \cup {NoBet}]
      /\ cReq \in [BetCalls -> BetRequests] /\ pending \in Seq(Sessions)
      /\ assigned \in [RunCalls -> 0..MaxMarbles] /\ settled \in [RunCalls -> 0..MaxMarbles]
      /\ took \in [RunCalls -> Seq(Sessions)] /\ MaxMarbles \in Nat
      /\ rPc \in [RunCalls -> RunPoints]
  BY ConfigAssumption DEF TypeInv, TypeOK, SessionTypeOK, CallsTypeOK, QueueTypeOK, RunsTypeOK
<1>1. /\ rPc[n] \in {"settle", "credited"} /\ rPc' = [rPc EXCEPT ![n] = "settle"]
      /\ k < Len(took[n])
      /\ sState' = [sState EXCEPT ![s] = "SETTLED"]
      /\ sBet' = [sBet EXCEPT ![s] = NoBet]
      /\ settled' = [settled EXCEPT ![n] = k + 1]
      /\ UNCHANGED <<cPc, cReq, pending, took, assigned>>
  BY DEF SettleSession, RunMoves, SettleBet, Settling, betVars, queueVars
<1>2. k + 1 \in Unsettled(n)
  BY <1>0, <1>1 DEF Unsettled
<1>3. s \in Sessions
  BY <1>2, HeldByRun
<1>4. /\ sState'[s] = "SETTLED" /\ sBet'[s] = NoBet
      /\ \A x \in Sessions \ {s} : sState'[x] = sState[x] /\ sBet'[x] = sBet[x]
  BY <1>0, <1>1, <1>3
<1>5. \A m \in RunCalls : \A i : i \in Unsettled(m)' =>
        i \in Unsettled(m) /\ (m # n \/ i # k + 1)
  BY <1>0, <1>1 DEF Unsettled
<1>6. \A m \in RunCalls : \A i \in Unsettled(m) :
        m # n \/ i # k + 1 => i \in Unsettled(m)'
  BY <1>0, <1>1 DEF Unsettled
<1>7. \A x \in Sessions \ {s} : (Live(x)' <=> Live(x)) /\ (Accepted(x) => Accepted(x)')
  BY <1>1, <1>4 DEF Live, Accepted
<1>8. BetIffLive'
  BY <1>4 DEF BetIffLive, Live
<1>9. CallHolds'
  <2> SUFFICES ASSUME NEW c \in BetCalls, cPc[c] = "attached"
               PROVE  sState'[cReq[c].session] = "BET" /\ sBet'[cReq[c].session] = c
    BY <1>1 DEF CallHolds
  <2>1. cReq[c].session \in Sessions /\ cReq[c].session # s
    BY <1>2, HeldByRun, BetRequestType DEF InCall
  <2> QED BY <1>4, <2>1 DEF CallHolds
<1>10. QueueHolds'
  <2>1. \A i \in 1..Len(pending) : pending[i] \in Sessions \ {s}
    BY <1>0, <1>2, HeldByRun
  <2> QED BY <1>1, <1>4, <2>1 DEF QueueHolds, Accepted
<1>11. RunHolds'
  <2> SUFFICES ASSUME NEW m \in RunCalls, NEW i \in Unsettled(m), m # n \/ i # k + 1
               PROVE  /\ sState'[took[m][i]] = IF i <= assigned[m] THEN "RACING" ELSE "BET"
                      /\ sBet'[took[m][i]] \in BetCalls /\ cPc[sBet'[took[m][i]]] = "accepted"
    BY <1>1, <1>5 DEF RunHolds, Accepted
  <2>1. took[m][i] \in Sessions \ {s}
    BY <1>2, HeldByRun, UnsettledType
  <2> QED BY <1>4, <2>1 DEF RunHolds, Accepted
<1>12. QueuedOnce'
  BY <1>1 DEF QueuedOnce
<1>13. TakenOnce' /\ QueuedOrTaken'
  BY <1>1, <1>5 DEF TakenOnce, QueuedOrTaken
<1>14. HeldSomewhere'
  <2> SUFFICES ASSUME NEW x \in Sessions \ {s}, Live(x)
               PROVE  \/ \E c \in BetCalls : InCall(c, x)
                      \/ \E i \in 1..Len(pending) : pending[i] = x
                      \/ \E m \in RunCalls : \E i \in Unsettled(m)' : took[m][i] = x
    <3>1. \A x \in Sessions : Live(x)' => x # s
      BY <1>4 DEF Live
    <3>2. \A c \in BetCalls, x \in Sessions : InCall(c, x) => InCall(c, x)'
      BY <1>1 DEF InCall
    <3> QED BY <1>1, <1>7, <3>1, <3>2 DEF HeldSomewhere
  <2>1. CASE \E m \in RunCalls : \E i \in Unsettled(m) : took[m][i] = x
    <3>1. PICK m \in RunCalls : \E i \in Unsettled(m) : took[m][i] = x
      BY <2>1
    <3>2. PICK i \in Unsettled(m) : took[m][i] = x
      BY <3>1
    <3>3. m # n \/ i # k + 1
      BY <3>2
    <3> QED BY <1>0, <1>1, <3>2, <3>3 DEF Unsettled
  <2> QED BY <2>1 DEF HeldSomewhere
<1>15. RunStages'
  <2>1. RunStage(n)'
    BY <1>0, <1>1 DEF RunStages, RunStage
  <2>2. \A m \in RunCalls \ {n} : RunStage(m)'
    BY <1>0, <1>1 DEF RunStages, RunStage
  <2> QED BY <2>1, <2>2 DEF RunStages
<1> QED BY <1>8, <1>9, <1>10, <1>11, <1>12, <1>13, <1>14, <1>15
-----------------------------------------------------------------------------
(* The steps of a run that move no session.                                *)

StageVars == <<sState, sBet, cPc, cReq, pending, took, assigned, settled>>

\* A run that only moves its control point keeps Ownership, if its new stage
\* agrees with how far it has got.
LEMMA StageOwns ==
  ASSUME TypeInv, Ownership, NEW n \in RunCalls, NEW to,
         rPc' = [rPc EXCEPT ![n] = to], UNCHANGED StageVars,
         to \notin {"idle", "fresh"},
         to = "admit" => assigned[n] = 0,
         to = "assign" => settled[n] = 0,
         to \in {"settle", "credited"} => assigned[n] = Len(took[n])
  PROVE  Ownership'
<1>1. Held'
  BY HeldFrame DEF Held, Ownership, HolderVars, StageVars
<1>2. RunStages'
  BY StageFrame DEF Ownership, StageVars
<1> QED BY <1>1, <1>2 DEF Held, Ownership

\* Every step of a run keeps the stages of all runs.
LEMMA RunStagesOwn ==
  ASSUME TypeInv, Ownership, NEW n \in RunCalls,
         \/ MintFresh(n) \/ Admit(n) \/ Race(n) \/ SimFails(n)
         \/ CreditWinner(n) \/ CreditFails(n) \/ SaveManifest(n) \/ SaveFails(n)
         \/ SettleRoundBet(n) \/ RoundCreditFails(n) \/ FinishRound(n)
  PROVE  Ownership'
<1> USE DEF RunMoves, StageVars, sessionVars, queueVars, betVars
<1>1. UNCHANGED StageVars
  BY DEF MintFresh, Admit, Race, SimFails, CreditWinner, CreditFails, SaveManifest,
         SaveFails, SettleRoundBet, RoundCreditFails, FinishRound
<1>2. RunStage(n)
  BY DEF Ownership, RunStages
<1>3. CASE MintFresh(n)
  <2>1. rPc[n] = "fresh" /\ rPc' = [rPc EXCEPT ![n] = "admit"]
    BY <1>3 DEF MintFresh
  <2>2. assigned[n] = 0
    BY <1>2, <2>1 DEF RunStage
  <2> QED BY <1>1, <2>1, <2>2, StageOwns
<1>4. CASE Admit(n)
  <2>1. assigned[n] = 0 /\ settled[n] = 0
    <3>1. settled[n] \in Nat /\ assigned[n] \in Nat
      BY ConfigAssumption DEF TypeInv, TypeOK, RunsTypeOK
    <3> QED BY <1>2, <1>4, <3>1 DEF Admit, RunStage
  <2>2. \E to \in {"failed", "assign"} : rPc' = [rPc EXCEPT ![n] = to]
    BY <1>4 DEF Admit
  <2> QED BY <1>1, <2>1, <2>2, StageOwns
<1>5. CASE Race(n)
  <2>1. assigned[n] = Len(took[n]) /\ \E to \in {"settle", "failed"} : rPc' = [rPc EXCEPT ![n] = to]
    BY <1>5 DEF Race
  <2> QED BY <1>1, <2>1, StageOwns
<1>6. CASE SimFails(n) \/ CreditFails(n) \/ SaveFails(n) \/ RoundCreditFails(n)
  BY <1>1, <1>6, StageOwns DEF SimFails, CreditFails, SaveFails, RoundCreditFails
<1>7. CASE CreditWinner(n)
  BY <1>1, <1>2, <1>7, StageOwns DEF CreditWinner, RunStage
<1>8. CASE SaveManifest(n) \/ SettleRoundBet(n)
  <2>1. rPc' = [rPc EXCEPT ![n] = "roundBets"]
    BY <1>8 DEF SaveManifest, SettleRoundBet
  <2> QED BY <1>1, <2>1, StageOwns
<1>9. CASE FinishRound(n)
  BY <1>1, <1>9, StageOwns DEF FinishRound
<1> QED BY <1>3, <1>4, <1>5, <1>6, <1>7, <1>8, <1>9
-----------------------------------------------------------------------------
(* Every step.                                                             *)

IInv == TypeInv /\ Ownership

\* A step that touches no session, no queue and no bet request.
LEMMA OtherFrame ==
  ASSUME Ownership, UNCHANGED StageVars, UNCHANGED rPc
  PROVE  Ownership'
<1>1. Held'
  BY HeldFrame DEF Held, Ownership, HolderVars, StageVars
<1>2. RunStages'
  BY StagesFrame DEF Ownership, StageVars
<1> QED BY <1>1, <1>2 DEF Held, Ownership

\* Opening or closing a session keeps the inductive invariant.
LEMMA SessionStepInv ==
  ASSUME IInv, NEW s \in Sessions, OpenSession(s) \/ CloseSession(s)
  PROVE  IInv'
<1> USE DEF IInv
<1>1. TypeInv'
  BY OpenSessionType, CloseSessionType
<1>2. CASE OpenSession(s)
  <2>1. ~Live(s) /\ sState' = [sState EXCEPT ![s] = "OPEN"]
        /\ UNCHANGED <<sBet, cPc, cReq, pending, rPc, took, assigned, settled>>
    BY <1>2 DEF OpenSession, Open, Live, queueVars, betVars, runVars
  <2> QED BY <1>1, <2>1, IdleSessionFrame
<1>3. CASE CloseSession(s)
  <2>1. ~Live(s) /\ sState' = [sState EXCEPT ![s] = "CLOSED"]
        /\ UNCHANGED <<sBet, cPc, cReq, pending, rPc, took, assigned, settled>>
    BY <1>3 DEF CloseSession, Close, CanClose, Live, queueVars, betVars, runVars
  <2> QED BY <1>1, <2>1, IdleSessionFrame
<1> QED BY <1>2, <1>3

\* Every step of PlaceBet keeps the inductive invariant.
LEMMA BetCallInv ==
  ASSUME IInv, NEW c \in BetCalls, DebitStake(c) \/ RefuseBet(c) \/ BetStep(c)
  PROVE  IInv'
<1> USE DEF IInv, BetStep
<1>1. TypeInv'
  BY DebitStakeType, RefuseBetType, AttachToSessionType, RejectAttachType,
     RefundStakeType, LoseRefundType, EnqueueBetType
<1>2. CASE DebitStake(c) \/ RefuseBet(c) \/ RejectAttach(c) \/ RefundStake(c) \/ LoseRefund(c)
  <2>1. /\ cPc[c] \in {"idle", "debited", "refunding"}
        /\ \E to \in {"debited", "refused", "refunding"} : cPc' = [cPc EXCEPT ![c] = to]
        /\ UNCHANGED HolderVars /\ UNCHANGED rPc
    BY <1>2
    DEF DebitStake, RefuseBet, RejectAttach, RefundStake, LoseRefund, BetMoves,
        HolderVars, sessionVars, queueVars, runVars
  <2> QED BY <1>1, <2>1, RequestFrame
<1>3. CASE AttachToSession(c)
  BY <1>1, <1>3, AttachToSessionOwns
<1>4. CASE EnqueueBet(c)
  BY <1>1, <1>4, EnqueueBetOwns
<1> QED BY <1>2, <1>3, <1>4

\* Every step of GenerateRoundSpec keeps the inductive invariant.
LEMMA StartCallInv ==
  ASSUME IInv, NEW g \in StartCalls, MintSpec(g) \/ RegisterSpec(g)
  PROVE  IInv'
<1>1. TypeInv'
  BY MintSpecType, RegisterSpecType DEF IInv
<1>2. UNCHANGED StageVars /\ UNCHANGED rPc
  BY DEF MintSpec, RegisterSpec, StageVars, sessionVars, queueVars, betVars, runVars
<1> QED BY <1>1, <1>2, OtherFrame DEF IInv

\* Every step of PlaceBetOnRound keeps the inductive invariant.
LEMMA RoundBetCallInv ==
  ASSUME IInv, NEW c \in RoundBetCalls, FindRound(c) \/ RefuseRoundBet(c) \/ RoundBetStep(c)
  PROVE  IInv'
<1> USE DEF RoundBetStep
<1>1. TypeInv'
  BY FindRoundType, RefuseRoundBetType, DebitRoundBetType, RefuseRoundDebitType,
     ConfirmRoundBetType, MissRoundType, RefundRoundBetType, LoseRoundRefundType DEF IInv
<1>2. UNCHANGED StageVars /\ UNCHANGED rPc
  BY DEF FindRound, RefuseRoundBet, DebitRoundBet, RefuseRoundDebit, ConfirmRoundBet,
         MissRound, RefundRoundBet, LoseRoundRefund, RoundBetMoves,
         StageVars, sessionVars, betVars, runVars
<1> QED BY <1>1, <1>2, OtherFrame DEF IInv

\* Every step of RunNextRound keeps the inductive invariant.
LEMMA RunCallInv ==
  ASSUME IInv, NEW n \in RunCalls, TakeQueue(n) \/ RunStep(n)
  PROVE  IInv'
<1> USE DEF IInv, RunStep
<1>1. CreditWinner(n) => sBet[Settling(n)] \in BetCalls
  <2> SUFFICES ASSUME CreditWinner(n) PROVE sBet[Settling(n)] \in BetCalls
    OBVIOUS
  <2>1. settled[n] < Len(took[n]) /\ settled[n] \in Nat /\ Len(took[n]) \in Nat
    BY ConfigAssumption DEF CreditWinner, HoldsWinner, TypeInv, TypeOK, RunsTypeOK
  <2>2. settled[n] + 1 \in Unsettled(n)
    BY <2>1 DEF Unsettled
  <2> QED BY <2>2 DEF Ownership, RunHolds, Accepted, Settling
<1>2. TypeInv'
  BY <1>1, TakeQueueType, MintFreshType, AdmitType, LockMarbleType, RaceType,
     SimFailsType, CreditWinnerType, CreditFailsType, SettleSessionType,
     SaveManifestType, SaveFailsType, SettleRoundBetType, RoundCreditFailsType,
     FinishRoundType
<1>3. Ownership'
  BY TakeQueueOwns, LockMarbleOwns, SettleSessionOwns, RunStagesOwn
<1> QED BY <1>2, <1>3

\* The inductive invariant.
THEOREM Invariance == Spec => []IInv
<1>1. Init => IInv
  BY InitTypeInv, InitOwnership DEF IInv
<1>2. IInv /\ [Next]_vars => IInv'
  <2> SUFFICES ASSUME IInv, [Next]_vars PROVE IInv'
    OBVIOUS
  <2>1. CASE Next
    BY <2>1, SessionStepInv, BetCallInv, StartCallInv, RoundBetCallInv, RunCallInv DEF Next
  <2>2. CASE UNCHANGED vars
    <3>1. Ownership'
      BY <2>2, OtherFrame
      DEF IInv, vars, StageVars, sessionVars, queueVars, betVars, runVars
    <3>2. TypeInv'
      BY <2>2
      DEF IInv, vars, TypeInv, TypeOK, SessionTypeOK, WalletTypeOK, QueueTypeOK,
          CallsTypeOK, RunsTypeOK, FieldFits, walletVars, sessionVars, queueVars,
          trackVars, betVars, roundBetVars, runVars
    <3> QED BY <3>1, <3>2 DEF IInv
  <2> QED BY <2>1, <2>2
<1> QED BY <1>1, <1>2, PTL DEF Spec
-----------------------------------------------------------------------------
(* What follows from it.                                                   *)

\* Every variable keeps the type of what it stands for, whatever the calls,
\* the sizes and the faults.
THEOREM TypeCorrect == Spec => []TypeOK
<1>1. IInv => TypeOK
  BY DEF IInv, TypeInv
<1> QED BY <1>1, Invariance, PTL

\* A session with an unsettled bet is in exactly one place, one without is in
\* none: however the requests overlap no bet is raced twice or dropped.
THEOREM BetsHeldOnce == Spec => []HeldOnce
<1>1. IInv => HeldOnce
  <2> SUFFICES ASSUME IInv, NEW s \in Sessions
               PROVE  IF Live(s) THEN \E p \in Places(s) : Places(s) = {p} ELSE Places(s) = {}
    BY DEF HeldOnce
  <2> USE DEF IInv
  <2>1. \A c, d \in BetCalls : InCall(c, s) /\ InCall(d, s) => c = d
    BY DEF Ownership, CallHolds, InCall
  <2>2. \A c \in BetCalls : InCall(c, s) =>
          /\ \A i \in 1..Len(pending) : ~InQueue(i, s)
          /\ \A n \in RunCalls : \A i \in 1..Len(took[n]) : ~InRun(n, i, s)
    BY DEF Ownership, CallHolds, QueueHolds, RunHolds, Accepted, Unsettled, InCall, InQueue, InRun
  <2>3. \A i, j \in 1..Len(pending) : InQueue(i, s) /\ InQueue(j, s) => i = j
    BY DEF Ownership, QueuedOnce, InQueue
  <2>4. \A i \in 1..Len(pending) : InQueue(i, s) =>
          \A n \in RunCalls : \A j \in 1..Len(took[n]) : ~InRun(n, j, s)
    BY DEF Ownership, QueuedOrTaken, InQueue, InRun, Unsettled
  <2>5. \A m, n \in RunCalls : \A i \in 1..Len(took[m]) : \A j \in 1..Len(took[n]) :
          InRun(m, i, s) /\ InRun(n, j, s) => m = n /\ i = j
    BY DEF Ownership, TakenOnce, InRun, Unsettled
  <2>6. Live(s) =>
          \/ \E c \in BetCalls : InCall(c, s)
          \/ \E i \in 1..Len(pending) : InQueue(i, s)
          \/ \E n \in RunCalls : \E i \in 1..Len(took[n]) : InRun(n, i, s)
    <3>1. \A n \in RunCalls : \A i \in Unsettled(n) : i \in 1..Len(took[n])
      BY UnsettledType
    <3> QED BY <3>1 DEF Ownership, HeldSomewhere, InQueue, InRun, Unsettled
  <2>7. ~Live(s) => Places(s) = {}
    BY NotHeld DEF Places, InQueue, InRun, Unsettled
  <2>8. \A p, q \in Places(s) : p = q
    <3> DEFINE Called(p)  == \E c \in BetCalls : InCall(c, s) /\ p = <<"call", c>>
               Waiting(p) == \E i \in 1..Len(pending) : InQueue(i, s) /\ p = <<"queue", i>>
               Running(p) == \E n \in RunCalls : \E i \in 1..Len(took[n]) :
                               InRun(n, i, s) /\ p = <<"run", n, i>>
    <3>1. \A p \in Places(s) : Called(p) \/ Waiting(p) \/ Running(p)
      BY DEF Places
    <3>2. \A p, q : Called(p) /\ Called(q) => p = q
      BY <2>1
    <3>3. \A p, q : Waiting(p) /\ Waiting(q) => p = q
      BY <2>3
    <3>4. \A p, q : Running(p) /\ Running(q) => p = q
      BY <2>5
    <3>5. \A p, q : Called(p) => ~Waiting(q) /\ ~Running(q)
      BY <2>2
    <3>6. \A p, q : Waiting(p) => ~Running(q)
      BY <2>4
    <3> HIDE DEF Called, Waiting, Running
    <3> QED BY <3>1, <3>2, <3>3, <3>4, <3>5, <3>6
  <2>9. Live(s) => \E p : p \in Places(s)
    <3>1. \A c \in BetCalls : InCall(c, s) => <<"call", c>> \in Places(s)
      BY DEF Places
    <3>2. \A i \in 1..Len(pending) : InQueue(i, s) => <<"queue", i>> \in Places(s)
      BY DEF Places
    <3>3. \A n \in RunCalls : \A i \in 1..Len(took[n]) :
            InRun(n, i, s) => <<"run", n, i>> \in Places(s)
      BY DEF Places
    <3> QED BY <2>6, <3>1, <3>2, <3>3
  <2> QED BY <2>7, <2>8, <2>9
<1> QED BY <1>1, Invariance, PTL

\* AssignMarble and Settle never refuse a session a run has taken, and the bet
\* they read is there.
THEOREM RunsNeverRefused == Spec => []RunNeverRefused
<1>1. IInv => RunNeverRefused
  <2> SUFFICES ASSUME IInv, NEW n \in RunCalls
      PROVE /\ rPc[n] = "assign" /\ assigned[n] < Len(took[n]) =>
                 CanAssignMarble(took[n][assigned[n] + 1])
            /\ rPc[n] \in {"settle", "credited"} /\ settled[n] < Len(took[n]) =>
                 CanSettle(Settling(n)) /\ sBet[Settling(n)] # NoBet
    BY DEF RunNeverRefused
  <2>0. /\ assigned[n] \in Nat /\ settled[n] \in Nat /\ Len(took[n]) \in Nat /\ RunStage(n)
        /\ NoBet \notin BetCalls
    BY ConfigAssumption, RequestAssumption
    DEF IInv, TypeInv, TypeOK, RunsTypeOK, Ownership, RunStages
  <2>1. ASSUME rPc[n] = "assign", assigned[n] < Len(took[n])
        PROVE  CanAssignMarble(took[n][assigned[n] + 1])
    <3>1. assigned[n] + 1 \in Unsettled(n)
      BY <2>0, <2>1 DEF RunStage, Unsettled
    <3>2. ~(assigned[n] + 1 <= assigned[n])
      BY <2>0
    <3> QED BY <2>0, <3>1, <3>2 DEF IInv, Ownership, RunHolds, Accepted, CanAssignMarble
  <2>2. ASSUME rPc[n] \in {"settle", "credited"}, settled[n] < Len(took[n])
        PROVE  CanSettle(Settling(n)) /\ sBet[Settling(n)] # NoBet
    <3>1. settled[n] + 1 \in Unsettled(n) /\ settled[n] + 1 <= assigned[n]
      BY <2>0, <2>2 DEF RunStage, Unsettled
    <3> QED BY <2>0, <3>1 DEF IInv, Ownership, RunHolds, Accepted, CanSettle, Settling
  <2> QED BY <2>1, <2>2
<1> QED BY <1>1, Invariance, PTL

HIDE DEF TypeOK, SessionTypeOK, QueueTypeOK, CallsTypeOK, RunsTypeOK, FieldFits,
         BetPoints, RoundBetPoints, RunPoints, SessionStates,
         sessionVars, queueVars, trackVars, betVars, roundBetVars, runVars
-----------------------------------------------------------------------------
(* Part 2: which bets a round settles.                                      *)

\* The FIFO of pre-minted rounds holds registered rounds, each of them once.
PendingOnce ==
  /\ \A i \in 1..Len(pendingRounds) : gPc[pendingRounds[i]] = "registered"
  /\ \A i, j \in 1..Len(pendingRounds) : pendingRounds[i] = pendingRounds[j] => i = j

\* A run plays the round it minted itself, or one it took from the FIFO.
RunsHaveRounds ==
  \A n \in RunCalls :
    \/ rRound[n] = n
    \/ Taken(n) /\ rRound[n] \in StartCalls /\ gPc[rRound[n]] = "registered"

RoundsTakenOnce ==
  \A m, n \in RunCalls : Taken(m) /\ Taken(n) /\ rRound[m] = rRound[n] => m = n

TakenNotPending ==
  \A n \in RunCalls : Taken(n) =>
    \A i \in 1..Len(pendingRounds) : pendingRounds[i] # rRound[n]

\* With these the steps of other requests cannot touch the round of a run.
RoundIds == PendingOnce /\ RunsHaveRounds /\ RoundsTakenOnce /\ TakenNotPending

\* The GET endpoint knows a round from its registration on; until then it has
\* no bets, and from then on both lists of its bets agree.
BothLists ==
  /\ \A g \in StartCalls : g \in DOMAIN roundBets <=> gPc[g] = "registered"
  /\ \A n \in RunCalls : n \in DOMAIN roundBets => Taken(n)
  /\ \A r \in Rounds \ DOMAIN roundBets : prBets[r] = <<>>
  /\ \A r \in DOMAIN roundBets : roundBets[r] = prBets[r]

\* The bets of a round are the accepted bets that name it, each once.
Recorded ==
  /\ \A r \in Rounds : \A i \in 1..Len(prBets[r]) :
       bPc[prBets[r][i]] = "accepted" /\ bReq[prBets[r][i]].round = r
  /\ \A r \in Rounds : \A i, j \in 1..Len(prBets[r]) : prBets[r][i] = prBets[r][j] => i = j
  /\ \A c \in RoundBetCalls : bPc[c] = "accepted" =>
       \E i \in 1..Len(prBets[bReq[c].round]) : prBets[bReq[c].round][i] = c

\* A manifest belongs to a run that is past saving it.
SavedOnce ==
  /\ \A i \in 1..Len(manifests) : \E n \in RunCalls :
       rRound[n] = manifests[i].round /\ rPc[n] \in {"roundBets", "done", "failed"}
  /\ \A i, j \in 1..Len(manifests) : manifests[i].round = manifests[j].round => i = j

RoundInv == RoundIds /\ BothLists /\ Recorded /\ SavedOnce

RoundVars ==
  <<pendingRounds, prBets, roundBets, bPc, bReq, gPc, rPc, rRound, manifests>>
-----------------------------------------------------------------------------
(* What the types say of the state RoundInv speaks of.                     *)

RoundTypes ==
  /\ pendingRounds \in Seq(StartCalls)
  /\ prBets \in [Rounds -> Seq(RoundBetCalls)]
  /\ DOMAIN roundBets \subseteq Rounds
  /\ roundBets \in [DOMAIN roundBets -> Seq(RoundBetCalls)]
  /\ bPc \in [RoundBetCalls -> RoundBetPoints]
  /\ bReq \in [RoundBetCalls -> RoundBetRequests]
  /\ \A c \in RoundBetCalls : bReq[c].round \in Rounds
  /\ gPc \in [StartCalls -> {"idle", "minted", "registered"}]
  /\ rPc \in [RunCalls -> RunPoints]
  /\ rRound \in [RunCalls -> Rounds]
  /\ manifests \in Seq([round : Rounds, track : Int, winner : Int])
  /\ Rounds = StartCalls \cup RunCalls
  /\ StartCalls \cap RunCalls = {}

\* The part of the type invariant the rounds need.
LEMMA RoundsTyped == TypeInv => RoundTypes
  BY RequestAssumption, CallsAssumption
  DEF TypeInv, TypeOK, QueueTypeOK, CallsTypeOK, RunsTypeOK, RoundTypes, Rounds

\* At the start nothing is registered, taken, accepted or saved.
LEMMA InitRoundInv == Init => RoundInv
  BY CallsAssumption
  DEF Init, RoundInv, RoundIds, PendingOnce, RunsHaveRounds, RoundsTakenOnce,
      TakenNotPending, BothLists, Recorded, SavedOnce, Taken, Rounds
-----------------------------------------------------------------------------
(* Frames: the parts of RoundInv under steps that leave their state alone. *)

\* A step that neither registers nor takes a round.
LEMMA RoundIdsFrame ==
  ASSUME RoundIds, UNCHANGED <<pendingRounds, rRound>>,
         \A n \in RunCalls : Taken(n)' <=> Taken(n),
         \A g \in StartCalls : gPc[g] = "registered" => gPc'[g] = "registered",
         RoundTypes
  PROVE  RoundIds'
<1>1. PendingOnce'
  BY DEF RoundIds, PendingOnce, RoundTypes
<1>2. RunsHaveRounds' /\ RoundsTakenOnce' /\ TakenNotPending'
  BY DEF RoundIds, RunsHaveRounds, RoundsTakenOnce, TakenNotPending
<1> QED BY <1>1, <1>2 DEF RoundIds

\* A step that touches neither list of bets.
LEMMA BothListsFrame ==
  ASSUME BothLists, UNCHANGED <<prBets, roundBets>>,
         \A n \in RunCalls : Taken(n) => Taken(n)',
         \A g \in StartCalls : gPc'[g] = "registered" <=> gPc[g] = "registered"
  PROVE  BothLists'
  BY DEF BothLists

\* A step in which no round bet is accepted.
LEMMA RecordedFrame ==
  ASSUME Recorded, UNCHANGED <<prBets, bReq>>,
         \A c \in RoundBetCalls : bPc'[c] = "accepted" <=> bPc[c] = "accepted",
         RoundTypes
  PROVE  Recorded'
<1>1. \A r \in Rounds : \A i \in 1..Len(prBets[r]) : prBets[r][i] \in RoundBetCalls
  BY DEF RoundTypes
<1> QED BY <1>1 DEF Recorded

\* A step that saves no manifest and keeps the runs past saving one there.
LEMMA SavedFrame ==
  ASSUME SavedOnce, UNCHANGED manifests,
         \A n \in RunCalls : rPc[n] \in {"roundBets", "done", "failed"} =>
           rPc'[n] \in {"roundBets", "done", "failed"} /\ rRound'[n] = rRound[n]
  PROVE  SavedOnce'
  BY DEF SavedOnce

\* A step that touches none of the state RoundInv speaks of.
LEMMA RoundFrame ==
  ASSUME TypeInv, RoundInv, UNCHANGED RoundVars
  PROVE  RoundInv'
<1> USE DEF RoundInv, RoundVars
<1>1. \A n \in RunCalls : Taken(n)' <=> Taken(n)
  BY DEF Taken
<1> QED BY <1>1, RoundsTyped, RoundIdsFrame, BothListsFrame, RecordedFrame, SavedFrame
-----------------------------------------------------------------------------
(* GenerateRoundSpec.                                                      *)

\* Picking the track registers nothing.
LEMMA MintSpecRounds ==
  ASSUME TypeInv, RoundInv, NEW g \in StartCalls, MintSpec(g)
  PROVE  RoundInv'
<1> USE DEF RoundInv
<1>1. /\ gPc[g] = "idle" /\ gPc' = [gPc EXCEPT ![g] = "minted"]
      /\ UNCHANGED <<pendingRounds, prBets, roundBets, bPc, bReq, rPc, rRound, manifests>>
  BY DEF MintSpec, queueVars, roundBetVars, runVars
<1>2. \A h \in StartCalls : gPc'[h] = "registered" <=> gPc[h] = "registered"
  BY <1>1, RoundsTyped DEF RoundTypes
<1>3. \A n \in RunCalls : Taken(n)' <=> Taken(n)
  BY <1>1 DEF Taken
<1> QED BY <1>1, <1>2, <1>3, RoundsTyped, RoundIdsFrame, BothListsFrame, RecordedFrame, SavedFrame

\* A round is registered once: it was in no list and no run had it.
LEMMA RegisterSpecRounds ==
  ASSUME TypeInv, RoundInv, NEW g \in StartCalls, RegisterSpec(g)
  PROVE  RoundInv'
<1> DEFINE last == Len(pendingRounds) + 1
<1> USE DEF RoundInv
<1>0. RoundTypes
  BY RoundsTyped
<1>1. /\ gPc[g] = "minted" /\ gPc' = [gPc EXCEPT ![g] = "registered"]
      /\ pendingRounds' = Append(pendingRounds, g)
      /\ roundBets' = Remember(roundBets, g)
      /\ UNCHANGED <<prBets, bPc, bReq, rPc, rRound, manifests>>
  BY DEF RegisterSpec, roundBetVars, runVars
<1>2. \A h \in StartCalls : gPc'[h] = "registered" <=> gPc[h] = "registered" \/ h = g
  BY <1>0, <1>1 DEF RoundTypes
<1>3. \A n \in RunCalls : Taken(n)' <=> Taken(n)
  BY <1>1 DEF Taken
<1>4. /\ Len(pendingRounds) \in Nat /\ Len(pendingRounds') = last /\ pendingRounds'[last] = g
      /\ \A i \in 1..Len(pendingRounds) :
           pendingRounds'[i] = pendingRounds[i] /\ pendingRounds[i] \in StartCalls
      /\ \A i \in 1..last : i \in 1..Len(pendingRounds) \/ i = last
  BY <1>0, <1>1 DEF RoundTypes
<1>5. \A i \in 1..Len(pendingRounds) : pendingRounds[i] # g
  BY <1>1 DEF RoundIds, PendingOnce
<1>6. \A n \in RunCalls : rRound[n] # g
  BY ZenonT(30), <1>0, <1>1 DEF RoundIds, RunsHaveRounds, RoundTypes
<1>7. PendingOnce'
  <2>1. \A i \in 1..last : gPc'[pendingRounds'[i]] = "registered"
    BY <1>2, <1>4 DEF RoundIds, PendingOnce
  <2>2. \A i, j \in 1..last : pendingRounds'[i] = pendingRounds'[j] => i = j
    BY <1>4, <1>5 DEF RoundIds, PendingOnce
  <2> QED BY <1>4, <2>1, <2>2 DEF PendingOnce
<1>8. RunsHaveRounds' /\ RoundsTakenOnce'
  BY <1>1, <1>2, <1>3 DEF RoundIds, RunsHaveRounds, RoundsTakenOnce
<1>9. TakenNotPending'
  <2> SUFFICES ASSUME NEW n \in RunCalls, Taken(n), NEW i \in 1..last
               PROVE  pendingRounds'[i] # rRound[n]
    BY <1>1, <1>3, <1>4 DEF TakenNotPending
  <2> QED BY <1>4, <1>6 DEF RoundIds, TakenNotPending
<1>10. BothLists'
  <2>1. g \notin DOMAIN roundBets /\ prBets[g] = <<>>
    BY <1>0, <1>1 DEF BothLists, RoundTypes
  <2>2. /\ DOMAIN roundBets' = DOMAIN roundBets \cup {g}
        /\ roundBets'[g] = <<>>
        /\ \A r \in DOMAIN roundBets : roundBets'[r] = roundBets[r]
    BY <1>1, <2>1 DEF Remember
  <2>3. \A h \in StartCalls : h \in DOMAIN roundBets' <=> gPc'[h] = "registered"
    BY <1>2, <2>2 DEF BothLists
  <2>4. \A n \in RunCalls : n \in DOMAIN roundBets' => Taken(n)'
    BY <1>0, <1>3, <2>2 DEF BothLists, RoundTypes
  <2>5. /\ \A r \in Rounds \ DOMAIN roundBets' : prBets'[r] = <<>>
        /\ \A r \in DOMAIN roundBets' : roundBets'[r] = prBets'[r]
    BY <1>1, <2>1, <2>2 DEF BothLists
  <2> QED BY <2>3, <2>4, <2>5 DEF BothLists
<1>11. RoundIds'
  BY <1>7, <1>8, <1>9 DEF RoundIds
<1>12. Recorded' /\ SavedOnce'
  BY <1>0, <1>1, RecordedFrame, SavedFrame
<1> QED BY <1>10, <1>11, <1>12
-----------------------------------------------------------------------------
(* PlaceBetOnRound.                                                        *)

\* A round bet that moves without being accepted.
LEMMA RoundBetFrame ==
  ASSUME TypeInv, RoundInv, NEW c \in RoundBetCalls, NEW to,
         bPc[c] # "accepted", to # "accepted", bPc' = [bPc EXCEPT ![c] = to],
         UNCHANGED <<pendingRounds, prBets, roundBets, bReq, gPc, rPc, rRound, manifests>>
  PROVE  RoundInv'
<1> USE DEF RoundInv
<1>1. \A d \in RoundBetCalls : bPc'[d] = "accepted" <=> bPc[d] = "accepted"
  BY RoundsTyped DEF RoundTypes
<1>2. \A n \in RunCalls : Taken(n)' <=> Taken(n)
  BY DEF Taken
<1> QED BY <1>1, <1>2, RoundsTyped, RoundIdsFrame, BothListsFrame, RecordedFrame, SavedFrame

\* A bet is recorded in both lists of a round that is still pending.
LEMMA ConfirmRounds ==
  ASSUME TypeInv, RoundInv, NEW c \in RoundBetCalls, ConfirmRoundBet(c)
  PROVE  RoundInv'
<1> DEFINE r    == bReq[c].round
           last == Len(prBets[r]) + 1
<1> USE DEF RoundInv
<1>0. RoundTypes
  BY RoundsTyped
<1>1. /\ bPc[c] = "debited" /\ bPc' = [bPc EXCEPT ![c] = "accepted"]
      /\ IsPending(r)
      /\ prBets' = [prBets EXCEPT ![r] = Append(@, c)]
      /\ roundBets' = [roundBets EXCEPT ![r] = Append(@, c)]
      /\ UNCHANGED <<pendingRounds, bReq, gPc, rPc, rRound, manifests>>
  BY DEF ConfirmRoundBet, RoundBetMoves, runVars
<1>2. r \in Rounds /\ r \in DOMAIN roundBets
  BY <1>0, <1>1 DEF IsPending, RoundIds, PendingOnce, BothLists, RoundTypes
<1>3. \A n \in RunCalls : Taken(n)' <=> Taken(n)
  BY <1>1 DEF Taken
<1>4. RoundIds' /\ SavedOnce'
  BY <1>0, <1>1, <1>3, RoundIdsFrame, SavedFrame
<1>5. BothLists'
  <2>1. DOMAIN roundBets' = DOMAIN roundBets
    BY <1>1
  <2>2. \A x \in DOMAIN roundBets : roundBets'[x] = prBets'[x]
    BY <1>0, <1>1, <1>2 DEF BothLists, RoundTypes
  <2>3. \A x \in Rounds \ DOMAIN roundBets : prBets'[x] = <<>>
    BY <1>0, <1>1, <1>2 DEF BothLists, RoundTypes
  <2> QED BY <1>1, <1>3, <2>1, <2>2, <2>3 DEF BothLists
<1>6. Recorded'
  <2>1. /\ Len(prBets[r]) \in Nat /\ Len(prBets'[r]) = last /\ prBets'[r][last] = c
        /\ \A i \in 1..Len(prBets[r]) : prBets'[r][i] = prBets[r][i] /\ i \in 1..last
        /\ \A i \in 1..last : i \in 1..Len(prBets[r]) \/ i = last
        /\ \A x \in Rounds \ {r} : prBets'[x] = prBets[x]
    BY <1>0, <1>1, <1>2 DEF RoundTypes
  <2>2. \A x \in Rounds : \A i \in 1..Len(prBets[x]) :
          prBets[x][i] \in RoundBetCalls \ {c}
    BY <1>0, <1>1 DEF Recorded, RoundTypes
  <2>3. \A d \in RoundBetCalls : bPc'[d] = "accepted" <=> bPc[d] = "accepted" \/ d = c
    BY <1>0, <1>1 DEF RoundTypes
  <2>4. ASSUME NEW x \in Rounds, NEW i \in 1..Len(prBets'[x])
        PROVE  bPc'[prBets'[x][i]] = "accepted" /\ bReq'[prBets'[x][i]].round = x
    BY <1>1, <2>1, <2>2, <2>3 DEF Recorded
  <2>5. ASSUME NEW x \in Rounds, NEW i \in 1..Len(prBets'[x]), NEW j \in 1..Len(prBets'[x]),
               prBets'[x][i] = prBets'[x][j]
        PROVE  i = j
    <3>1. CASE x # r
      BY <2>1, <2>5, <3>1 DEF Recorded
    <3>2. CASE x = r
      <4>1. i \in 1..last /\ j \in 1..last /\ prBets'[r][i] = prBets'[r][j]
        BY <2>1, <2>5, <3>2
      <4>2. CASE i \in 1..Len(prBets[r]) /\ j \in 1..Len(prBets[r])
        BY SMTT(30), <1>2, <2>1, <4>1, <4>2 DEF Recorded
      <4>3. CASE i = last \/ j = last
        <5>1. \A k \in 1..Len(prBets[r]) : prBets'[r][k] # c
          BY <1>2, <2>1, <2>2
        <5>2. prBets'[r][i] = c /\ prBets'[r][j] = c
          BY <2>1, <4>1, <4>3
        <5> QED BY <2>1, <4>1, <5>1, <5>2
      <4> QED BY <2>1, <4>1, <4>2, <4>3
    <3> QED BY <3>1, <3>2
  <2>6. ASSUME NEW d \in RoundBetCalls, bPc'[d] = "accepted"
        PROVE  \E i \in 1..Len(prBets'[bReq[d].round]) : prBets'[bReq[d].round][i] = d
    <3>1. CASE d = c
      <4>1. last \in 1..Len(prBets'[r]) /\ prBets'[r][last] = d
        BY <2>1, <3>1
      <4> QED BY <3>1, <4>1
    <3>2. CASE d # c
      <4>1. PICK i \in 1..Len(prBets[bReq[d].round]) : prBets[bReq[d].round][i] = d
        BY <2>3, <2>6, <3>2 DEF Recorded
      <4>2. bReq[d].round \in Rounds
        BY <1>0 DEF RoundTypes
      <4> QED BY <2>1, <4>1, <4>2
    <3> QED BY <3>1, <3>2
  <2>7. \A d \in RoundBetCalls : bReq'[d] = bReq[d]
    BY <1>1
  <2>8. \A d \in RoundBetCalls : bPc'[d] = "accepted" =>
          \E i \in 1..Len(prBets'[bReq'[d].round]) : prBets'[bReq'[d].round][i] = d
    BY <2>6, <2>7
  <2> QED BY <2>4, <2>5, <2>8 DEF Recorded
<1> QED BY <1>4, <1>5, <1>6
-----------------------------------------------------------------------------
(* RunNextRound.                                                           *)

\* A run takes the head of the FIFO, or will mint a round of its own.
LEMMA TakeQueueRounds ==
  ASSUME TypeInv, RoundInv, NEW n \in RunCalls, TakeQueue(n)
  PROVE  RoundInv'
<1> USE DEF RoundInv
<1>0. RoundTypes
  BY RoundsTyped
<1>1. /\ rPc[n] = "idle"
      /\ UNCHANGED <<prBets, roundBets, bPc, bReq, gPc, manifests>>
  BY DEF TakeQueue, RunMoves, roundBetVars
<1>2. \A m \in RunCalls \ {n} : Taken(m)' <=> Taken(m)
  BY <1>0 DEF TakeQueue, RunMoves, Taken, RoundTypes
<1>3. ~Taken(n) /\ rRound[n] = n
  BY <1>0, <1>1 DEF Taken, RoundIds, RunsHaveRounds
<1>4. \A m \in RunCalls \ {n} : rPc'[m] = rPc[m] /\ rRound'[m] = rRound[m]
  BY <1>0 DEF TakeQueue, RunMoves, RoundTypes
<1>5. RoundIds'
  <2>1. CASE pendingRounds = <<>>
    <3>1. UNCHANGED <<pendingRounds, rRound>> /\ rPc' = [rPc EXCEPT ![n] = "fresh"]
      BY <2>1 DEF TakeQueue, RunMoves
    <3>2. ~Taken(n)'
      BY <1>0, <3>1 DEF Taken, RoundTypes
    <3> QED BY <1>0, <1>1, <1>2, <1>3, <3>1, <3>2, RoundIdsFrame
  <2>2. CASE pendingRounds # <<>>
    <3>1. /\ rRound' = [rRound EXCEPT ![n] = Head(pendingRounds)]
          /\ pendingRounds' = Tail(pendingRounds)
          /\ rPc' = [rPc EXCEPT ![n] = "admit"]
      BY <2>2 DEF TakeQueue, RunMoves
    <3>2. /\ Len(pendingRounds) \in Nat \ {0} /\ Len(pendingRounds') = Len(pendingRounds) - 1
          /\ Head(pendingRounds) = pendingRounds[1] /\ pendingRounds[1] \in StartCalls
          /\ \A i \in 1..Len(pendingRounds') :
               pendingRounds'[i] = pendingRounds[i + 1] /\ i + 1 \in 1..Len(pendingRounds)
      BY <1>0, <2>2, <3>1 DEF RoundTypes
    <3>3. Taken(n)' /\ rRound'[n] = pendingRounds[1] /\ gPc[pendingRounds[1]] = "registered"
      <4>1. rPc'[n] = "admit" /\ rRound'[n] = pendingRounds[1]
        BY <1>0, <3>1, <3>2 DEF RoundTypes
      <4>2. 1 \in 1..Len(pendingRounds)
        BY <3>2
      <4> QED BY <4>1, <4>2 DEF Taken, RoundIds, PendingOnce
    <3>4. \A m \in RunCalls \ {n} : Taken(m) => rRound[m] # pendingRounds[1]
      BY <3>2 DEF RoundIds, TakenNotPending
    <3>5. PendingOnce'
      <4>1. \A i \in 1..Len(pendingRounds') : gPc'[pendingRounds'[i]] = "registered"
        BY <1>1, <3>2 DEF RoundIds, PendingOnce
      <4>2. \A i, j \in 1..Len(pendingRounds') : pendingRounds'[i] = pendingRounds'[j] => i = j
        BY <3>2 DEF RoundIds, PendingOnce
      <4> QED BY <4>1, <4>2 DEF PendingOnce
    <3>6. RunsHaveRounds'
      BY <1>1, <1>2, <1>4, <3>2, <3>3 DEF RoundIds, RunsHaveRounds
    <3>7. RoundsTakenOnce'
      BY <1>2, <1>4, <3>3, <3>4 DEF RoundIds, RoundsTakenOnce
    <3>8. TakenNotPending'
      <4> SUFFICES ASSUME NEW m \in RunCalls, Taken(m)', NEW i \in 1..Len(pendingRounds')
                   PROVE  pendingRounds'[i] # rRound'[m]
        BY DEF TakenNotPending
      <4>1. CASE m = n
        BY <3>2, <3>3, <4>1 DEF RoundIds, PendingOnce
      <4>2. CASE m # n
        BY <1>2, <1>4, <3>2, <4>2 DEF RoundIds, TakenNotPending
      <4> QED BY <4>1, <4>2
    <3> QED BY <3>5, <3>6, <3>7, <3>8 DEF RoundIds
  <2> QED BY <2>1, <2>2
<1>6. BothLists'
  BY <1>1, <1>2, <1>3, BothListsFrame
<1>7. Recorded'
  BY <1>0, <1>1, RecordedFrame
<1>8. SavedOnce'
  BY <1>1, <1>4, SavedFrame
<1> QED BY <1>5, <1>6, <1>7, <1>8

\* A run without a round mints its own, which nobody knew before.
LEMMA MintFreshRounds ==
  ASSUME TypeInv, RoundInv, NEW n \in RunCalls, MintFresh(n)
  PROVE  RoundInv'
<1> USE DEF RoundInv
<1>0. RoundTypes
  BY RoundsTyped
<1>1. /\ rPc[n] = "fresh" /\ rPc' = [rPc EXCEPT ![n] = "admit"]
      /\ roundBets' = Remember(roundBets, n)
      /\ UNCHANGED <<pendingRounds, prBets, bPc, bReq, gPc, rRound, manifests>>
  BY DEF MintFresh, RunMoves, roundBetVars
<1>2. /\ ~Taken(n) /\ rRound[n] = n /\ Taken(n)'
      /\ \A m \in RunCalls \ {n} : (Taken(m)' <=> Taken(m)) /\ rPc'[m] = rPc[m]
  BY <1>0, <1>1 DEF Taken, RoundIds, RunsHaveRounds, RoundTypes
<1>3. PendingOnce' /\ RunsHaveRounds'
  BY <1>1, <1>2 DEF RoundIds, PendingOnce, RunsHaveRounds
<1>4. \A m \in RunCalls \ {n} : rRound[m] # n
  BY <1>0 DEF RoundIds, RunsHaveRounds, RoundTypes
<1>5. RoundsTakenOnce'
  BY <1>1, <1>2, <1>4 DEF RoundIds, RoundsTakenOnce
<1>6. TakenNotPending'
  <2>1. \A i \in 1..Len(pendingRounds) : pendingRounds[i] # n
    BY <1>0 DEF RoundTypes
  <2> QED BY <1>1, <1>2, <2>1 DEF RoundIds, TakenNotPending
<1>7. BothLists'
  <2>1. n \notin DOMAIN roundBets /\ prBets[n] = <<>>
    BY <1>0, <1>2 DEF BothLists, RoundTypes
  <2>2. /\ DOMAIN roundBets' = DOMAIN roundBets \cup {n}
        /\ roundBets'[n] = <<>>
        /\ \A r \in DOMAIN roundBets : roundBets'[r] = roundBets[r]
    BY <1>1, <2>1 DEF Remember
  <2>3. \A h \in StartCalls : h \in DOMAIN roundBets' <=> gPc'[h] = "registered"
    BY <1>0, <1>1, <2>2 DEF BothLists, RoundTypes
  <2>4. \A m \in RunCalls : m \in DOMAIN roundBets' => Taken(m)'
    BY <1>2, <2>2 DEF BothLists
  <2>5. /\ \A r \in Rounds \ DOMAIN roundBets' : prBets'[r] = <<>>
        /\ \A r \in DOMAIN roundBets' : roundBets'[r] = prBets'[r]
    BY <1>1, <2>1, <2>2 DEF BothLists
  <2> QED BY <2>3, <2>4, <2>5 DEF BothLists
<1>8. Recorded' /\ SavedOnce'
  BY <1>0, <1>1, <1>2, RecordedFrame, SavedFrame
<1> QED BY <1>3, <1>5, <1>6, <1>7, <1>8 DEF RoundIds

\* A run that has its round moves on without saving a manifest.
LEMMA RunFrame ==
  ASSUME TypeInv, RoundInv, NEW n \in RunCalls, NEW to \in RunPoints,
         Taken(n), to \notin {"idle", "fresh"}, rPc' = [rPc EXCEPT ![n] = to],
         rPc[n] \in {"roundBets", "done", "failed"} => to \in {"roundBets", "done", "failed"},
         UNCHANGED <<pendingRounds, prBets, roundBets, bPc, bReq, gPc, rRound, manifests>>
  PROVE  RoundInv'
<1> USE DEF RoundInv
<1>0. RoundTypes
  BY RoundsTyped
<1>1. \A m \in RunCalls : Taken(m)' <=> Taken(m)
  BY <1>0 DEF Taken, RoundTypes
<1>2. \A m \in RunCalls : rPc[m] \in {"roundBets", "done", "failed"} =>
        rPc'[m] \in {"roundBets", "done", "failed"}
  BY <1>0 DEF RoundTypes
<1> QED BY <1>0, <1>1, <1>2, RoundIdsFrame, BothListsFrame, RecordedFrame, SavedFrame

\* The manifest of a run is the first of its round: only this run plays it.
LEMMA SaveManifestRounds ==
  ASSUME TypeInv, RoundInv, NEW n \in RunCalls, SaveManifest(n)
  PROVE  RoundInv'
<1> DEFINE last == Len(manifests) + 1
<1> USE DEF RoundInv
<1>0. RoundTypes
  BY RoundsTyped
<1>1. /\ rPc[n] = "settle" /\ rPc' = [rPc EXCEPT ![n] = "roundBets"]
      /\ manifests' = Append(manifests, [round |-> rRound[n], track |-> track[rRound[n]],
                                         winner |-> winner[n]])
      /\ UNCHANGED <<pendingRounds, prBets, roundBets, bPc, bReq, gPc, rRound>>
  BY DEF SaveManifest, RunMoves, roundBetVars, queueVars
<1>2. \A m \in RunCalls : Taken(m)' <=> Taken(m)
  BY <1>0, <1>1 DEF Taken, RoundTypes
<1>3. RoundIds' /\ BothLists' /\ Recorded'
  BY <1>0, <1>1, <1>2, RoundIdsFrame, BothListsFrame, RecordedFrame
<1>4. /\ Len(manifests) \in Nat /\ Len(manifests') = last /\ manifests'[last].round = rRound[n]
      /\ \A i \in 1..Len(manifests) : manifests'[i] = manifests[i]
      /\ \A i \in 1..last : i \in 1..Len(manifests) \/ i = last
  BY <1>0, <1>1 DEF RoundTypes
<1>5. \A i \in 1..Len(manifests) : manifests[i].round # rRound[n]
  <2> SUFFICES ASSUME NEW i \in 1..Len(manifests) PROVE manifests[i].round # rRound[n]
    OBVIOUS
  <2>1. PICK m \in RunCalls :
          rRound[m] = manifests[i].round /\ rPc[m] \in {"roundBets", "done", "failed"}
    BY DEF SavedOnce
  <2>2. Taken(m) /\ Taken(n) /\ m # n
    BY <1>1, <2>1 DEF Taken
  <2> QED BY <2>1, <2>2 DEF RoundIds, RoundsTakenOnce
<1>6. SavedOnce'
  <2>1. ASSUME NEW i \in 1..last
        PROVE  \E m \in RunCalls :
                 rRound'[m] = manifests'[i].round /\ rPc'[m] \in {"roundBets", "done", "failed"}
    <3>1. CASE i = last
      BY <1>0, <1>1, <1>4, <3>1 DEF RoundTypes
    <3>2. CASE i \in 1..Len(manifests)
      <4>1. PICK m \in RunCalls :
              rRound[m] = manifests[i].round /\ rPc[m] \in {"roundBets", "done", "failed"}
        BY <3>2 DEF SavedOnce
      <4> QED BY <1>0, <1>1, <1>4, <3>2, <4>1 DEF RoundTypes
    <3> QED BY <1>4, <3>1, <3>2
  <2>2. \A i, j \in 1..last : manifests'[i].round = manifests'[j].round => i = j
    BY <1>4, <1>5 DEF SavedOnce
  <2> QED BY <1>4, <2>1, <2>2 DEF SavedOnce
<1> QED BY <1>3, <1>6
-----------------------------------------------------------------------------
(* Every step.                                                             *)

\* Sessions and session bets know nothing of rounds.
LEMMA SessionStepRounds ==
  ASSUME TypeInv, RoundInv,
         \/ \E s \in Sessions : OpenSession(s) \/ CloseSession(s)
         \/ \E c \in BetCalls : DebitStake(c) \/ RefuseBet(c) \/ BetStep(c)
  PROVE  RoundInv'
<1>1. UNCHANGED RoundVars
  BY DEF RoundVars, OpenSession, CloseSession, DebitStake, RefuseBet, BetStep,
         AttachToSession, RejectAttach, RefundStake, LoseRefund, EnqueueBet, BetMoves,
         queueVars, roundBetVars, runVars
<1> QED BY <1>1, RoundFrame

\* Every step of PlaceBetOnRound keeps RoundInv.
LEMMA RoundBetStepRounds ==
  ASSUME TypeInv, RoundInv, NEW c \in RoundBetCalls,
         FindRound(c) \/ RefuseRoundBet(c) \/ RoundBetStep(c)
  PROVE  RoundInv'
<1>1. CASE ConfirmRoundBet(c)
  BY <1>1, ConfirmRounds
<1>2. CASE \/ FindRound(c) \/ RefuseRoundBet(c) \/ DebitRoundBet(c) \/ RefuseRoundDebit(c)
           \/ MissRound(c) \/ RefundRoundBet(c) \/ LoseRoundRefund(c)
  <2>1. /\ bPc[c] \in {"idle", "found", "debited", "refunding"}
        /\ \E to \in {"found", "debited", "refunding", "refused"} : bPc' = [bPc EXCEPT ![c] = to]
        /\ UNCHANGED <<pendingRounds, prBets, roundBets, bReq, gPc, rPc, rRound, manifests>>
    BY <1>2
    DEF FindRound, RefuseRoundBet, DebitRoundBet, RefuseRoundDebit, MissRound,
        RefundRoundBet, LoseRoundRefund, RoundBetMoves, runVars
  <2> QED BY <2>1, RoundBetFrame
<1> QED BY <1>1, <1>2 DEF RoundBetStep

\* Every step of RunNextRound keeps RoundInv.
LEMMA RunStepRounds ==
  ASSUME TypeInv, RoundInv, NEW n \in RunCalls, TakeQueue(n) \/ RunStep(n)
  PROVE  RoundInv'
<1>1. CASE TakeQueue(n) \/ MintFresh(n) \/ SaveManifest(n)
  BY <1>1, TakeQueueRounds, MintFreshRounds, SaveManifestRounds
<1>2. CASE \/ Admit(n) \/ LockMarble(n) \/ Race(n) \/ SimFails(n) \/ CreditWinner(n)
           \/ CreditFails(n) \/ SettleSession(n) \/ SaveFails(n)
  <2>1. /\ rPc[n] \in {"admit", "assign", "settle", "credited"}
        /\ \E to \in {"assign", "settle", "credited", "failed"} : rPc' = [rPc EXCEPT ![n] = to]
        /\ UNCHANGED <<pendingRounds, prBets, roundBets, bPc, bReq, gPc, rRound, manifests>>
    BY <1>2
    DEF Admit, LockMarble, Race, SimFails, CreditWinner, CreditFails, SettleSession,
        SaveFails, RunMoves, queueVars, roundBetVars
  <2> QED BY <2>1, RunFrame DEF Taken, RunPoints
<1>3. CASE SettleRoundBet(n) \/ RoundCreditFails(n) \/ FinishRound(n)
  <2>1. /\ rPc[n] = "roundBets"
        /\ \E to \in {"roundBets", "done", "failed"} : rPc' = [rPc EXCEPT ![n] = to]
        /\ UNCHANGED <<pendingRounds, prBets, roundBets, bPc, bReq, gPc, rRound, manifests>>
    BY <1>3
    DEF SettleRoundBet, RoundCreditFails, FinishRound, RunMoves, queueVars, roundBetVars
  <2> QED BY <2>1, RunFrame DEF Taken, RunPoints
<1> QED BY <1>1, <1>2, <1>3 DEF RunStep

\* A round is registered, taken, bet on and recorded as RoundInv says.
THEOREM RoundsInvariance == Spec => []RoundInv
<1>1. IInv /\ RoundInv /\ [Next]_vars => RoundInv'
  <2> SUFFICES ASSUME IInv, RoundInv, [Next]_vars PROVE RoundInv'
    OBVIOUS
  <2>0. TypeInv
    BY DEF IInv
  <2>1. CASE UNCHANGED vars
    BY <2>0, <2>1, RoundFrame DEF vars, RoundVars, queueVars, roundBetVars, runVars
  <2>2. CASE Next
    BY <2>0, <2>2, SessionStepRounds, MintSpecRounds, RegisterSpecRounds,
       RoundBetStepRounds, RunStepRounds
    DEF Next
  <2> QED BY <2>1, <2>2
<1> QED BY <1>1, Invariance, InitRoundInv, PTL DEF Spec
-----------------------------------------------------------------------------
(* What follows from it.                                                   *)

\* A round bet is recorded exactly when it was accepted, once, on the round it
\* names, and the GET endpoint shows what the round settles.
THEOREM BetsRecorded == Spec => []RecordedIffAccepted
<1>1. IInv /\ RoundInv => RecordedIffAccepted
  <2> SUFFICES ASSUME TypeInv, RoundInv, NEW c \in RoundBetCalls, NEW r \in Rounds
               PROVE  LET at == {i \in 1..Len(prBets[r]) : prBets[r][i] = c} IN
                      IF bPc[c] = "accepted" /\ bReq[c].round = r THEN \E i \in at : at = {i}
                                                                  ELSE at = {}
    BY DEF RecordedIffAccepted, RoundInv, BothLists, IInv
  <2> DEFINE at == {i \in 1..Len(prBets[r]) : prBets[r][i] = c}
  <2>1. \A i, j \in at : i = j
    BY DEF RoundInv, Recorded
  <2>2. CASE bPc[c] = "accepted" /\ bReq[c].round = r
    <3>1. PICK i \in 1..Len(prBets[r]) : prBets[r][i] = c
      BY <2>2 DEF RoundInv, Recorded
    <3>2. i \in at /\ at = {i}
      BY <2>1, <3>1
    <3> QED BY <2>2, <3>2
  <2>3. CASE ~(bPc[c] = "accepted" /\ bReq[c].round = r)
    BY <2>3 DEF RoundInv, Recorded
  <2> QED BY <2>2, <2>3
<1> QED BY <1>1, Invariance, RoundsInvariance, PTL

\* No round is played twice or while it is open for bets, and at most one
\* manifest names it.
THEOREM PlayedOnce == Spec => []RoundPlayedOnce
<1>1. RoundInv => RoundPlayedOnce
  BY DEF RoundInv, RoundIds, RoundsTakenOnce, TakenNotPending, SavedOnce, IsPending,
         RoundPlayedOnce
<1> QED BY <1>1, RoundsInvariance, PTL

\* Once a run has its round, no request adds to the bets of that round.
THEOREM BetsFrozen == Spec => BetsFrozenOnceTaken
<1>1. ASSUME IInv, RoundInv, [Next]_vars, NEW n \in RunCalls, Taken(n)
      PROVE  prBets'[rRound[n]] = prBets[rRound[n]]
  <2>0. RoundTypes
    BY <1>1, RoundsTyped DEF IInv
  <2>1. CASE \E c \in RoundBetCalls : ConfirmRoundBet(c)
    <3>1. PICK c \in RoundBetCalls : ConfirmRoundBet(c)
      BY <2>1
    <3>2. bReq[c].round # rRound[n]
      BY <1>1, <3>1 DEF ConfirmRoundBet, IsPending, RoundInv, RoundIds, TakenNotPending
    <3> QED BY <2>0, <3>1, <3>2 DEF ConfirmRoundBet, RoundTypes
  <2>2. CASE UNCHANGED prBets
    BY <2>2
  <2>3. (\E c \in RoundBetCalls : ConfirmRoundBet(c)) \/ UNCHANGED prBets
    <3>1. CASE UNCHANGED vars
      BY <3>1 DEF vars, queueVars
    <3>2. ASSUME NEW s \in Sessions, OpenSession(s) \/ CloseSession(s) PROVE UNCHANGED prBets
      BY <3>2 DEF OpenSession, CloseSession, queueVars
    <3>3. ASSUME NEW c \in BetCalls, DebitStake(c) \/ RefuseBet(c) \/ BetStep(c)
          PROVE  UNCHANGED prBets
      BY <3>3
      DEF DebitStake, RefuseBet, BetStep, AttachToSession, RejectAttach, RefundStake,
          LoseRefund, EnqueueBet, queueVars
    <3>4. ASSUME NEW g \in StartCalls, MintSpec(g) \/ RegisterSpec(g) PROVE UNCHANGED prBets
      BY <3>4 DEF MintSpec, RegisterSpec, queueVars
    <3>5. ASSUME NEW c \in RoundBetCalls, FindRound(c) \/ RefuseRoundBet(c) \/ RoundBetStep(c)
          PROVE  ConfirmRoundBet(c) \/ UNCHANGED prBets
      BY <3>5
      DEF FindRound, RefuseRoundBet, RoundBetStep, DebitRoundBet, RefuseRoundDebit,
          MissRound, RefundRoundBet, LoseRoundRefund
    <3>6. ASSUME NEW m \in RunCalls, TakeQueue(m) \/ RunStep(m) PROVE UNCHANGED prBets
      BY <3>6
      DEF TakeQueue, RunStep, MintFresh, Admit, LockMarble, Race, SimFails, CreditWinner,
          CreditFails, SettleSession, SaveManifest, SaveFails, SettleRoundBet,
          RoundCreditFails, FinishRound, queueVars
    <3> QED BY <1>1, <3>1, <3>2, <3>3, <3>4, <3>5, <3>6 DEF Next
  <2> QED BY <2>1, <2>2, <2>3
<1>2. IInv /\ RoundInv /\ [Next]_vars =>
        [ \A n \in RunCalls : Taken(n) => prBets'[rRound[n]] = prBets[rRound[n]] ]_vars
  BY <1>1
<1> QED BY <1>2, Invariance, RoundsInvariance, PTL DEF Spec, BetsFrozenOnceTaken
-----------------------------------------------------------------------------
(* Part 3: what a bet is paid.                                              *)

Did(b, kind) == <<b, kind>> \in DOMAIN applied

\* The transactions of a session bet, by the point its request has reached.
BetMoneyOf(c) ==
  /\ cPc[c] \in {"debited", "attached", "refunding", "accepted"} => Did(c, "bet")
  /\ cPc[c] = "idle" => ~Did(c, "bet")
  /\ Did(c, "bet") => sState[cReq[c].session] # "NONE"
  /\ Did(c, "refund") => Did(c, "bet") /\ cPc[c] = "refused"
  /\ Did(c, "credit") => cPc[c] = "accepted"

BetMoney == \A c \in BetCalls : BetMoneyOf(c)

\* The transactions of a round bet; a credit of one is in the past of the run
\* that settles its round.
PaidOf(c) == \E n \in RunCalls : \E i \in 1..paid[n] : prBets[rRound[n]][i] = c

RoundBetMoneyOf(c) ==
  /\ bPc[c] \in {"debited", "refunding", "accepted"} => Did(c, "bet")
  /\ bPc[c] \in {"idle", "found"} => ~Did(c, "bet")
  /\ bPc[c] = "found" => DebitUnits(bReq[c].amount) # 0
  /\ Did(c, "refund") => Did(c, "bet") /\ bPc[c] = "refused"
  /\ Did(c, "credit") => bPc[c] = "accepted" /\ PaidOf(c)

RoundBetMoney == \A c \in RoundBetCalls : RoundBetMoneyOf(c)

\* A bet that a session holds names that session, and it has been credited
\* only between the credit and the Settle of its run.
HeldMoney ==
  \A s \in Sessions : sBet[s] \in BetCalls =>
    /\ cReq[sBet[s]].session = s
    /\ Did(sBet[s], "credit") =>
         \E n \in RunCalls :
           rPc[n] = "credited" /\ settled[n] < Len(took[n]) /\ Settling(n) = s

\* A session races the marble of its place among the sessions the run took.
PlaceIsMarble(n) ==
  \A i \in Unsettled(n) : i <= assigned[n] => sMarble[took[n][i]] = i - 1

CreditedWinner(n) ==
  rPc[n] = "credited" =>
    /\ settled[n] < Len(took[n])
    /\ winner[n] = settled[n]
    /\ Did(sBet[Settling(n)], "credit")

\* What a run has reported of the sessions it has settled.
OutcomeTrue(n, i) ==
  /\ outcomes[n][i].won <=> winner[n] = i - 1
  /\ outcomes[n][i].prize = IF outcomes[n][i].won THEN Prize ELSE 0
  /\ outcomes[n][i].bet \in BetCalls /\ cPc[outcomes[n][i].bet] = "accepted"
  /\ outcomes[n][i].won <=> Did(outcomes[n][i].bet, "credit")
  /\ \A s \in Sessions : sBet[s] # outcomes[n][i].bet

OutcomesTrue(n) ==
  /\ Len(outcomes[n]) = settled[n]
  /\ \A i \in 1..settled[n] : OutcomeTrue(n, i)

\* What a run has paid of the bets of its round.
PaidRight(n) ==
  /\ paid[n] > 0 => rPc[n] \in {"roundBets", "done", "failed"}
  /\ paid[n] <= Len(prBets[rRound[n]])
  /\ \A i \in 1..paid[n] :
       Did(prBets[rRound[n]][i], "credit") <=> bReq[prBets[rRound[n]][i]].marble = winner[n]

Manifested(n) ==
  \E i \in 1..Len(manifests) :
    manifests[i].round = rRound[n] /\ manifests[i].winner = winner[n]

RunEnds(n) ==
  /\ rPc[n] \in {"roundBets", "done"} => settled[n] = Len(took[n]) /\ Manifested(n)
  /\ paid[n] > 0 => Manifested(n)
  /\ rPc[n] = "done" => paid[n] = Len(prBets[rRound[n]])

RunMoneyOf(n) ==
  PlaceIsMarble(n) /\ CreditedWinner(n) /\ OutcomesTrue(n) /\ PaidRight(n) /\ RunEnds(n)

RunMoney == \A n \in RunCalls : RunMoneyOf(n)

\* With IInv and RoundInv, the inductive invariant of the money.
MoneyInv == BetMoney /\ RoundBetMoney /\ HeldMoney /\ RunMoney

FullInv == IInv /\ RoundInv /\ MoneyInv

MoneyTypes ==
  /\ RoundTypes
  /\ cPc \in [BetCalls -> BetPoints]
  /\ \A c \in BetCalls : cReq[c].session \in Sessions
  /\ sState \in [Sessions -> SessionStates]
  /\ sBet \in [Sessions -> BetCalls \cup {NoBet}]
  /\ sMarble \in [Sessions -> Int]
  /\ NoBet \notin BetCalls /\ BetCalls \cap RoundBetCalls = {}
  /\ took \in [RunCalls -> Seq(Sessions)]
  /\ settled \in [RunCalls -> Nat] /\ assigned \in [RunCalls -> Nat]
  /\ winner \in [RunCalls -> Int] /\ paid \in [RunCalls -> Nat]
  /\ outcomes \in [RunCalls -> Seq(Outcome)]

\* The part of the type invariant the money needs.
LEMMA MoneyTyped == TypeInv => MoneyTypes
<1> SUFFICES ASSUME TypeInv PROVE MoneyTypes
  OBVIOUS
<1>1. RoundTypes
  BY RoundsTyped
<1>2. 0..MaxMarbles \subseteq Nat /\ -1..(MaxMarbles - 1) \subseteq Int
  BY ConfigAssumption
<1>3. \A c \in BetCalls : cReq[c].session \in Sessions
  BY BetRequestType
<1> QED
  BY <1>1, <1>2, <1>3, RequestAssumption, CallsAssumption
  DEF TypeInv, TypeOK, SessionTypeOK, CallsTypeOK, RunsTypeOK, MoneyTypes

\* At the start the wallet has applied nothing and no run has begun.
LEMMA InitMoneyInv == Init => MoneyInv
<1> SUFFICES ASSUME Init PROVE MoneyInv
  OBVIOUS
<1>1. \A b, k : ~Did(b, k)
  BY DEF Init, WalletInit, Did
<1>2. BetMoney /\ RoundBetMoney
  BY <1>1 DEF Init, BetMoney, BetMoneyOf, RoundBetMoney, RoundBetMoneyOf
<1>3. HeldMoney
  BY RequestAssumption DEF Init, SessionInit, HeldMoney
<1>4. ASSUME NEW n \in RunCalls PROVE RunMoneyOf(n)
  BY CallsAssumption
  DEF Init, RunMoneyOf, PlaceIsMarble, Unsettled, CreditedWinner, OutcomesTrue, PaidRight,
      RunEnds, Rounds
<1> QED BY <1>2, <1>3, <1>4 DEF MoneyInv, RunMoney
-----------------------------------------------------------------------------
(* The wallet.                                                             *)

\* A call of Debit records its transaction, and touches no other.
LEMMA DebitDid ==
  ASSUME NEW p, NEW a, NEW tx, Debit(p, a, tx)
  PROVE  DOMAIN applied' = DOMAIN applied \cup {tx}
  BY DEF Debit, Record, walletVars

\* A call of Credit records its transaction, and touches no other.
LEMMA CreditDid ==
  ASSUME NEW p, NEW a, NEW tx, Credit(p, a, tx)
  PROVE  DOMAIN applied' = DOMAIN applied \cup {tx}
  BY DEF Credit, Record, walletVars
-----------------------------------------------------------------------------
(* Frames.                                                                 *)

\* No bet of a kind gains a transaction.
NoneGains(Bets) == \A b \in Bets : \A k : <<b, k>> \in DOMAIN applied' <=> Did(b, k)

\* No session bet moves, and no session is forgotten.
LEMMA BetMoneyFrame ==
  ASSUME BetMoney, MoneyTypes, NoneGains(BetCalls), UNCHANGED <<cPc, cReq>>,
         \A s \in Sessions : sState[s] # "NONE" => sState'[s] # "NONE"
  PROVE  BetMoney'
  BY DEF BetMoney, BetMoneyOf, MoneyTypes, NoneGains, Did

\* No round bet moves, and what the runs have paid stays paid.
LEMMA RoundBetMoneyFrame ==
  ASSUME RoundBetMoney, NoneGains(RoundBetCalls), UNCHANGED roundBetVars,
         \A n \in RunCalls : \A i \in 1..paid[n] :
           i \in 1..paid'[n] /\ prBets'[rRound'[n]][i] = prBets[rRound[n]][i]
  PROVE  RoundBetMoney'
<1>1. ASSUME NEW c \in RoundBetCalls, PaidOf(c) PROVE PaidOf(c)'
  BY <1>1 DEF PaidOf
<1> QED BY <1>1 DEF RoundBetMoney, RoundBetMoneyOf, NoneGains, Did, roundBetVars

\* Sessions keep their bets or drop them, and a run that has credited stays.
LEMMA HeldMoneyFrame ==
  ASSUME HeldMoney, MoneyTypes, UNCHANGED cReq,
         \A s \in Sessions : sBet'[s] \in BetCalls => sBet'[s] = sBet[s],
         \A b \in BetCalls : <<b, "credit">> \in DOMAIN applied' <=> Did(b, "credit"),
         \A n \in RunCalls : rPc[n] = "credited" =>
           rPc'[n] = "credited" /\ settled'[n] = settled[n] /\ took'[n] = took[n]
  PROVE  HeldMoney'
<1> SUFFICES ASSUME NEW s \in Sessions, sBet'[s] \in BetCalls
             PROVE  /\ cReq[sBet'[s]].session = s
                    /\ <<sBet'[s], "credit">> \in DOMAIN applied' =>
                         \E n \in RunCalls :
                           /\ rPc'[n] = "credited" /\ settled'[n] < Len(took'[n])
                           /\ took'[n][settled'[n] + 1] = s
  BY DEF HeldMoney, Did, Settling
<1> QED BY DEF HeldMoney, Settling

\* Run m takes no step, nor is the list of bets of its round touched.
SameRun(m) ==
  /\ rPc'[m] = rPc[m] /\ took'[m] = took[m] /\ rRound'[m] = rRound[m]
  /\ winner'[m] = winner[m] /\ assigned'[m] = assigned[m] /\ settled'[m] = settled[m]
  /\ outcomes'[m] = outcomes[m] /\ paid'[m] = paid[m]
  /\ prBets'[rRound[m]] = prBets[rRound[m]]

\* What other requests may do while a run sits still: sessions the run has not
\* settled keep bet and marble, settled bets stay off every session, and the
\* manifests stay where they are.
Undisturbed(m) ==
  /\ \A i \in Unsettled(m) :
       sMarble'[took[m][i]] = sMarble[took[m][i]] /\ sBet'[took[m][i]] = sBet[took[m][i]]
  /\ \A b \in BetCalls : cPc[b] = "accepted" => cPc'[b] = "accepted"
  /\ \A s \in Sessions, b \in BetCalls : sBet'[s] = b => sBet[s] = b \/ cPc[b] # "accepted"
  /\ \A b : Did(b, "credit") => <<b, "credit">> \in DOMAIN applied'
  /\ \A i \in 1..settled[m] :
       <<outcomes[m][i].bet, "credit">> \in DOMAIN applied' => Did(outcomes[m][i].bet, "credit")
  /\ \A i \in 1..paid[m] :
       <<prBets[rRound[m]][i], "credit">> \in DOMAIN applied' =>
         Did(prBets[rRound[m]][i], "credit")
  /\ \A i \in 1..Len(manifests) : i \in 1..Len(manifests') /\ manifests'[i] = manifests[i]
  /\ bReq' = bReq

\* A step of somebody else keeps what holds of a run.
LEMMA OtherRun ==
  ASSUME MoneyTypes, NEW m \in RunCalls, RunMoneyOf(m), SameRun(m), Undisturbed(m)
  PROVE  RunMoneyOf(m)'
<1> USE DEF RunMoneyOf, SameRun
<1>0. settled[m] \in Nat /\ Len(took[m]) \in Nat
  BY DEF MoneyTypes
<1>1. PlaceIsMarble(m)'
  BY DEF PlaceIsMarble, Unsettled, Undisturbed
<1>2. CreditedWinner(m)'
  <2> SUFFICES ASSUME rPc[m] = "credited"
               PROVE  /\ settled[m] < Len(took[m]) /\ winner[m] = settled[m]
                      /\ <<sBet'[took[m][settled[m] + 1]], "credit">> \in DOMAIN applied'
    BY DEF CreditedWinner, Settling, Did
  <2>1. settled[m] + 1 \in Unsettled(m)
    BY <1>0 DEF CreditedWinner, Unsettled
  <2> QED BY <2>1 DEF CreditedWinner, Undisturbed, Settling
<1>3. OutcomesTrue(m)'
  <2> SUFFICES ASSUME NEW i \in 1..settled[m] PROVE OutcomeTrue(m, i)'
    BY DEF OutcomesTrue
  <2>1. OutcomeTrue(m, i)
    BY DEF OutcomesTrue
  <2> QED BY <2>1 DEF OutcomeTrue, Undisturbed, Did
<1>4. PaidRight(m)'
  BY DEF PaidRight, Undisturbed, Did
<1>5. RunEnds(m)'
  BY DEF RunEnds, Manifested, Undisturbed
<1> QED BY <1>1, <1>2, <1>3, <1>4, <1>5

\* No run moves and none is disturbed.
LEMMA RunsFrame ==
  ASSUME MoneyTypes, RunMoney, UNCHANGED runVars,
         \A m \in RunCalls : prBets'[rRound[m]] = prBets[rRound[m]] /\ Undisturbed(m)
  PROVE  RunMoney'
<1>1. ASSUME NEW m \in RunCalls PROVE SameRun(m)
  BY DEF runVars, SameRun
<1> QED BY <1>1, OtherRun DEF RunMoney

\* A step that credits nothing and touches neither sessions nor manifests, and
\* only moves requests for bets that are not accepted, disturbs no run.
LEMMA QuietStep ==
  ASSUME MoneyTypes, UNCHANGED <<sMarble, sBet, bReq, manifests>>,
         \A b : <<b, "credit">> \in DOMAIN applied' <=> Did(b, "credit"),
         \A b \in BetCalls : cPc[b] = "accepted" => cPc'[b] = "accepted",
         NEW m \in RunCalls
  PROVE  Undisturbed(m)
  BY DEF Undisturbed, MoneyTypes

\* A step that touches none of the state MoneyInv speaks of.
LEMMA MoneyFrame ==
  ASSUME TypeInv, MoneyInv, UNCHANGED <<walletVars, runVars, betVars, roundBetVars, prBets, manifests>>,
         UNCHANGED <<sBet, sMarble>>,
         \A s \in Sessions : sState[s] # "NONE" => sState'[s] # "NONE"
  PROVE  MoneyInv'
<1> USE DEF MoneyInv
<1>0. MoneyTypes
  BY MoneyTyped
<1>1. \A b, k : <<b, k>> \in DOMAIN applied' <=> Did(b, k)
  BY DEF walletVars, Did
<1>2. BetMoney'
  BY <1>0, <1>1, BetMoneyFrame DEF NoneGains, betVars
<1>3. RoundBetMoney'
  BY <1>1, RoundBetMoneyFrame DEF NoneGains, roundBetVars, runVars
<1>4. HeldMoney'
  BY <1>0, <1>1, HeldMoneyFrame DEF betVars, runVars
<1>5. RunMoney'
  BY <1>0, <1>1, QuietStep, RunsFrame DEF betVars, roundBetVars
<1> QED BY <1>2, <1>3, <1>4, <1>5
-----------------------------------------------------------------------------
(* PlaceBet.                                                               *)

\* A request that moves between points at which its bet is not accepted, and
\* applies no transaction but its own debit or refund.
LEMMA RequestMoney ==
  ASSUME TypeInv, MoneyInv, NEW c \in BetCalls, NEW to,
         cPc[c] # "accepted", to # "accepted", cPc' = [cPc EXCEPT ![c] = to],
         UNCHANGED <<cReq, sessionVars, runVars, roundBetVars, prBets, manifests>>,
         \A b, k : b # c => (<<b, k>> \in DOMAIN applied' <=> Did(b, k)),
         <<c, "credit">> \in DOMAIN applied' => Did(c, "credit"),
         BetMoneyOf(c)'
  PROVE  MoneyInv'
<1> USE DEF MoneyInv
<1>0. MoneyTypes
  BY MoneyTyped
<1>1. ~Did(c, "credit")
  BY DEF BetMoney, BetMoneyOf
<1>2. \A b : <<b, "credit">> \in DOMAIN applied' <=> Did(b, "credit")
  BY <1>1
<1>3. \A d \in BetCalls \ {c} : cPc'[d] = cPc[d]
  BY <1>0 DEF MoneyTypes
<1>4. BetMoney'
  <2>1. ASSUME NEW d \in BetCalls \ {c} PROVE BetMoneyOf(d)'
    BY <1>3 DEF BetMoney, BetMoneyOf, Did, sessionVars
  <2> QED BY <2>1 DEF BetMoney
<1>5. RoundBetMoney'
  <2>1. NoneGains(RoundBetCalls)
    BY <1>0 DEF NoneGains, MoneyTypes
  <2> QED BY <2>1, RoundBetMoneyFrame DEF roundBetVars, runVars
<1>6. HeldMoney'
  BY <1>0, <1>2, HeldMoneyFrame DEF sessionVars, runVars
<1>7. RunMoney'
  <2>1. \A b \in BetCalls : cPc[b] = "accepted" => cPc'[b] = "accepted"
    BY <1>3
  <2> QED BY <1>0, <1>2, <2>1, QuietStep, RunsFrame DEF sessionVars, roundBetVars
<1> QED BY <1>4, <1>5, <1>6, <1>7

\* The debit is the first transaction of its bet, of a session that is known.
LEMMA DebitStakeMoney ==
  ASSUME TypeInv, MoneyInv, NEW c \in BetCalls, DebitStake(c)
  PROVE  MoneyInv'
<1>1. /\ cPc[c] = "idle" /\ cPc' = [cPc EXCEPT ![c] = "debited"]
      /\ sState[cReq[c].session] # "NONE"
      /\ UNCHANGED <<cReq, sessionVars, runVars, roundBetVars, prBets, manifests>>
      /\ DOMAIN applied' = DOMAIN applied \cup {<<c, "bet">>}
  BY DebitDid DEF DebitStake, BetMoves, queueVars
<1>2. \A b, k : <<b, k>> \in DOMAIN applied' <=> Did(b, k) \/ (b = c /\ k = "bet")
  BY <1>1 DEF Did
<1>3. cPc'[c] = "debited" /\ BetMoneyOf(c)
  BY <1>1, MoneyTyped DEF MoneyTypes, MoneyInv, BetMoney
<1>4. BetMoneyOf(c)'
  BY <1>1, <1>2, <1>3 DEF BetMoneyOf, Did, sessionVars
<1>5. /\ \A b, k : b # c => (<<b, k>> \in DOMAIN applied' <=> Did(b, k))
      /\ <<c, "credit">> \in DOMAIN applied' => Did(c, "credit")
      /\ cPc[c] # "accepted" /\ cPc'[c] # "accepted"
  BY <1>1, <1>2, <1>3
<1> QED BY <1>1, <1>4, <1>5, RequestMoney

\* A refund is applied to a debited bet that was refused.
LEMMA RefundStakeMoney ==
  ASSUME TypeInv, MoneyInv, NEW c \in BetCalls, RefundStake(c)
  PROVE  MoneyInv'
<1>1. /\ cPc[c] = "refunding" /\ cPc' = [cPc EXCEPT ![c] = "refused"]
      /\ UNCHANGED <<cReq, sessionVars, runVars, roundBetVars, prBets, manifests>>
      /\ DOMAIN applied' = DOMAIN applied \cup {<<c, "refund">>}
  BY CreditDid DEF RefundStake, BetMoves, queueVars
<1>2. \A b, k : <<b, k>> \in DOMAIN applied' <=> Did(b, k) \/ (b = c /\ k = "refund")
  BY <1>1 DEF Did
<1>3. cPc'[c] = "refused" /\ BetMoneyOf(c)
  BY <1>1, MoneyTyped DEF MoneyTypes, MoneyInv, BetMoney
<1>4. BetMoneyOf(c)'
  BY <1>1, <1>2, <1>3 DEF BetMoneyOf, Did, sessionVars
<1>5. /\ \A b, k : b # c => (<<b, k>> \in DOMAIN applied' <=> Did(b, k))
      /\ <<c, "credit">> \in DOMAIN applied' => Did(c, "credit")
      /\ cPc[c] # "accepted" /\ cPc'[c] # "accepted"
  BY <1>1, <1>2, <1>3
<1> QED BY <1>1, <1>4, <1>5, RequestMoney

\* The steps of a refused bet that move no money.
LEMMA RefusedBetMoney ==
  ASSUME TypeInv, MoneyInv, NEW c \in BetCalls,
         RefuseBet(c) \/ RejectAttach(c) \/ LoseRefund(c)
  PROVE  MoneyInv'
<1>1. /\ \/ cPc[c] \in {"idle", "refunding"} /\ cPc' = [cPc EXCEPT ![c] = "refused"]
         \/ cPc[c] = "debited" /\ cPc' = [cPc EXCEPT ![c] = "refunding"]
      /\ UNCHANGED <<cReq, sessionVars, runVars, roundBetVars, prBets, manifests>>
      /\ UNCHANGED applied
  BY DEF RefuseBet, RejectAttach, LoseRefund, BetMoves, queueVars, walletVars
<1>2. \A b, k : <<b, k>> \in DOMAIN applied' <=> Did(b, k)
  BY <1>1 DEF Did
<1>3. BetMoneyOf(c) /\ cPc \in [BetCalls -> BetPoints]
  BY MoneyTyped DEF MoneyTypes, MoneyInv, BetMoney
<1>4. BetMoneyOf(c)'
  BY <1>1, <1>2, <1>3 DEF BetMoneyOf, Did, sessionVars
<1>5. \E to \in {"refused", "refunding"} : cPc[c] # "accepted" /\ cPc' = [cPc EXCEPT ![c] = to]
  BY <1>1
<1> QED BY <1>1, <1>2, <1>4, <1>5, RequestMoney

\* The session a bet is attached to was held by nobody.
LEMMA AttachMoney ==
  ASSUME IInv, MoneyInv, NEW c \in BetCalls, AttachToSession(c)
  PROVE  MoneyInv'
<1> DEFINE s == cReq[c].session
<1> USE DEF MoneyInv
<1>0. MoneyTypes /\ TypeInv /\ Ownership
  BY MoneyTyped DEF IInv
<1>1. /\ cPc[c] = "debited" /\ cPc' = [cPc EXCEPT ![c] = "attached"]
      /\ CanPlaceBet(s) /\ sState' = [sState EXCEPT ![s] = "BET"]
      /\ sBet' = [sBet EXCEPT ![s] = c] /\ sMarble' = [sMarble EXCEPT ![s] = -1]
      /\ UNCHANGED <<cReq, runVars, roundBetVars, prBets, manifests, applied>>
  BY DEF AttachToSession, AttachBet, BetMoves, queueVars, walletVars
<1>2. s \in Sessions /\ ~Live(s)
  BY <1>0, <1>1 DEF MoneyTypes, CanPlaceBet, Live
<1>3. \A b, k : <<b, k>> \in DOMAIN applied' <=> Did(b, k)
  BY <1>1 DEF Did
<1>4. ~Did(c, "credit") /\ Did(c, "bet")
  BY <1>1 DEF BetMoney, BetMoneyOf
<1>5. BetMoney'
  <2> SUFFICES ASSUME NEW d \in BetCalls PROVE BetMoneyOf(d)'
    BY DEF BetMoney
  <2>1. \A x \in Sessions : sState[x] # "NONE" => sState'[x] # "NONE"
    BY <1>0, <1>1 DEF MoneyTypes
  <2>2. cReq[d].session \in Sessions /\ BetMoneyOf(d)
    BY <1>0 DEF MoneyTypes, BetMoney
  <2>3. CASE d = c
    <3>1. cPc'[c] = "attached"
      BY <1>0, <1>1 DEF MoneyTypes
    <3> QED BY <1>1, <1>3, <1>4, <2>1, <2>2, <2>3, <3>1 DEF BetMoneyOf, Did
  <2>4. CASE d # c
    <3>1. cPc'[d] = cPc[d]
      BY <1>0, <1>1, <2>4 DEF MoneyTypes
    <3> QED BY <1>1, <1>3, <2>1, <2>2, <3>1 DEF BetMoneyOf, Did
  <2> QED BY <2>3, <2>4
<1>6. RoundBetMoney'
  BY <1>1, <1>3, RoundBetMoneyFrame DEF NoneGains, roundBetVars, runVars
<1>7. \A x \in Sessions \ {s} : sBet'[x] = sBet[x] /\ sMarble'[x] = sMarble[x]
  BY <1>0, <1>1 DEF MoneyTypes
<1>8. HeldMoney'
  <2> SUFFICES ASSUME NEW x \in Sessions, sBet'[x] \in BetCalls
               PROVE  /\ cReq[sBet'[x]].session = x
                      /\ Did(sBet'[x], "credit") =>
                           \E n \in RunCalls :
                             rPc[n] = "credited" /\ settled[n] < Len(took[n]) /\ Settling(n) = x
    <3>1. \A n \in RunCalls : Settling(n)' = Settling(n)
      BY <1>1 DEF Settling, runVars
    <3> QED BY <1>1, <1>3, <3>1 DEF HeldMoney, runVars, Did
  <2>1. CASE x = s
    <3>1. sBet'[s] = c
      BY <1>0, <1>1, <1>2 DEF MoneyTypes
    <3> QED BY <1>4, <2>1, <3>1
  <2>2. CASE x # s
    BY <1>7, <2>2 DEF HeldMoney
  <2> QED BY <2>1, <2>2
<1>9. RunMoney'
  <2> SUFFICES ASSUME NEW m \in RunCalls PROVE Undisturbed(m)
    BY <1>0, <1>1, RunsFrame DEF runVars
  <2>1. \A i \in Unsettled(m) : took[m][i] \in Sessions \ {s}
    BY <1>0, <1>2, NotHeld, UnsettledType
  <2>2. \A b \in BetCalls : cPc[b] = "accepted" => cPc'[b] = "accepted"
    BY <1>0, <1>1 DEF MoneyTypes
  <2>3. \A x \in Sessions, b \in BetCalls : sBet'[x] = b => sBet[x] = b \/ cPc[b] # "accepted"
    BY <1>0, <1>1, <1>2, <1>7 DEF MoneyTypes
  <2> QED BY <1>1, <1>3, <1>7, <2>1, <2>2, <2>3 DEF Undisturbed, roundBetVars
<1> QED BY <1>5, <1>6, <1>8, <1>9

\* Queueing a session accepts its bet; the wallet is not asked.
LEMMA EnqueueMoney ==
  ASSUME TypeInv, MoneyInv, NEW c \in BetCalls, EnqueueBet(c)
  PROVE  MoneyInv'
<1> USE DEF MoneyInv
<1>0. MoneyTypes
  BY MoneyTyped
<1>1. /\ cPc[c] = "attached" /\ cPc' = [cPc EXCEPT ![c] = "accepted"]
      /\ UNCHANGED <<cReq, sessionVars, runVars, roundBetVars, prBets, manifests, applied>>
  BY DEF EnqueueBet, BetMoves, walletVars
<1>2. \A b, k : <<b, k>> \in DOMAIN applied' <=> Did(b, k)
  BY <1>1 DEF Did
<1>3. BetMoney'
  <2> SUFFICES ASSUME NEW d \in BetCalls PROVE BetMoneyOf(d)'
    BY DEF BetMoney
  <2>1. BetMoneyOf(d) /\ (d # c => cPc'[d] = cPc[d]) /\ (d = c => cPc'[d] = "accepted")
    BY <1>0, <1>1 DEF MoneyTypes, BetMoney
  <2> QED BY <1>1, <1>2, <2>1 DEF BetMoneyOf, Did, sessionVars
<1>4. RoundBetMoney'
  BY <1>1, <1>2, RoundBetMoneyFrame DEF NoneGains, roundBetVars, runVars
<1>5. HeldMoney'
  BY <1>0, <1>1, <1>2, HeldMoneyFrame DEF sessionVars, runVars
<1>6. RunMoney'
  <2>1. \A b \in BetCalls : cPc[b] = "accepted" => cPc'[b] = "accepted"
    BY <1>0, <1>1 DEF MoneyTypes
  <2> QED BY <1>0, <1>1, <1>2, <2>1, QuietStep, RunsFrame DEF sessionVars, roundBetVars
<1> QED BY <1>3, <1>4, <1>5, <1>6
-----------------------------------------------------------------------------
(* PlaceBetOnRound.                                                        *)

\* A round-bet request that moves without being accepted, and applies no
\* transaction but its own debit or refund.
LEMMA RoundRequestMoney ==
  ASSUME TypeInv, MoneyInv, NEW c \in RoundBetCalls, NEW to,
         bPc[c] # "accepted", to # "accepted", bPc' = [bPc EXCEPT ![c] = to],
         UNCHANGED <<bReq, sessionVars, runVars, betVars, prBets, manifests>>,
         \A b, k : b # c => (<<b, k>> \in DOMAIN applied' <=> Did(b, k)),
         <<c, "credit">> \in DOMAIN applied' => Did(c, "credit"),
         RoundBetMoneyOf(c)'
  PROVE  MoneyInv'
<1> USE DEF MoneyInv
<1>0. MoneyTypes
  BY MoneyTyped
<1>1. ~Did(c, "credit")
  BY DEF RoundBetMoney, RoundBetMoneyOf
<1>2. \A b : <<b, "credit">> \in DOMAIN applied' <=> Did(b, "credit")
  BY <1>1
<1>3. BetMoney'
  <2>1. NoneGains(BetCalls)
    BY <1>0 DEF NoneGains, MoneyTypes
  <2> QED BY <1>0, <2>1, BetMoneyFrame DEF betVars, sessionVars
<1>4. RoundBetMoney'
  <2>1. ASSUME NEW d \in RoundBetCalls \ {c} PROVE RoundBetMoneyOf(d)'
    <3>1. RoundBetMoneyOf(d) /\ bPc'[d] = bPc[d] /\ (PaidOf(d)' <=> PaidOf(d))
      BY <1>0 DEF MoneyTypes, RoundTypes, RoundBetMoney, PaidOf, runVars
    <3> QED BY <3>1 DEF RoundBetMoneyOf, Did
  <2> QED BY <2>1 DEF RoundBetMoney
<1>5. HeldMoney'
  BY <1>0, <1>2, HeldMoneyFrame DEF sessionVars, runVars, betVars
<1>6. RunMoney'
  BY <1>0, <1>2, QuietStep, RunsFrame DEF sessionVars, betVars
<1> QED BY <1>3, <1>4, <1>5, <1>6

\* The debit is the first transaction of its bet.
LEMMA DebitRoundBetMoney ==
  ASSUME TypeInv, MoneyInv, NEW c \in RoundBetCalls, DebitRoundBet(c)
  PROVE  MoneyInv'
<1>1. /\ bPc[c] = "found" /\ bPc' = [bPc EXCEPT ![c] = "debited"]
      /\ UNCHANGED <<bReq, sessionVars, runVars, betVars, prBets, manifests>>
      /\ DOMAIN applied' = DOMAIN applied \cup {<<c, "bet">>}
  BY DebitDid DEF DebitRoundBet, RoundBetMoves
<1>2. \A b, k : <<b, k>> \in DOMAIN applied' <=> Did(b, k) \/ (b = c /\ k = "bet")
  BY <1>1 DEF Did
<1>3. bPc'[c] = "debited" /\ RoundBetMoneyOf(c)
  BY <1>1, MoneyTyped DEF MoneyTypes, RoundTypes, MoneyInv, RoundBetMoney
<1>4. RoundBetMoneyOf(c)'
  BY <1>1, <1>2, <1>3 DEF RoundBetMoneyOf, Did
<1>5. /\ \A b, k : b # c => (<<b, k>> \in DOMAIN applied' <=> Did(b, k))
      /\ <<c, "credit">> \in DOMAIN applied' => Did(c, "credit")
      /\ bPc[c] # "accepted"
  BY <1>1, <1>2
<1> QED BY <1>1, <1>4, <1>5, RoundRequestMoney

\* A refund is applied to a debited bet whose round had gone.
LEMMA RefundRoundBetMoney ==
  ASSUME TypeInv, MoneyInv, NEW c \in RoundBetCalls, RefundRoundBet(c)
  PROVE  MoneyInv'
<1>1. /\ bPc[c] = "refunding" /\ bPc' = [bPc EXCEPT ![c] = "refused"]
      /\ UNCHANGED <<bReq, sessionVars, runVars, betVars, prBets, manifests>>
      /\ DOMAIN applied' = DOMAIN applied \cup {<<c, "refund">>}
  BY CreditDid DEF RefundRoundBet, RoundBetMoves
<1>2. \A b, k : <<b, k>> \in DOMAIN applied' <=> Did(b, k) \/ (b = c /\ k = "refund")
  BY <1>1 DEF Did
<1>3. bPc'[c] = "refused" /\ RoundBetMoneyOf(c)
  BY <1>1, MoneyTyped DEF MoneyTypes, RoundTypes, MoneyInv, RoundBetMoney
<1>4. RoundBetMoneyOf(c)'
  BY <1>1, <1>2, <1>3 DEF RoundBetMoneyOf, Did
<1>5. /\ \A b, k : b # c => (<<b, k>> \in DOMAIN applied' <=> Did(b, k))
      /\ <<c, "credit">> \in DOMAIN applied' => Did(c, "credit")
      /\ bPc[c] # "accepted"
  BY <1>1, <1>2
<1> QED BY <1>1, <1>4, <1>5, RoundRequestMoney

\* The steps of a round bet that move no money and accept nothing.
LEMMA QuietRoundBetMoney ==
  ASSUME TypeInv, MoneyInv, NEW c \in RoundBetCalls,
         \/ FindRound(c) \/ RefuseRoundBet(c) \/ RefuseRoundDebit(c)
         \/ MissRound(c) \/ LoseRoundRefund(c)
  PROVE  MoneyInv'
<1>1. /\ \/ /\ bPc[c] = "idle" /\ bPc' = [bPc EXCEPT ![c] = "found"]
            /\ DebitUnits(bReq[c].amount) # 0
         \/ bPc[c] \in {"idle", "found", "refunding"} /\ bPc' = [bPc EXCEPT ![c] = "refused"]
         \/ bPc[c] = "debited" /\ bPc' = [bPc EXCEPT ![c] = "refunding"]
      /\ UNCHANGED <<bReq, sessionVars, runVars, betVars, prBets, manifests, applied>>
  BY DEF FindRound, RefuseRoundBet, RefuseRoundDebit, MissRound, LoseRoundRefund,
         RoundBetMoves, walletVars
<1>2. \A b, k : <<b, k>> \in DOMAIN applied' <=> Did(b, k)
  BY <1>1 DEF Did
<1>3. RoundBetMoneyOf(c) /\ bPc \in [RoundBetCalls -> RoundBetPoints]
  BY MoneyTyped DEF MoneyTypes, RoundTypes, MoneyInv, RoundBetMoney
<1>4. RoundBetMoneyOf(c)'
  BY <1>1, <1>2, <1>3 DEF RoundBetMoneyOf, Did
<1>5. \E to \in {"found", "refused", "refunding"} :
        bPc[c] # "accepted" /\ bPc' = [bPc EXCEPT ![c] = to]
  BY <1>1
<1> QED BY <1>1, <1>2, <1>4, <1>5, RoundRequestMoney

\* A bet is confirmed on a round that is not the round of any run.
LEMMA ConfirmElsewhere ==
  ASSUME TypeInv, RoundInv, NEW c \in RoundBetCalls, ConfirmRoundBet(c), NEW m \in RunCalls
  PROVE  prBets'[rRound[m]] = prBets[rRound[m]]
<1> DEFINE r == bReq[c].round
<1>0. RoundTypes
  BY RoundsTyped
<1>1. IsPending(r) /\ prBets' = [prBets EXCEPT ![r] = Append(@, c)]
  BY DEF ConfirmRoundBet
<1>2. PICK i \in 1..Len(pendingRounds) : pendingRounds[i] = r
  BY <1>1 DEF IsPending
<1>3. r \in StartCalls
  BY <1>0, <1>2 DEF RoundTypes
<1>4. r # rRound[m]
  <2>1. CASE rRound[m] = m
    BY <1>0, <1>3, <2>1 DEF RoundTypes
  <2>2. CASE Taken(m)
    BY <1>2, <2>2 DEF RoundInv, RoundIds, TakenNotPending
  <2> QED BY <2>1, <2>2 DEF RoundInv, RoundIds, RunsHaveRounds
<1> QED BY <1>0, <1>1, <1>4 DEF RoundTypes

\* A bet is added to a round no run is playing.
LEMMA ConfirmMoney ==
  ASSUME TypeInv, RoundInv, MoneyInv, NEW c \in RoundBetCalls, ConfirmRoundBet(c)
  PROVE  MoneyInv'
<1> DEFINE r == bReq[c].round
<1> USE DEF MoneyInv
<1>0. MoneyTypes /\ RoundTypes
  BY MoneyTyped, RoundsTyped
<1>1. /\ bPc[c] = "debited" /\ bPc' = [bPc EXCEPT ![c] = "accepted"] /\ IsPending(r)
      /\ prBets' = [prBets EXCEPT ![r] = Append(@, c)]
      /\ UNCHANGED <<bReq, sessionVars, runVars, betVars, manifests, applied>>
  BY DEF ConfirmRoundBet, RoundBetMoves, walletVars
<1>2. \A b, k : <<b, k>> \in DOMAIN applied' <=> Did(b, k)
  BY <1>1 DEF Did
<1>3. \A m \in RunCalls : prBets'[rRound[m]] = prBets[rRound[m]]
  BY ConfirmElsewhere
<1>4. BetMoney'
  BY <1>0, <1>1, <1>2, BetMoneyFrame DEF NoneGains, betVars, sessionVars
<1>5. RoundBetMoney'
  <2> SUFFICES ASSUME NEW d \in RoundBetCalls PROVE RoundBetMoneyOf(d)'
    BY DEF RoundBetMoney
  <2>1. RoundBetMoneyOf(d) /\ (d # c => bPc'[d] = bPc[d]) /\ (d = c => bPc'[d] = "accepted")
    BY <1>0, <1>1 DEF RoundTypes, RoundBetMoney
  <2>2. PaidOf(d)' <=> PaidOf(d)
    BY ZenonT(30), <1>1, <1>3 DEF PaidOf, runVars
  <2> QED BY <1>1, <1>2, <2>1, <2>2 DEF RoundBetMoneyOf, Did
<1>6. HeldMoney'
  BY <1>0, <1>1, <1>2, HeldMoneyFrame DEF sessionVars, runVars, betVars
<1>7. RunMoney'
  BY <1>0, <1>1, <1>2, <1>3, QuietStep, RunsFrame DEF sessionVars, betVars
<1> QED BY <1>4, <1>5, <1>6, <1>7
-----------------------------------------------------------------------------
(* RunNextRound.                                                           *)

\* A run moves on without touching sessions, money or manifests, and does not
\* say that it has paid or saved anything.
LEMMA RunMovesMoney ==
  ASSUME TypeInv, MoneyInv, NEW n \in RunCalls, NEW to,
         rPc[n] # "credited", to \notin {"credited", "roundBets", "done"},
         rPc[n] \in {"roundBets", "done", "failed"} => to = "failed",
         rPc' = [rPc EXCEPT ![n] = to],
         UNCHANGED <<applied, sessionVars, betVars, roundBetVars, prBets, manifests, took,
                     rRound, winner, assigned, settled, outcomes, paid>>
  PROVE  MoneyInv'
<1> USE DEF MoneyInv
<1>0. MoneyTypes
  BY MoneyTyped
<1>1. \A b, k : <<b, k>> \in DOMAIN applied' <=> Did(b, k)
  BY DEF Did
<1>2. rPc'[n] = to /\ \A m \in RunCalls \ {n} : rPc'[m] = rPc[m]
  BY <1>0 DEF MoneyTypes, RoundTypes
<1>3. BetMoney'
  BY <1>0, <1>1, BetMoneyFrame DEF NoneGains, betVars, sessionVars
<1>4. RoundBetMoney'
  BY <1>1, RoundBetMoneyFrame DEF NoneGains, roundBetVars
<1>5. HeldMoney'
  BY <1>0, <1>1, <1>2, HeldMoneyFrame DEF sessionVars, betVars
<1>6. ASSUME NEW m \in RunCalls \ {n} PROVE RunMoneyOf(m)'
  <2>1. SameRun(m)
    BY <1>2 DEF SameRun
  <2>2. Undisturbed(m)
    BY <1>0, <1>1, QuietStep DEF sessionVars, betVars, roundBetVars
  <2> QED BY <1>0, <2>1, <2>2, OtherRun DEF RunMoney
<1>7. RunMoneyOf(n)'
  <2>1. RunMoneyOf(n)
    BY DEF RunMoney
  <2>2. PlaceIsMarble(n)'
    BY <2>1 DEF RunMoneyOf, PlaceIsMarble, Unsettled, sessionVars
  <2>3. CreditedWinner(n)' /\ RunEnds(n)'
    BY <1>2, <2>1 DEF RunMoneyOf, CreditedWinner, RunEnds, Manifested
  <2>4. OutcomesTrue(n)'
    BY <2>1, <1>1 DEF RunMoneyOf, OutcomesTrue, OutcomeTrue, Did, sessionVars, betVars
  <2>5. PaidRight(n)'
    BY <2>1, <1>1, <1>2 DEF RunMoneyOf, PaidRight, Did, roundBetVars
  <2> QED BY <2>2, <2>3, <2>4, <2>5 DEF RunMoneyOf
<1> QED BY <1>3, <1>4, <1>5, <1>6, <1>7 DEF RunMoney

\* The steps of a run that only move its control point.
LEMMA QuietRunMoney ==
  ASSUME TypeInv, MoneyInv, NEW n \in RunCalls,
         \/ MintFresh(n) \/ Admit(n) \/ SimFails(n) \/ CreditFails(n) \/ SaveFails(n)
         \/ RoundCreditFails(n)
  PROVE  MoneyInv'
<1>1. /\ rPc[n] \in {"fresh", "admit", "assign", "settle", "roundBets"}
      /\ \E to \in {"admit", "assign", "failed"} :
           rPc' = [rPc EXCEPT ![n] = to] /\ (rPc[n] = "roundBets" => to = "failed")
      /\ UNCHANGED <<applied, sessionVars, betVars, roundBetVars, prBets, manifests, took,
                     rRound, winner, assigned, settled, outcomes, paid>>
  BY DEF MintFresh, Admit, SimFails, CreditFails, SaveFails, RoundCreditFails, RunMoves,
         walletVars, queueVars
<1> QED BY <1>1, RunMovesMoney

\* A run that takes the queue has settled and paid nothing.
LEMMA TakeQueueMoney ==
  ASSUME IInv, MoneyInv, NEW n \in RunCalls, TakeQueue(n)
  PROVE  MoneyInv'
<1> USE DEF MoneyInv
<1>0. MoneyTypes /\ TypeInv /\ RunStage(n)
  BY MoneyTyped DEF IInv, Ownership, RunStages
<1>1. /\ rPc[n] = "idle"
      /\ UNCHANGED <<applied, sessionVars, betVars, roundBetVars, prBets, manifests, winner,
                     assigned, settled, outcomes, paid>>
  BY DEF TakeQueue, RunMoves, walletVars
<1>2. /\ rPc'[n] \in {"fresh", "admit"}
      /\ \A m \in RunCalls \ {n} :
           rPc'[m] = rPc[m] /\ took'[m] = took[m] /\ rRound'[m] = rRound[m]
  BY <1>0 DEF TakeQueue, RunMoves, MoneyTypes, RoundTypes
<1>3. settled[n] = 0 /\ assigned[n] = 0 /\ paid[n] = 0
  <2>1. Len(took[n]) = 0
    BY <1>0, <1>1 DEF RunStage
  <2>2. ~(paid[n] > 0)
    BY <1>1 DEF RunMoney, RunMoneyOf, PaidRight
  <2> QED BY <1>0, <2>1, <2>2 DEF RunStage, MoneyTypes
<1>4. \A b, k : <<b, k>> \in DOMAIN applied' <=> Did(b, k)
  BY <1>1 DEF Did
<1>5. BetMoney'
  BY <1>0, <1>1, <1>4, BetMoneyFrame DEF NoneGains, betVars, sessionVars
<1>6. RoundBetMoney'
  <2>1. \A m \in RunCalls : \A i \in 1..paid[m] :
          i \in 1..paid'[m] /\ prBets'[rRound'[m]][i] = prBets[rRound[m]][i]
    BY <1>1, <1>2, <1>3
  <2> QED BY <1>1, <1>4, <2>1, RoundBetMoneyFrame DEF NoneGains, roundBetVars
<1>7. HeldMoney'
  BY <1>0, <1>1, <1>2, <1>4, HeldMoneyFrame DEF sessionVars, betVars
<1>8. ASSUME NEW m \in RunCalls \ {n} PROVE RunMoneyOf(m)'
  <2>1. SameRun(m)
    BY <1>1, <1>2 DEF SameRun
  <2>2. Undisturbed(m)
    BY <1>0, <1>1, <1>4, QuietStep DEF sessionVars, betVars, roundBetVars
  <2> QED BY <1>0, <2>1, <2>2, OtherRun DEF RunMoney
<1>9. RunMoneyOf(n)'
  <2>1. RunMoneyOf(n)
    BY DEF RunMoney
  <2>2. PlaceIsMarble(n)'
    BY <1>1, <1>3 DEF PlaceIsMarble, Unsettled
  <2>3. CreditedWinner(n)' /\ RunEnds(n)'
    BY <1>1, <1>2, <1>3 DEF CreditedWinner, RunEnds
  <2>4. OutcomesTrue(n)'
    BY <1>1, <1>3, <2>1 DEF RunMoneyOf, OutcomesTrue
  <2>5. PaidRight(n)'
    <3>1. rRound'[n] \in Rounds
      BY <1>0 DEF TakeQueue, RoundTypes, MoneyTypes
    <3>2. Len(prBets[rRound'[n]]) \in Nat
      BY <1>0, <3>1 DEF RoundTypes, MoneyTypes
    <3> QED BY <1>1, <1>3, <3>2 DEF PaidRight
  <2> QED BY <2>2, <2>3, <2>4, <2>5 DEF RunMoneyOf
<1> QED BY <1>5, <1>6, <1>7, <1>8, <1>9 DEF RunMoney

\* The session a run locks gets the marble of its place.
LEMMA LockMarbleMoney ==
  ASSUME IInv, MoneyInv, NEW n \in RunCalls, LockMarble(n)
  PROVE  MoneyInv'
<1> DEFINE k == assigned[n]
           s == took[n][k + 1]
<1> USE DEF MoneyInv
<1>0. MoneyTypes /\ TypeInv /\ Ownership /\ RunStage(n)
  BY MoneyTyped DEF IInv, Ownership, RunStages
<1>1. /\ rPc[n] = "assign" /\ rPc' = [rPc EXCEPT ![n] = "assign"] /\ k < Len(took[n])
      /\ CanAssignMarble(s) /\ sState' = [sState EXCEPT ![s] = "RACING"]
      /\ sMarble' = [sMarble EXCEPT ![s] = k]
      /\ assigned' = [assigned EXCEPT ![n] = k + 1]
      /\ UNCHANGED <<sBet, applied, betVars, roundBetVars, prBets, manifests, took,
                     rRound, winner, settled, outcomes, paid>>
  BY DEF LockMarble, RunMoves, AssignMarble, queueVars, walletVars
<1>2. k \in Nat /\ settled[n] = 0 /\ k + 1 \in Unsettled(n) /\ s \in Sessions
  BY <1>0, <1>1 DEF RunStage, Unsettled, MoneyTypes
<1>3. \A b, c : <<b, c>> \in DOMAIN applied' <=> Did(b, c)
  BY <1>1 DEF Did
<1>4. rPc' = rPc
  BY <1>0, <1>1 DEF MoneyTypes, RoundTypes
<1>5. BetMoney'
  <2>1. \A x \in Sessions : sState[x] # "NONE" => sState'[x] # "NONE"
    BY <1>0, <1>1 DEF MoneyTypes
  <2> QED BY <1>0, <1>1, <1>3, <2>1, BetMoneyFrame DEF NoneGains, betVars
<1>6. RoundBetMoney'
  BY <1>1, <1>3, RoundBetMoneyFrame DEF NoneGains, roundBetVars
<1>7. HeldMoney'
  BY <1>0, <1>1, <1>3, <1>4, HeldMoneyFrame DEF betVars
<1>8. \A m \in RunCalls : \A i \in Unsettled(m) :
        /\ took[m][i] \in Sessions
        /\ took[m][i] = s => m = n /\ i = k + 1
        /\ ~(m = n /\ i = k + 1) => sMarble'[took[m][i]] = sMarble[took[m][i]]
  BY SMTT(30), <1>0, <1>1, <1>2, UnsettledType DEF MoneyTypes, Ownership, TakenOnce
<1>9. ASSUME NEW m \in RunCalls \ {n} PROVE RunMoneyOf(m)'
  <2>1. SameRun(m)
    BY <1>0, <1>1, <1>4 DEF SameRun, MoneyTypes
  <2>2. Undisturbed(m)
    BY <1>0, <1>1, <1>3, <1>8 DEF Undisturbed, MoneyTypes, betVars, roundBetVars
  <2> QED BY <1>0, <2>1, <2>2, OtherRun DEF RunMoney
<1>10. RunMoneyOf(n)'
  <2>1. RunMoneyOf(n)
    BY DEF RunMoney
  <2>2. PlaceIsMarble(n)'
    <3> SUFFICES ASSUME NEW i \in Unsettled(n), i <= k + 1 PROVE sMarble'[took[n][i]] = i - 1
      BY <1>0, <1>1 DEF PlaceIsMarble, Unsettled, MoneyTypes
    <3>1. CASE i = k + 1
      BY <1>0, <1>1, <1>2, <3>1 DEF MoneyTypes
    <3>2. CASE i # k + 1
      <4>1. i <= k
        BY <1>2, <3>2 DEF Unsettled
      <4> QED BY <1>8, <2>1, <3>2, <4>1 DEF RunMoneyOf, PlaceIsMarble
    <3> QED BY <3>1, <3>2
  <2>3. CreditedWinner(n)' /\ RunEnds(n)'
    BY <1>1, <1>4, <2>1 DEF RunMoneyOf, CreditedWinner, RunEnds, Manifested
  <2>4. OutcomesTrue(n)'
    BY <1>1, <1>2, <2>1 DEF RunMoneyOf, OutcomesTrue
  <2>5. PaidRight(n)'
    BY <1>1, <1>3, <1>4, <2>1 DEF RunMoneyOf, PaidRight, Did, roundBetVars
  <2> QED BY <2>2, <2>3, <2>4, <2>5 DEF RunMoneyOf
<1> QED BY <1>5, <1>6, <1>7, <1>9, <1>10 DEF RunMoney

\* The winner is known before anything is settled.
LEMMA RaceMoney ==
  ASSUME IInv, MoneyInv, NEW n \in RunCalls, Race(n)
  PROVE  MoneyInv'
<1> USE DEF MoneyInv
<1>0. MoneyTypes /\ TypeInv /\ RunStage(n)
  BY MoneyTyped DEF IInv, Ownership, RunStages
<1>1. /\ rPc[n] = "assign"
      /\ \E to \in {"settle", "failed"} : rPc' = [rPc EXCEPT ![n] = to]
      /\ \E w : winner' = [winner EXCEPT ![n] = w]
      /\ UNCHANGED <<applied, sessionVars, betVars, roundBetVars, prBets, manifests, took,
                     rRound, assigned, settled, outcomes, paid>>
  BY DEF Race, RunMoves, walletVars, queueVars
<1>2. /\ rPc'[n] \in {"settle", "failed"}
      /\ \A m \in RunCalls \ {n} : rPc'[m] = rPc[m] /\ winner'[m] = winner[m]
  BY <1>0, <1>1 DEF MoneyTypes, RoundTypes
<1>3. settled[n] = 0 /\ paid[n] = 0
  <2>1. ~(paid[n] > 0)
    BY <1>1 DEF RunMoney, RunMoneyOf, PaidRight
  <2> QED BY <1>0, <1>1, <2>1 DEF RunStage, MoneyTypes
<1>4. \A b, k : <<b, k>> \in DOMAIN applied' <=> Did(b, k)
  BY <1>1 DEF Did
<1>5. BetMoney'
  BY <1>0, <1>1, <1>4, BetMoneyFrame DEF NoneGains, betVars, sessionVars
<1>6. RoundBetMoney'
  BY <1>1, <1>4, RoundBetMoneyFrame DEF NoneGains, roundBetVars
<1>7. HeldMoney'
  BY <1>0, <1>1, <1>2, <1>4, HeldMoneyFrame DEF sessionVars, betVars
<1>8. ASSUME NEW m \in RunCalls \ {n} PROVE RunMoneyOf(m)'
  <2>1. SameRun(m)
    BY <1>1, <1>2 DEF SameRun
  <2>2. Undisturbed(m)
    BY <1>0, <1>1, <1>4, QuietStep DEF sessionVars, betVars, roundBetVars
  <2> QED BY <1>0, <2>1, <2>2, OtherRun DEF RunMoney
<1>9. RunMoneyOf(n)'
  <2>1. RunMoneyOf(n)
    BY DEF RunMoney
  <2>2. PlaceIsMarble(n)'
    BY <1>1, <2>1 DEF RunMoneyOf, PlaceIsMarble, Unsettled, sessionVars
  <2>3. CreditedWinner(n)' /\ RunEnds(n)'
    BY <1>1, <1>2, <1>3 DEF CreditedWinner, RunEnds
  <2>4. OutcomesTrue(n)'
    BY <1>1, <1>3, <2>1 DEF RunMoneyOf, OutcomesTrue
  <2>5. PaidRight(n)'
    BY <1>1, <1>3, <2>1 DEF RunMoneyOf, PaidRight
  <2> QED BY <2>2, <2>3, <2>4, <2>5 DEF RunMoneyOf
<1> QED BY <1>5, <1>6, <1>7, <1>8, <1>9 DEF RunMoney

\* The session a run is about to settle: it is the run's alone, races the marble
\* of its place, and its bet was accepted and is credited only by this run.
LEMMA SettlingBet ==
  ASSUME IInv, MoneyInv, NEW n \in RunCalls,
         rPc[n] \in {"settle", "credited"}, settled[n] < Len(took[n])
  PROVE  /\ settled[n] \in Nat /\ settled[n] + 1 \in Unsettled(n)
         /\ Settling(n) \in Sessions /\ sMarble[Settling(n)] = settled[n]
         /\ sBet[Settling(n)] \in BetCalls /\ cPc[sBet[Settling(n)]] = "accepted"
         /\ \A x \in Sessions : sBet[x] = sBet[Settling(n)] => x = Settling(n)
         /\ rPc[n] = "settle" => ~Did(sBet[Settling(n)], "credit")
         /\ paid[n] = 0
<1> USE DEF MoneyInv
<1>0. MoneyTypes /\ TypeInv /\ Ownership /\ RunStage(n) /\ RunMoneyOf(n)
  BY MoneyTyped DEF IInv, Ownership, RunStages, RunMoney
<1>1. settled[n] \in Nat /\ settled[n] + 1 \in Unsettled(n) /\ settled[n] + 1 <= assigned[n]
  BY <1>0 DEF MoneyTypes, RunStage, Unsettled
<1>2. Settling(n) \in Sessions
  BY <1>0, <1>1, UnsettledType DEF Settling
<1>3. sMarble[Settling(n)] = settled[n]
  BY <1>0, <1>1 DEF RunMoneyOf, PlaceIsMarble, Settling
<1>4. sBet[Settling(n)] \in BetCalls /\ cPc[sBet[Settling(n)]] = "accepted"
  BY <1>0, <1>1 DEF Ownership, RunHolds, Accepted, Settling
<1>5. \A x \in Sessions : sBet[x] = sBet[Settling(n)] => x = Settling(n)
  BY <1>2, <1>4 DEF HeldMoney
<1>6. ASSUME rPc[n] = "settle", Did(sBet[Settling(n)], "credit") PROVE FALSE
  <2>1. PICK m \in RunCalls :
          rPc[m] = "credited" /\ settled[m] < Len(took[m]) /\ Settling(m) = Settling(n)
    BY <1>2, <1>4, <1>6 DEF HeldMoney
  <2>2. settled[m] + 1 \in Unsettled(m)
    BY SMTT(30), <1>0, <2>1 DEF MoneyTypes, Unsettled
  <2>3. m = n
    BY <1>0, <1>1, <2>1, <2>2 DEF Ownership, TakenOnce, Settling
  <2> QED BY <1>6, <2>1, <2>3
<1>7. paid[n] = 0
  BY <1>0 DEF RunMoneyOf, PaidRight, MoneyTypes
<1> QED BY <1>1, <1>2, <1>3, <1>4, <1>5, <1>6, <1>7

\* The credit of the winner is the first of its bet, and no settled bet's.
LEMMA CreditWinnerMoney ==
  ASSUME IInv, MoneyInv, NEW n \in RunCalls, CreditWinner(n)
  PROVE  MoneyInv'
<1> DEFINE s == Settling(n)
           b == sBet[s]
<1> USE DEF MoneyInv
<1>0. MoneyTypes /\ TypeInv /\ Ownership
  BY MoneyTyped DEF IInv
<1>1. /\ rPc[n] = "settle" /\ rPc' = [rPc EXCEPT ![n] = "credited"]
      /\ settled[n] < Len(took[n]) /\ sMarble[s] = winner[n]
      /\ DOMAIN applied' = DOMAIN applied \cup {<<b, "credit">>}
      /\ UNCHANGED <<sessionVars, betVars, roundBetVars, prBets, manifests, took, rRound,
                     winner, assigned, settled, outcomes, paid>>
  BY CreditDid DEF CreditWinner, HoldsWinner, RunMoves, queueVars
<1>2. /\ settled[n] \in Nat /\ settled[n] + 1 \in Unsettled(n) /\ s \in Sessions
      /\ sMarble[s] = settled[n] /\ b \in BetCalls /\ cPc[b] = "accepted"
      /\ (\A x \in Sessions : sBet[x] = b => x = s) /\ paid[n] = 0
  BY <1>1, SettlingBet
<1> HIDE DEF b, s
<1>3. \A d, k : <<d, k>> \in DOMAIN applied' <=> Did(d, k) \/ (d = b /\ k = "credit")
  BY <1>1 DEF Did
<1>4. rPc'[n] = "credited" /\ \A m \in RunCalls \ {n} : rPc'[m] = rPc[m]
  BY <1>0, <1>1 DEF MoneyTypes, RoundTypes
<1>5. BetMoney'
  <2> SUFFICES ASSUME NEW d \in BetCalls PROVE BetMoneyOf(d)'
    BY DEF BetMoney
  <2>1. BetMoneyOf(d)
    BY DEF BetMoney
  <2> QED BY <1>1, <1>2, <1>3, <2>1 DEF BetMoneyOf, Did, sessionVars, betVars
<1>6. RoundBetMoney'
  <2>1. NoneGains(RoundBetCalls)
    BY <1>0, <1>2, <1>3 DEF NoneGains, MoneyTypes
  <2> QED BY <1>1, <2>1, RoundBetMoneyFrame DEF roundBetVars
<1>7. HeldMoney'
  <2> SUFFICES ASSUME NEW x \in Sessions, sBet[x] \in BetCalls
               PROVE  /\ cReq[sBet[x]].session = x
                      /\ <<sBet[x], "credit">> \in DOMAIN applied' =>
                           \E m \in RunCalls :
                             rPc'[m] = "credited" /\ settled[m] < Len(took[m]) /\ Settling(m) = x
    <3>1. \A m \in RunCalls : Settling(m)' = Settling(m)
      BY <1>1 DEF Settling
    <3> QED BY <1>1, <3>1 DEF HeldMoney, Did, sessionVars, betVars
  <2>1. CASE x = s
    BY <1>1, <1>4, <2>1 DEF HeldMoney, s
  <2>2. CASE x # s
    <3>1. sBet[x] # b
      BY <1>2, <2>2
    <3> QED BY <1>1, <1>3, <1>4, <3>1 DEF HeldMoney
  <2> QED BY <2>1, <2>2
<1>8. ASSUME NEW m \in RunCalls, NEW i \in 1..settled[m] PROVE outcomes[m][i].bet # b
  BY <1>2 DEF RunMoney, RunMoneyOf, OutcomesTrue, OutcomeTrue, b
<1>9. ASSUME NEW m \in RunCalls \ {n} PROVE RunMoneyOf(m)'
  <2>1. SameRun(m)
    BY <1>1, <1>4 DEF SameRun
  <2>2. \A i \in 1..paid[m] : prBets[rRound[m]][i] # b
    <3>1. paid[m] <= Len(prBets[rRound[m]]) /\ paid[m] \in Nat /\ rRound[m] \in Rounds
      BY <1>0 DEF RunMoney, RunMoneyOf, PaidRight, MoneyTypes, RoundTypes
    <3>2. \A i \in 1..Len(prBets[rRound[m]]) : prBets[rRound[m]][i] \in RoundBetCalls
      BY SMTT(30), <1>0, <3>1 DEF MoneyTypes, RoundTypes
    <3>3. \A i \in 1..paid[m] : i \in 1..Len(prBets[rRound[m]])
      BY <1>0, <3>1 DEF MoneyTypes, RoundTypes
    <3> QED BY <1>0, <1>2, <3>2, <3>3 DEF MoneyTypes
  <2>3. Undisturbed(m)
    BY <1>1, <1>3, <1>8, <2>2 DEF Undisturbed, sessionVars, betVars, roundBetVars
  <2> QED BY <1>0, <2>1, <2>3, OtherRun DEF RunMoney
<1>10. RunMoneyOf(n)'
  <2>1. RunMoneyOf(n)
    BY DEF RunMoney
  <2>2. PlaceIsMarble(n)'
    BY <1>1, <2>1 DEF RunMoneyOf, PlaceIsMarble, Unsettled, sessionVars
  <2>3. CreditedWinner(n)'
    <3>1. Settling(n)' = s /\ sBet'[s] = b
      BY <1>1 DEF Settling, s, b, sessionVars
    <3> QED BY <1>1, <1>2, <1>3, <3>1 DEF CreditedWinner, Did
  <2>4. OutcomesTrue(n)'
    <3>1. ASSUME NEW i \in 1..settled[n] PROVE OutcomeTrue(n, i)'
      <4>1. OutcomeTrue(n, i) /\ outcomes[n][i].bet # b
        BY <1>8, <2>1 DEF RunMoneyOf, OutcomesTrue
      <4> QED BY <1>1, <1>3, <4>1 DEF OutcomeTrue, Did, sessionVars, betVars
    <3> QED BY <1>1, <2>1, <3>1 DEF RunMoneyOf, OutcomesTrue
  <2>5. PaidRight(n)' /\ RunEnds(n)'
    BY <1>1, <1>2, <1>4, <2>1 DEF RunMoneyOf, PaidRight, RunEnds
  <2> QED BY <2>2, <2>3, <2>4, <2>5 DEF RunMoneyOf
<1> QED BY <1>5, <1>6, <1>7, <1>9, <1>10 DEF RunMoney

\* The outcome a run reports of a session says what it was paid.
LEMMA SettleSessionMoney ==
  ASSUME IInv, MoneyInv, NEW n \in RunCalls, SettleSession(n)
  PROVE  MoneyInv'
<1> DEFINE s == Settling(n)
           b == sBet[s]
           k == settled[n]
           won == HoldsWinner(n)
           outcome == [bet |-> b, won |-> won, prize |-> IF won THEN Prize ELSE 0]
<1> USE DEF MoneyInv
<1>0. MoneyTypes /\ TypeInv /\ Ownership /\ RunStage(n) /\ RunMoneyOf(n)
  BY MoneyTyped DEF IInv, Ownership, RunStages, RunMoney
<1>1. /\ k < Len(took[n])
      /\ rPc[n] = (IF won THEN "credited" ELSE "settle")
      /\ rPc' = [rPc EXCEPT ![n] = "settle"]
      /\ sState' = [sState EXCEPT ![s] = "SETTLED"]
      /\ sBet' = [sBet EXCEPT ![s] = NoBet]
      /\ sMarble' = [sMarble EXCEPT ![s] = -1]
      /\ settled' = [settled EXCEPT ![n] = k + 1]
      /\ outcomes' = [outcomes EXCEPT ![n] = Append(outcomes[n], outcome)]
      /\ UNCHANGED <<applied, betVars, roundBetVars, prBets, manifests, took, rRound,
                     winner, assigned, paid>>
  BY DEF SettleSession, SettleBet, RunMoves, queueVars, walletVars
<1>2. /\ k \in Nat /\ k + 1 \in Unsettled(n) /\ s \in Sessions
      /\ sMarble[s] = k /\ b \in BetCalls /\ cPc[b] = "accepted"
      /\ \A x \in Sessions : sBet[x] = b => x = s
      /\ (rPc[n] = "settle" => ~Did(b, "credit")) /\ paid[n] = 0
  <2>1. rPc[n] \in {"settle", "credited"}
    BY <1>1
  <2> QED BY <1>1, <2>1, SettlingBet
<1>3. \A d, c : <<d, c>> \in DOMAIN applied' <=> Did(d, c)
  BY <1>1 DEF Did
<1>4. won \in BOOLEAN /\ (won <=> winner[n] = k) /\ (won <=> Did(b, "credit"))
  BY <1>0, <1>1, <1>2 DEF HoldsWinner, RunMoneyOf, CreditedWinner
<1>5. /\ outcome.bet = b /\ outcome.won = won
      /\ outcome.prize = IF won THEN Prize ELSE 0
  OBVIOUS
<1> HIDE DEF outcome, won, b, s
<1>6. rPc'[n] = "settle" /\ \A m \in RunCalls \ {n} : rPc'[m] = rPc[m]
  BY <1>0, <1>1 DEF MoneyTypes, RoundTypes
<1>7. /\ sBet'[s] = NoBet
      /\ \A x \in Sessions \ {s} : sBet'[x] = sBet[x] /\ sMarble'[x] = sMarble[x]
  BY <1>0, <1>1, <1>2 DEF MoneyTypes
<1>8. \A m \in RunCalls : \A i \in Unsettled(m) :
        took[m][i] \in Sessions /\ (took[m][i] = s => m = n /\ i = k + 1)
  BY <1>0, <1>2, UnsettledType DEF Ownership, TakenOnce, Settling, s
<1>9. BetMoney'
  <2>1. \A x \in Sessions : sState[x] # "NONE" => sState'[x] # "NONE"
    BY <1>0, <1>1 DEF MoneyTypes
  <2> QED BY <1>0, <1>1, <1>3, <2>1, BetMoneyFrame DEF NoneGains, betVars
<1>10. RoundBetMoney'
  BY <1>1, <1>3, RoundBetMoneyFrame DEF NoneGains, roundBetVars
<1>11. HeldMoney'
  <2> SUFFICES ASSUME NEW x \in Sessions, sBet'[x] \in BetCalls
               PROVE  /\ cReq[sBet'[x]].session = x
                      /\ Did(sBet'[x], "credit") =>
                           \E m \in RunCalls :
                             /\ rPc'[m] = "credited" /\ settled'[m] < Len(took[m])
                             /\ took[m][settled'[m] + 1] = x
    BY <1>1, <1>3 DEF HeldMoney, Settling, betVars, Did
  <2>1. x # s /\ sBet'[x] = sBet[x]
    BY <1>0, <1>7 DEF MoneyTypes
  <2>2. cReq[sBet[x]].session = x
    BY <2>1 DEF HeldMoney
  <2>3. ASSUME Did(sBet[x], "credit")
        PROVE  \E m \in RunCalls :
                 /\ rPc'[m] = "credited" /\ settled'[m] < Len(took[m])
                 /\ took[m][settled'[m] + 1] = x
    <3>1. PICK m \in RunCalls :
            rPc[m] = "credited" /\ settled[m] < Len(took[m]) /\ Settling(m) = x
      BY <2>1, <2>3 DEF HeldMoney
    <3>2. m # n
      BY <2>1, <3>1 DEF s
    <3>3. settled'[m] = settled[m]
      BY <1>0, <1>1, <3>2 DEF MoneyTypes
    <3> QED BY <1>6, <3>1, <3>2, <3>3 DEF Settling
  <2> QED BY <2>1, <2>2, <2>3
<1>12. ASSUME NEW m \in RunCalls \ {n} PROVE RunMoneyOf(m)'
  <2>1. SameRun(m)
    BY <1>0, <1>1, <1>6 DEF SameRun, MoneyTypes
  <2>2. \A i \in Unsettled(m) :
          sMarble'[took[m][i]] = sMarble[took[m][i]] /\ sBet'[took[m][i]] = sBet[took[m][i]]
    BY <1>7, <1>8
  <2>3. \A x \in Sessions, d \in BetCalls : sBet'[x] = d => sBet[x] = d
    BY <1>0, <1>7 DEF MoneyTypes
  <2>4. Undisturbed(m)
    BY <1>1, <1>3, <2>2, <2>3 DEF Undisturbed, betVars, roundBetVars
  <2> QED BY <1>0, <2>1, <2>4, OtherRun DEF RunMoney
<1>13. RunMoneyOf(n)'
  <2>0. settled'[n] = k + 1 /\ Len(took[n]) \in Nat
    BY <1>0, <1>1 DEF MoneyTypes
  <2>1. PlaceIsMarble(n)'
    <3> SUFFICES ASSUME NEW i \in Unsettled(n), i # k + 1, i <= assigned[n]
                 PROVE  sMarble'[took[n][i]] = i - 1
      <4>1. \A i \in Unsettled(n)' : i \in Unsettled(n) /\ i # k + 1
        BY <1>1, <1>2, <2>0 DEF Unsettled
      <4> QED BY <1>1, <4>1 DEF PlaceIsMarble
    <3>1. sMarble'[took[n][i]] = sMarble[took[n][i]]
      BY <1>7, <1>8
    <3> QED BY <1>0, <3>1 DEF RunMoneyOf, PlaceIsMarble
  <2>2. CreditedWinner(n)' /\ RunEnds(n)'
    BY <1>1, <1>2, <1>6 DEF CreditedWinner, RunEnds
  <2>3. OutcomesTrue(n)'
    <3>1. /\ Len(outcomes[n]) = k /\ Len(outcomes'[n]) = k + 1
          /\ outcomes'[n][k + 1] = outcome
          /\ \A i \in 1..k : outcomes'[n][i] = outcomes[n][i]
      <4>1. outcomes[n] \in Seq(Outcome) /\ outcomes'[n] = Append(outcomes[n], outcome)
            /\ Len(outcomes[n]) = k
        BY <1>0, <1>1 DEF MoneyTypes, RunMoneyOf, OutcomesTrue
      <4> QED BY <1>2, <4>1
    <3>2. ASSUME NEW i \in 1..k PROVE OutcomeTrue(n, i)'
      <4>1. OutcomeTrue(n, i)
        BY <1>0 DEF RunMoneyOf, OutcomesTrue
      <4>2. \A x \in Sessions : sBet'[x] # outcomes[n][i].bet
        BY <1>0, <1>7, <4>1 DEF OutcomeTrue, MoneyTypes
      <4> QED BY <1>1, <1>3, <3>1, <4>1, <4>2 DEF OutcomeTrue, Did, betVars
    <3>3. ASSUME NEW j \in 1..(k + 1), j = k + 1 PROVE OutcomeTrue(n, j)'
      <4>1. \A x \in Sessions : sBet'[x] # b
        BY <1>0, <1>2, <1>7 DEF MoneyTypes
      <4>2. winner'[n] = winner[n] /\ cPc' = cPc
        BY <1>1 DEF betVars
      <4>3. k + 1 - 1 = k
        BY <1>2
      <4>4. /\ outcomes'[n][k + 1].won <=> winner'[n] = k
            /\ outcomes'[n][k + 1].prize = IF outcomes'[n][k + 1].won THEN Prize ELSE 0
            /\ outcomes'[n][k + 1].bet = b
            /\ outcomes'[n][k + 1].won <=> <<b, "credit">> \in DOMAIN applied'
        BY <1>3, <1>4, <1>5, <3>1, <4>2
      <4> QED BY <1>2, <3>3, <4>1, <4>2, <4>3, <4>4 DEF OutcomeTrue, Did
    <3>4. \A i \in 1..(k + 1) : i \in 1..k \/ i = k + 1
      BY <1>2
    <3>5. ASSUME NEW i \in 1..(k + 1) PROVE OutcomeTrue(n, i)'
      BY <3>2, <3>3, <3>4
    <3> QED BY <2>0, <3>1, <3>5 DEF OutcomesTrue
  <2>4. PaidRight(n)'
    BY <1>0, <1>1, <1>2 DEF RunMoneyOf, PaidRight
  <2> QED BY <2>1, <2>2, <2>3, <2>4 DEF RunMoneyOf
<1> QED BY <1>9, <1>10, <1>11, <1>12, <1>13 DEF RunMoney

\* The manifest says which marble won, and every session has been settled.
LEMMA SaveManifestMoney ==
  ASSUME TypeInv, MoneyInv, NEW n \in RunCalls, SaveManifest(n)
  PROVE  MoneyInv'
<1> DEFINE last == Len(manifests) + 1
<1> USE DEF MoneyInv
<1>0. MoneyTypes
  BY MoneyTyped
<1>1. /\ rPc[n] = "settle" /\ rPc' = [rPc EXCEPT ![n] = "roundBets"]
      /\ settled[n] = Len(took[n])
      /\ manifests' = Append(manifests, [round |-> rRound[n], track |-> track[rRound[n]],
                                         winner |-> winner[n]])
      /\ UNCHANGED <<applied, sessionVars, betVars, roundBetVars, prBets, took, rRound,
                     winner, assigned, settled, outcomes, paid>>
  BY DEF SaveManifest, RunMoves, walletVars, queueVars
<1>2. rPc'[n] = "roundBets" /\ \A m \in RunCalls \ {n} : rPc'[m] = rPc[m]
  BY <1>0, <1>1 DEF MoneyTypes, RoundTypes
<1>3. \A b, k : <<b, k>> \in DOMAIN applied' <=> Did(b, k)
  BY <1>1 DEF Did
<1>4. /\ last \in 1..Len(manifests')
      /\ manifests'[last].round = rRound[n] /\ manifests'[last].winner = winner[n]
      /\ \A i \in 1..Len(manifests) : i \in 1..Len(manifests') /\ manifests'[i] = manifests[i]
  BY <1>0, <1>1 DEF MoneyTypes, RoundTypes
<1>5. BetMoney'
  BY <1>0, <1>1, <1>3, BetMoneyFrame DEF NoneGains, betVars, sessionVars
<1>6. RoundBetMoney'
  BY <1>1, <1>3, RoundBetMoneyFrame DEF NoneGains, roundBetVars
<1>7. HeldMoney'
  BY <1>0, <1>1, <1>2, <1>3, HeldMoneyFrame DEF sessionVars, betVars
<1>8. ASSUME NEW m \in RunCalls \ {n} PROVE RunMoneyOf(m)'
  <2>1. SameRun(m)
    BY <1>1, <1>2 DEF SameRun
  <2>2. Undisturbed(m)
    BY <1>1, <1>3, <1>4 DEF Undisturbed, sessionVars, betVars, roundBetVars
  <2> QED BY <1>0, <2>1, <2>2, OtherRun DEF RunMoney
<1>9. RunMoneyOf(n)'
  <2>1. RunMoneyOf(n)
    BY DEF RunMoney
  <2>2. PlaceIsMarble(n)'
    BY <1>1, <2>1 DEF RunMoneyOf, PlaceIsMarble, Unsettled, sessionVars
  <2>3. CreditedWinner(n)' /\ RunEnds(n)'
    BY <1>1, <1>2, <1>4 DEF CreditedWinner, RunEnds, Manifested
  <2>4. OutcomesTrue(n)'
    BY <2>1, <1>1, <1>3 DEF RunMoneyOf, OutcomesTrue, OutcomeTrue, Did, sessionVars, betVars
  <2>5. PaidRight(n)'
    BY <2>1, <1>1, <1>2, <1>3 DEF RunMoneyOf, PaidRight, Did, roundBetVars
  <2> QED BY <2>2, <2>3, <2>4, <2>5 DEF RunMoneyOf
<1> QED BY <1>5, <1>6, <1>7, <1>8, <1>9 DEF RunMoney

\* The round bet a run looks at next has not been credited, by whichever run.
LEMMA NotPaidYet ==
  ASSUME TypeInv, RoundInv, MoneyInv, NEW n \in RunCalls,
         rPc[n] = "roundBets", paid[n] < Len(prBets[rRound[n]])
  PROVE  /\ PayingBet(n) \in RoundBetCalls /\ bPc[PayingBet(n)] = "accepted"
         /\ \A m \in RunCalls : \A i \in 1..paid[m] : prBets[rRound[m]][i] # PayingBet(n)
         /\ ~Did(PayingBet(n), "credit")
<1> DEFINE c == PayingBet(n)
<1> USE DEF MoneyInv
<1>0. MoneyTypes /\ RoundTypes
  BY MoneyTyped, RoundsTyped
<1>1. /\ paid[n] \in Nat /\ rRound[n] \in Rounds
      /\ paid[n] + 1 \in 1..Len(prBets[rRound[n]])
  BY <1>0 DEF MoneyTypes, RoundTypes
<1>2. c \in RoundBetCalls /\ bPc[c] = "accepted" /\ bReq[c].round = rRound[n]
  BY <1>0, <1>1 DEF PayingBet, RoundTypes, RoundInv, Recorded
<1>3. ASSUME NEW m \in RunCalls, NEW i \in 1..paid[m], prBets[rRound[m]][i] = c
      PROVE  FALSE
  <2>1. /\ paid[m] \in Nat /\ rRound[m] \in Rounds /\ paid[m] <= Len(prBets[rRound[m]])
        /\ rPc[m] \in {"roundBets", "done", "failed"}
    BY SMTT(30), <1>0 DEF MoneyTypes, RoundTypes, RunMoney, RunMoneyOf, PaidRight
  <2>2. i \in 1..Len(prBets[rRound[m]])
    BY <1>0, <2>1 DEF RoundTypes
  <2>3. rRound[m] = rRound[n]
    BY <1>2, <1>3, <2>1, <2>2 DEF RoundInv, Recorded
  <2>4. m = n
    BY <2>1, <2>3 DEF RoundInv, RoundIds, RoundsTakenOnce, Taken
  <2>5. i = paid[n] + 1
    BY <1>1, <1>3, <2>2, <2>4 DEF RoundInv, Recorded, PayingBet
  <2> QED BY <1>1, <2>4, <2>5
<1>4. ~Did(c, "credit")
  BY <1>2, <1>3 DEF RoundBetMoney, RoundBetMoneyOf, PaidOf
<1> QED BY <1>2, <1>3, <1>4

\* A run pays a bet of its round when its marble won, and passes it by if not.
LEMMA SettleRoundBetMoney ==
  ASSUME TypeInv, RoundInv, MoneyInv, NEW n \in RunCalls, SettleRoundBet(n)
  PROVE  MoneyInv'
<1> DEFINE c == PayingBet(n)
           won == bReq[c].marble = winner[n]
<1> USE DEF MoneyInv
<1>0. MoneyTypes /\ RoundTypes
  BY MoneyTyped, RoundsTyped
<1>1. /\ rPc[n] = "roundBets" /\ rPc' = [rPc EXCEPT ![n] = "roundBets"]
      /\ paid[n] < Len(prBets[rRound[n]])
      /\ paid' = [paid EXCEPT ![n] = @ + 1]
      /\ IF won THEN DOMAIN applied' = DOMAIN applied \cup {<<c, "credit">>}
                ELSE UNCHANGED applied
      /\ UNCHANGED <<sessionVars, betVars, roundBetVars, prBets, manifests, took, rRound,
                     winner, assigned, settled, outcomes>>
  BY CreditDid DEF SettleRoundBet, RunMoves, queueVars, walletVars
<1>2. /\ c \in RoundBetCalls /\ bPc[c] = "accepted" /\ ~Did(c, "credit")
      /\ \A m \in RunCalls : \A i \in 1..paid[m] : prBets[rRound[m]][i] # c
  BY <1>1, NotPaidYet
<1>3. /\ paid[n] \in Nat /\ rRound[n] \in Rounds /\ paid'[n] = paid[n] + 1
      /\ Len(prBets[rRound[n]]) \in Nat /\ prBets[rRound[n]][paid[n] + 1] = c
  BY <1>0, <1>1 DEF MoneyTypes, RoundTypes, PayingBet
<1> HIDE DEF c
<1>4. \A d, k : <<d, k>> \in DOMAIN applied' <=> Did(d, k) \/ (won /\ d = c /\ k = "credit")
  BY <1>1 DEF Did
<1>5. rPc' = rPc /\ \A m \in RunCalls \ {n} : paid'[m] = paid[m]
  BY <1>0, <1>1 DEF MoneyTypes, RoundTypes
<1>6. \A b \in BetCalls : b # c
  BY <1>0, <1>2 DEF MoneyTypes
<1>7. BetMoney'
  BY <1>0, <1>1, <1>4, <1>6, BetMoneyFrame DEF NoneGains, betVars, sessionVars
<1>8. RoundBetMoney'
  <2> SUFFICES ASSUME NEW d \in RoundBetCalls PROVE RoundBetMoneyOf(d)'
    BY DEF RoundBetMoney
  <2>1. RoundBetMoneyOf(d)
    BY DEF RoundBetMoney
  <2>2. PaidOf(d) => PaidOf(d)'
    <3>1. \A m \in RunCalls : \A i \in 1..paid[m] : i \in 1..paid'[m]
      <4>1. \A i \in 1..paid[n] : i \in 1..paid'[n]
        BY <1>3
      <4> QED BY <1>5, <4>1
    <3> QED BY <1>1, <3>1 DEF PaidOf
  <2>3. d = c => PaidOf(d)'
    <3>1. paid[n] + 1 \in 1..paid'[n]
      BY <1>3
    <3> QED BY <1>1, <1>3, <3>1 DEF PaidOf
  <2> QED BY <1>1, <1>2, <1>4, <2>1, <2>2, <2>3 DEF RoundBetMoneyOf, Did, roundBetVars
<1>9. HeldMoney'
  BY <1>0, <1>1, <1>4, <1>5, <1>6, HeldMoneyFrame DEF sessionVars, betVars
<1>10. ASSUME NEW m \in RunCalls, NEW i \in 1..settled[m] PROVE outcomes[m][i].bet # c
  BY <1>6 DEF RunMoney, RunMoneyOf, OutcomesTrue, OutcomeTrue
<1>11. ASSUME NEW m \in RunCalls \ {n} PROVE RunMoneyOf(m)'
  <2>1. SameRun(m)
    BY <1>1, <1>5 DEF SameRun
  <2>2. Undisturbed(m)
    BY <1>1, <1>2, <1>4, <1>10 DEF Undisturbed, sessionVars, betVars, roundBetVars
  <2> QED BY <1>0, <2>1, <2>2, OtherRun DEF RunMoney
<1>12. RunMoneyOf(n)'
  <2>1. RunMoneyOf(n)
    BY DEF RunMoney
  <2>2. PlaceIsMarble(n)'
    BY <1>1, <2>1 DEF RunMoneyOf, PlaceIsMarble, Unsettled, sessionVars
  <2>3. CreditedWinner(n)'
    BY <1>1, <1>5 DEF CreditedWinner
  <2>4. OutcomesTrue(n)'
    <3>1. ASSUME NEW i \in 1..settled[n] PROVE OutcomeTrue(n, i)'
      <4>1. OutcomeTrue(n, i) /\ outcomes[n][i].bet # c
        BY <1>10, <2>1 DEF RunMoneyOf, OutcomesTrue
      <4> QED BY <1>1, <1>4, <4>1 DEF OutcomeTrue, Did, sessionVars, betVars
    <3> QED BY <1>1, <2>1, <3>1 DEF RunMoneyOf, OutcomesTrue
  <2>5. PaidRight(n)'
    <3>1. ASSUME NEW i \in 1..(paid[n] + 1)
          PROVE  <<prBets[rRound[n]][i], "credit">> \in DOMAIN applied' <=>
                   bReq[prBets[rRound[n]][i]].marble = winner[n]
      <4>1. CASE i = paid[n] + 1
        BY <1>2, <1>3, <1>4, <4>1
      <4>2. CASE i \in 1..paid[n]
        BY <1>2, <1>4, <2>1, <4>2 DEF RunMoneyOf, PaidRight
      <4> QED BY <1>3, <4>1, <4>2
    <3>2. paid[n] + 1 <= Len(prBets[rRound[n]])
      BY <1>1, <1>3
    <3> QED BY <1>1, <1>3, <1>5, <3>1, <3>2 DEF PaidRight, Did, roundBetVars
  <2>6. RunEnds(n)'
    BY <1>1, <1>5, <2>1 DEF RunMoneyOf, RunEnds, Manifested
  <2> QED BY <2>2, <2>3, <2>4, <2>5, <2>6 DEF RunMoneyOf
<1> QED BY <1>7, <1>8, <1>9, <1>11, <1>12 DEF RunMoney

\* A finished round has settled every bet of its list.
LEMMA FinishRoundMoney ==
  ASSUME TypeInv, MoneyInv, NEW n \in RunCalls, FinishRound(n)
  PROVE  MoneyInv'
<1> USE DEF MoneyInv
<1>0. MoneyTypes
  BY MoneyTyped
<1>1. /\ rPc[n] = "roundBets" /\ rPc' = [rPc EXCEPT ![n] = "done"]
      /\ paid[n] = Len(prBets[rRound[n]])
      /\ UNCHANGED <<applied, sessionVars, betVars, roundBetVars, prBets, manifests, took,
                     rRound, winner, assigned, settled, outcomes, paid>>
  BY DEF FinishRound, RunMoves, walletVars, queueVars
<1>2. rPc'[n] = "done" /\ \A m \in RunCalls \ {n} : rPc'[m] = rPc[m]
  BY <1>0, <1>1 DEF MoneyTypes, RoundTypes
<1>3. \A b, k : <<b, k>> \in DOMAIN applied' <=> Did(b, k)
  BY <1>1 DEF Did
<1>4. BetMoney'
  BY <1>0, <1>1, <1>3, BetMoneyFrame DEF NoneGains, betVars, sessionVars
<1>5. RoundBetMoney'
  BY <1>1, <1>3, RoundBetMoneyFrame DEF NoneGains, roundBetVars
<1>6. HeldMoney'
  BY <1>0, <1>1, <1>2, <1>3, HeldMoneyFrame DEF sessionVars, betVars
<1>7. ASSUME NEW m \in RunCalls \ {n} PROVE RunMoneyOf(m)'
  <2>1. SameRun(m)
    BY <1>1, <1>2 DEF SameRun
  <2>2. Undisturbed(m)
    BY <1>0, <1>1, <1>3, QuietStep DEF sessionVars, betVars, roundBetVars
  <2> QED BY <1>0, <2>1, <2>2, OtherRun DEF RunMoney
<1>8. RunMoneyOf(n)'
  <2>1. RunMoneyOf(n)
    BY DEF RunMoney
  <2>2. PlaceIsMarble(n)'
    BY <1>1, <2>1 DEF RunMoneyOf, PlaceIsMarble, Unsettled, sessionVars
  <2>3. CreditedWinner(n)' /\ RunEnds(n)'
    BY <1>1, <1>2, <2>1 DEF RunMoneyOf, CreditedWinner, RunEnds, Manifested
  <2>4. OutcomesTrue(n)'
    BY <2>1, <1>1, <1>3 DEF RunMoneyOf, OutcomesTrue, OutcomeTrue, Did, sessionVars, betVars
  <2>5. PaidRight(n)'
    BY <2>1, <1>1, <1>2, <1>3 DEF RunMoneyOf, PaidRight, Did, roundBetVars
  <2> QED BY <2>2, <2>3, <2>4, <2>5 DEF RunMoneyOf
<1> QED BY <1>4, <1>5, <1>6, <1>7, <1>8 DEF RunMoney
-----------------------------------------------------------------------------
(* Every step.                                                             *)

\* Opening or closing a session moves no money.
LEMMA SessionStepMoney ==
  ASSUME TypeInv, MoneyInv, NEW s \in Sessions, OpenSession(s) \/ CloseSession(s)
  PROVE  MoneyInv'
<1>1. /\ UNCHANGED <<walletVars, runVars, betVars, roundBetVars, prBets, manifests>>
      /\ UNCHANGED <<sBet, sMarble>>
      /\ \E state \in {"OPEN", "CLOSED"} : sState' = [sState EXCEPT ![s] = state]
  BY DEF OpenSession, CloseSession, Open, Close, queueVars
<1>2. \A x \in Sessions : sState[x] # "NONE" => sState'[x] # "NONE"
  BY <1>1, MoneyTyped DEF MoneyTypes
<1> QED BY <1>1, <1>2, MoneyFrame

\* Minting a round moves no money.
LEMMA StartStepMoney ==
  ASSUME TypeInv, MoneyInv, NEW g \in StartCalls, MintSpec(g) \/ RegisterSpec(g)
  PROVE  MoneyInv'
<1>1. UNCHANGED <<walletVars, sessionVars, runVars, betVars, roundBetVars, prBets, manifests>>
  BY DEF MintSpec, RegisterSpec, queueVars
<1> QED BY <1>1, MoneyFrame DEF sessionVars

\* What the wallet has applied agrees with where every bet is.
THEOREM MoneyInvariance == Spec => []FullInv
<1>1. Init => FullInv
  BY InitTypeInv, InitOwnership, InitRoundInv, InitMoneyInv DEF FullInv, IInv
<1>2. IInv /\ RoundInv /\ MoneyInv /\ [Next]_vars => MoneyInv'
  <2> SUFFICES ASSUME IInv, RoundInv, MoneyInv, [Next]_vars PROVE MoneyInv'
    OBVIOUS
  <2>0. TypeInv
    BY DEF IInv
  <2>1. CASE UNCHANGED vars
    BY <2>0, <2>1, MoneyFrame DEF vars, queueVars, sessionVars
  <2>2. ASSUME NEW c \in BetCalls, DebitStake(c) \/ RefuseBet(c) \/ BetStep(c)
        PROVE  MoneyInv'
    BY <2>0, <2>2, DebitStakeMoney, RefusedBetMoney, AttachMoney, RefundStakeMoney, EnqueueMoney
    DEF BetStep
  <2>3. ASSUME NEW c \in RoundBetCalls, FindRound(c) \/ RefuseRoundBet(c) \/ RoundBetStep(c)
        PROVE  MoneyInv'
    BY <2>0, <2>3, QuietRoundBetMoney, DebitRoundBetMoney, ConfirmMoney, RefundRoundBetMoney
    DEF RoundBetStep
  <2>4. ASSUME NEW n \in RunCalls, TakeQueue(n) \/ RunStep(n) PROVE MoneyInv'
    BY <2>0, <2>4, TakeQueueMoney, QuietRunMoney, LockMarbleMoney, RaceMoney, CreditWinnerMoney,
       SettleSessionMoney, SaveManifestMoney, SettleRoundBetMoney, FinishRoundMoney
    DEF RunStep
  <2> QED
    BY <2>0, <2>1, <2>2, <2>3, <2>4, SessionStepMoney, StartStepMoney DEF Next
<1>3. Spec => []MoneyInv
  BY <1>1, <1>2, Invariance, RoundsInvariance, PTL DEF Spec, FullInv
<1> QED BY <1>3, Invariance, RoundsInvariance, PTL DEF FullInv
-----------------------------------------------------------------------------
(* What follows from it.                                                   *)

\* Every session a run has settled is credited exactly if it won, and the bets
\* of the sessions behind them are untouched, wherever the run stops.
THEOREM SessionsPaid == Spec => []SessionsPaidAsSettled
<1>1. FullInv => SessionsPaidAsSettled
  <2> SUFFICES ASSUME IInv, MoneyInv, NEW n \in RunCalls
               PROVE  /\ \A i \in 1..settled[n] :
                           /\ outcomes[n][i].won <=> i - 1 = winner[n]
                           /\ outcomes[n][i].won <=> Credited(outcomes[n][i].bet)
                      /\ \A i \in Unsettled(n) :
                           \/ Untouched(sBet[took[n][i]])
                           \/ rPc[n] = "credited" /\ i = settled[n] + 1
    BY DEF FullInv, SessionsPaidAsSettled
  <2>0. MoneyTypes /\ TypeInv /\ Ownership
    BY MoneyTyped DEF IInv
  <2>1. ASSUME NEW i \in 1..settled[n]
        PROVE  /\ outcomes[n][i].won <=> i - 1 = winner[n]
               /\ outcomes[n][i].won <=> Credited(outcomes[n][i].bet)
    BY DEF MoneyInv, RunMoney, RunMoneyOf, OutcomesTrue, OutcomeTrue, Credited, Did
  <2>2. ASSUME NEW i \in Unsettled(n), ~(rPc[n] = "credited" /\ i = settled[n] + 1)
        PROVE  Untouched(sBet[took[n][i]])
    <3> DEFINE s == took[n][i]
               b == sBet[s]
    <3>1. s \in Sessions
      BY <2>0, <2>2, UnsettledType
    <3>2. b \in BetCalls /\ cPc[b] = "accepted"
      BY <2>0, <2>2 DEF Ownership, RunHolds, Accepted
    <3>3. ASSUME Did(b, "credit") PROVE FALSE
      <4>1. PICK m \in RunCalls :
              rPc[m] = "credited" /\ settled[m] < Len(took[m]) /\ Settling(m) = s
        BY <3>1, <3>2, <3>3 DEF MoneyInv, HeldMoney
      <4>2. settled[m] + 1 \in Unsettled(m)
        <5>1. settled[m] \in Nat /\ took[m] \in Seq(Sessions)
          BY <2>0 DEF MoneyTypes
        <5>2. Len(took[m]) \in Nat
          BY <5>1
        <5> QED BY <4>1, <5>1, <5>2 DEF Unsettled
      <4>3. m = n /\ settled[m] + 1 = i
        BY <2>0, <2>2, <4>1, <4>2 DEF Ownership, TakenOnce, Settling
      <4> QED BY <2>2, <4>1, <4>3
    <3>4. Did(b, "bet") /\ ~Did(b, "refund")
      BY <3>2 DEF MoneyInv, BetMoney, BetMoneyOf
    <3> QED BY <3>3, <3>4 DEF Untouched, Debited, Credited, Refunded, Did
  <2> QED BY <2>1, <2>2
<1> QED BY <1>1, MoneyInvariance, PTL

\* The bets a run has passed are credited exactly if their marble won, those
\* behind are untouched, and none is credited before its manifest is saved.
THEOREM RoundBetsPaid == Spec => []RoundBetsPaidAsSettled
<1>1. FullInv => RoundBetsPaidAsSettled
  <2> SUFFICES ASSUME TypeInv, RoundInv, MoneyInv, NEW n \in RunCalls, Taken(n),
                      NEW i \in 1..Len(prBets[rRound[n]]), NEW b, b = prBets[rRound[n]][i]
               PROVE  /\ IF i <= paid[n] THEN Credited(b) <=> bReq[b].marble = winner[n]
                                         ELSE Untouched(b)
                      /\ Credited(b) =>
                           \E j \in SavedAs(rRound[n]) : manifests[j].winner = bReq[b].marble
    BY DEF FullInv, IInv, RoundBetsPaidAsSettled
  <2>0. MoneyTypes /\ RoundTypes /\ RunMoneyOf(n)
    BY MoneyTyped, RoundsTyped DEF MoneyInv, RunMoney
  <2>1. /\ b \in RoundBetCalls /\ bPc[b] = "accepted" /\ bReq[b].round = rRound[n]
        /\ paid[n] \in Nat
    BY <2>0 DEF RoundTypes, MoneyTypes, RoundInv, Recorded
  <2>2. CASE i <= paid[n]
    <3>1. i \in 1..paid[n] /\ paid[n] > 0
      BY <2>1, <2>2
    <3>2. Credited(b) <=> bReq[b].marble = winner[n]
      BY <2>0, <3>1 DEF RunMoneyOf, PaidRight, Credited, Did
    <3>3. \E j \in SavedAs(rRound[n]) : manifests[j].winner = winner[n]
      BY <2>0, <3>1 DEF RunMoneyOf, RunEnds, Manifested, SavedAs
    <3> QED BY <2>2, <3>2, <3>3
  <2>3. CASE ~(i <= paid[n])
    <3>1. ASSUME Did(b, "credit") PROVE FALSE
      <4>1. PICK m \in RunCalls : \E k \in 1..paid[m] : prBets[rRound[m]][k] = b
        BY <2>1, <3>1 DEF MoneyInv, RoundBetMoney, RoundBetMoneyOf, PaidOf
      <4>2. PICK k \in 1..paid[m] : prBets[rRound[m]][k] = b
        BY <4>1
      <4>3. /\ paid[m] \in Nat /\ rRound[m] \in Rounds /\ paid[m] <= Len(prBets[rRound[m]])
            /\ rPc[m] \in {"roundBets", "done", "failed"}
        BY SMTT(30), <2>0, <4>2
        DEF MoneyTypes, RoundTypes, MoneyInv, RunMoney, RunMoneyOf, PaidRight
      <4>4. k \in 1..Len(prBets[rRound[m]])
        BY <2>0, <4>2, <4>3 DEF RoundTypes
      <4>5. rRound[m] = rRound[n]
        BY <2>1, <4>2, <4>3, <4>4 DEF RoundInv, Recorded
      <4>6. m = n
        BY <4>3, <4>5 DEF RoundInv, RoundIds, RoundsTakenOnce, Taken
      <4>7. k = i
        BY <4>2, <4>3, <4>4, <4>6 DEF RoundInv, Recorded
      <4> QED BY <2>1, <2>3, <4>2, <4>6, <4>7
    <3>2. Did(b, "bet") /\ ~Did(b, "refund")
      BY <2>1 DEF MoneyInv, RoundBetMoney, RoundBetMoneyOf
    <3> QED BY <2>3, <3>1, <3>2 DEF Untouched, Debited, Credited, Refunded, Did
  <2> QED BY <2>2, <2>3
<1> QED BY <1>1, MoneyInvariance, PTL

\* The one saved manifest alone decides every bet of a finished round.
THEOREM ManifestDecides == Spec => []AuditDecidesOutcomes
<1>1. FullInv => AuditDecidesOutcomes
  <2> SUFFICES ASSUME RoundInv, MoneyInv, TypeInv, NEW n \in RunCalls, rPc[n] = "done"
      PROVE \E i \in SavedAs(rRound[n]) :
        /\ SavedAs(rRound[n]) = {i}
        /\ Len(outcomes[n]) = Len(took[n])
        /\ \A j \in 1..Len(outcomes[n]) :
             /\ outcomes[n][j].won <=> manifests[i].winner = j - 1
             /\ outcomes[n][j].prize = IF outcomes[n][j].won THEN Prize ELSE 0
        /\ \A j \in 1..Len(prBets[rRound[n]]) :
             Credited(prBets[rRound[n]][j]) <=>
               bReq[prBets[rRound[n]][j]].marble = manifests[i].winner
    BY DEF FullInv, IInv, AuditDecidesOutcomes
  <2>1. RunMoneyOf(n)
    BY DEF MoneyInv, RunMoney
  <2>2. PICK i \in 1..Len(manifests) :
          manifests[i].round = rRound[n] /\ manifests[i].winner = winner[n]
    BY <2>1 DEF RunMoneyOf, RunEnds, Manifested
  <2>3. /\ settled[n] = Len(took[n]) /\ Len(outcomes[n]) = settled[n]
        /\ paid[n] = Len(prBets[rRound[n]])
    BY <2>1 DEF RunMoneyOf, RunEnds, OutcomesTrue
  <2>4. ASSUME NEW j \in 1..Len(outcomes[n])
        PROVE  /\ outcomes[n][j].won <=> manifests[i].winner = j - 1
               /\ outcomes[n][j].prize = IF outcomes[n][j].won THEN Prize ELSE 0
    BY <2>1, <2>2, <2>3 DEF RunMoneyOf, OutcomesTrue, OutcomeTrue
  <2>5. ASSUME NEW j \in 1..Len(prBets[rRound[n]])
        PROVE  Credited(prBets[rRound[n]][j]) <=>
                 bReq[prBets[rRound[n]][j]].marble = manifests[i].winner
    BY <2>1, <2>2, <2>3 DEF RunMoneyOf, PaidRight, Credited, Did
  <2>6. i \in SavedAs(rRound[n]) /\ SavedAs(rRound[n]) = {i}
    BY <2>2 DEF SavedAs, RoundInv, SavedOnce
  <2> QED BY <2>3, <2>4, <2>5, <2>6
<1> QED BY <1>1, MoneyInvariance, PTL
-----------------------------------------------------------------------------
(* The manager implements BetLedger.  The ledger counts money without a    *)
(* limit, the wallet modulo 2^64, so this is promised as long as no        *)
(* balance is within one stake or payout of the top of its word.           *)

LedgerBets == BetCalls \cup RoundBetCalls

Roomy ==
  \A p \in DOMAIN balances, b \in LedgerBets :
    balances[p] + Terms(b).stake <= MaxUint64 /\ balances[p] + Terms(b).payout <= MaxUint64

LostIn(n, b) ==
  \/ \E i \in 1..Len(outcomes[n]) : outcomes[n][i].bet = b /\ ~outcomes[n][i].won
  \/ \E i \in 1..paid[n] : prBets[rRound[n]][i] = b /\ bReq[b].marble # winner[n]

\* Arithmetic inside the word is exact.
LEMMA WrapExact == \A x \in Int : 0 <= x /\ x <= MaxUint64 => Wrap(x) = x
  BY MaxUint64Assumption DEF Wrap

\* A bet counts as lost only after it was accepted, and once no session holds it
\* or the run of its round has passed it.
LEMMA LostBet ==
  ASSUME TypeInv, RoundInv, MoneyInv, NEW b, Lost(b)
  PROVE  \/ b \in BetCalls /\ cPc[b] = "accepted" /\ \A s \in Sessions : sBet[s] # b
         \/ b \in RoundBetCalls /\ bPc[b] = "accepted" /\ PaidOf(b)
<1>0. MoneyTypes /\ RoundTypes
  BY MoneyTyped, RoundsTyped
<1>1. PICK n \in RunCalls : LostIn(n, b)
  BY DEF Lost, LostIn
<1>2. RunMoneyOf(n)
  BY DEF MoneyInv, RunMoney
<1>3. CASE \E i \in 1..Len(outcomes[n]) : outcomes[n][i].bet = b
  BY <1>2, <1>3 DEF RunMoneyOf, OutcomesTrue, OutcomeTrue
<1>4. CASE \E i \in 1..paid[n] : prBets[rRound[n]][i] = b
  <2>1. PICK i \in 1..paid[n] : prBets[rRound[n]][i] = b
    BY <1>4
  <2>2. rRound[n] \in Rounds /\ i \in 1..Len(prBets[rRound[n]])
    BY <1>0, <1>2 DEF RunMoneyOf, PaidRight, MoneyTypes, RoundTypes
  <2>3. b \in RoundBetCalls /\ bPc[b] = "accepted"
    BY <1>0, <2>1, <2>2 DEF RoundTypes, RoundInv, Recorded
  <2> QED BY <2>1, <2>3 DEF PaidOf
<1> QED BY <1>1, <1>3, <1>4 DEF LostIn

\* The cases of Status exclude each other, and this is what they are.
LEMMA StatusIs ==
  ASSUME TypeInv, MoneyInv, NEW b \in LedgerBets
  PROVE  /\ Status(b) = "none" <=> ~Did(b, "bet")
         /\ Did(b, "refund") => Status(b) = "refunded"
         /\ Did(b, "credit") => Status(b) = "won"
         /\ Did(b, "bet") /\ ~Did(b, "refund") /\ ~Did(b, "credit") =>
              Status(b) = IF Lost(b) THEN "lost" ELSE "held"
<1>1. /\ Did(b, "refund") => Did(b, "bet") /\ ~Did(b, "credit")
      /\ Did(b, "credit") => Did(b, "bet") /\ ~Did(b, "refund")
  BY DEF LedgerBets, MoneyInv, BetMoney, BetMoneyOf, RoundBetMoney, RoundBetMoneyOf
<1>2. ASSUME ~Did(b, "bet") PROVE Status(b) = "none"
  BY <1>1, <1>2 DEF Status, Did
<1>3. ASSUME Did(b, "refund") PROVE Status(b) = "refunded"
  BY <1>1, <1>3 DEF Status, Did
<1>4. ASSUME Did(b, "credit") PROVE Status(b) = "won"
  BY <1>1, <1>4 DEF Status, Did
<1>5. ASSUME Did(b, "bet"), ~Did(b, "refund"), ~Did(b, "credit")
      PROVE  Status(b) = IF Lost(b) THEN "lost" ELSE "held"
  BY <1>5 DEF Status, Did
<1> QED BY <1>2, <1>3, <1>4, <1>5

\* A bet that gains no transaction and is not lost in this step stays as it is.
LEMMA StatusFrame ==
  ASSUME NEW b, \A k : <<b, k>> \in DOMAIN applied' <=> Did(b, k), Lost(b)' <=> Lost(b)
  PROVE  Status(b)' = Status(b)
  BY DEF Status, Did

\* What a bet was placed on does not change.
LEMMA TermsFrame ==
  ASSUME TypeInv, MoneyInv, NEW b \in LedgerBets, Status(b) # "none",
         UNCHANGED <<cReq, bReq>>,
         \A s \in Sessions : sState[s] # "NONE" => sPlayer'[s] = sPlayer[s]
  PROVE  Terms(b)' = Terms(b)
<1>1. Did(b, "bet")
  BY StatusIs
<1>2. b \in BetCalls => cReq[b].session \in Sessions /\ sState[cReq[b].session] # "NONE"
  BY <1>1, MoneyTyped DEF MoneyTypes, MoneyInv, BetMoney, BetMoneyOf
<1> QED BY <1>2 DEF Terms

\* No player is renamed in a step of a request that is not OpenSession.
SamePlayers == UNCHANGED <<cReq, bReq, sPlayer>>

\* A step without money, status or terms is a stutter of the ledger.
LEMMA LedgerStutter ==
  ASSUME TypeInv, MoneyInv, UNCHANGED <<balances, cReq, bReq>>,
         \A s \in Sessions : sState[s] # "NONE" => sPlayer'[s] = sPlayer[s],
         \A b \in LedgerBets : Status(b)' = Status(b)
  PROVE  UNCHANGED Ledger!ledgerVars
<1>1. \A b \in LedgerBets : Status(b) # "none" => Terms(b)' = Terms(b)
  BY TermsFrame
<1> QED BY <1>1 DEF Ledger!ledgerVars, LedgerBets

\* The debit of a bet is Place.
LEMMA LedgerPlace ==
  ASSUME TypeInv, MoneyInv, NEW b \in LedgerBets, SamePlayers,
         Status(b) = "none", Status(b)' = "held",
         \A d \in LedgerBets \ {b} : Status(d)' = Status(d),
         Terms(b).player \in DOMAIN balances,
         Terms(b).stake \in 1..balances[Terms(b).player],
         balances' = [balances EXCEPT ![Terms(b).player] = @ - Terms(b).stake]
  PROVE  Ledger!Next
<1>1. Terms(b)' = Terms(b)
  BY DEF Terms, SamePlayers
<1>2. \A d \in LedgerBets : Status(d) # "none" => Terms(d)' = Terms(d)
  BY TermsFrame DEF SamePlayers
<1>3. Ledger!Place(b)
  BY <1>1, <1>2 DEF Ledger!Place, LedgerBets
<1> QED BY <1>3 DEF Ledger!Next, LedgerBets

\* An outcome of a bet is Decide.
LEMMA LedgerDecide ==
  ASSUME TypeInv, MoneyInv, NEW b \in LedgerBets, SamePlayers,
         NEW outcome \in {"refunded", "won", "lost"}, NEW amount,
         amount = (IF outcome = "refunded" THEN Terms(b).stake
                   ELSE IF outcome = "won" THEN Terms(b).payout ELSE 0),
         Status(b) = "held", Status(b)' = outcome,
         \A d \in LedgerBets \ {b} : Status(d)' = Status(d),
         balances' = [balances EXCEPT ![Terms(b).player] = @ + amount]
  PROVE  Ledger!Next
<1>1. \A d \in LedgerBets : Status(d) # "none" => Terms(d)' = Terms(d)
  BY TermsFrame DEF SamePlayers
<1>2. Ledger!Decide(b, outcome, amount)
  BY <1>1 DEF Ledger!Decide, LedgerBets
<1>3. amount = (IF outcome = "refunded" THEN [d \in LedgerBets |->
               IF Status(d) = "none" THEN [player |-> "nobody", stake |-> 0, payout |-> 0]
               ELSE Terms(d)][b].stake
             ELSE IF outcome = "won" THEN [d \in LedgerBets |->
               IF Status(d) = "none" THEN [player |-> "nobody", stake |-> 0, payout |-> 0]
               ELSE Terms(d)][b].payout ELSE 0)
  OBVIOUS
<1> QED BY <1>2, <1>3 DEF Ledger!Next, LedgerBets
-----------------------------------------------------------------------------
(* The steps that move money.                                              *)

\* A debit that is the first of its transaction takes exactly the stake.
LEMMA DebitExact ==
  ASSUME TypeInv, NEW p, NEW a \in Word, NEW tx, tx \notin DOMAIN applied, Debit(p, a, tx)
  PROVE  /\ p \in DOMAIN balances /\ balances[p] \in Nat /\ a <= balances[p]
         /\ balances' = [balances EXCEPT ![p] = @ - a]
<1>1. /\ p \in DOMAIN balances /\ balances[p] >= a
      /\ balances' = [balances EXCEPT ![p] = Wrap(@ - a)]
  BY DEF Debit
<1>2. balances[p] \in 0..MaxUint64 /\ MaxUint64 \in Nat /\ a \in Nat
  BY <1>1, MaxUint64Assumption DEF TypeInv, TypeOK, WalletTypeOK, Word
<1>3. balances[p] - a \in 0..MaxUint64 /\ a <= balances[p] /\ balances[p] \in Nat
  BY <1>1, <1>2
<1>4. Wrap(balances[p] - a) = balances[p] - a
  BY <1>3, WrapExact
<1>5. balances' = [balances EXCEPT ![p] = balances[p] - a]
  BY <1>1, <1>4
<1> QED BY <1>1, <1>3, <1>5

\* A credit that is the first of its transaction pays exactly the amount.
LEMMA CreditExact ==
  ASSUME TypeInv, NEW p, NEW a \in Word, NEW tx, tx \notin DOMAIN applied, Credit(p, a, tx),
         balances[p] + a <= MaxUint64
  PROVE  balances' = [balances EXCEPT ![p] = @ + a]
<1>1. p \in DOMAIN balances /\ balances' = [balances EXCEPT ![p] = Wrap(@ + a)]
  BY DEF Credit
<1>2. balances[p] \in Nat /\ MaxUint64 \in Nat /\ a \in Nat
  BY <1>1, MaxUint64Assumption DEF TypeInv, TypeOK, WalletTypeOK, Word
<1>3. Wrap(balances[p] + a) = balances[p] + a
  BY <1>2, WrapExact
<1> QED BY <1>1, <1>3

\* The runs report and pay what they did before.
LEMMA LostFrame ==
  ASSUME NEW b, \A n \in RunCalls : LostIn(n, b)' <=> LostIn(n, b)
  PROVE  Lost(b)' <=> Lost(b)
<1>1. Lost(b) <=> \E n \in RunCalls : LostIn(n, b)
  BY DEF Lost, LostIn
<1>2. Lost(b)' <=> \E n \in RunCalls : LostIn(n, b)'
  BY DEF Lost, LostIn
<1> QED BY <1>1, <1>2

\* No run reports or pays anything.
LEMMA ReportsFrame ==
  ASSUME UNCHANGED <<outcomes, paid, winner, bReq>>,
         \A n \in RunCalls : prBets'[rRound'[n]] = prBets[rRound[n]]
  PROVE  \A b : Lost(b)' <=> Lost(b)
<1> SUFFICES ASSUME NEW b PROVE Lost(b)' <=> Lost(b)
  OBVIOUS
<1>1. ASSUME NEW n \in RunCalls PROVE LostIn(n, b)' <=> LostIn(n, b)
  BY DEF LostIn
<1> QED BY <1>1, LostFrame

\* A step that moves no money and loses no bet is a stutter of the ledger.
LEMMA QuietLedger ==
  ASSUME TypeInv, MoneyInv, UNCHANGED <<balances, applied, cReq, bReq>>,
         \A s \in Sessions : sState[s] # "NONE" => sPlayer'[s] = sPlayer[s],
         \A b : Lost(b)' <=> Lost(b)
  PROVE  UNCHANGED Ledger!ledgerVars
<1>1. \A b, k : <<b, k>> \in DOMAIN applied' <=> Did(b, k)
  BY DEF Did
<1>2. \A b \in LedgerBets : Status(b)' = Status(b)
  BY <1>1, StatusFrame
<1> QED BY <1>2, LedgerStutter

\* The debit of PlaceBet is Place.
LEMMA DebitStakeLedger ==
  ASSUME TypeInv, RoundInv, MoneyInv, NEW c \in BetCalls, DebitStake(c)
  PROVE  Ledger!Next
<1>0. c \in LedgerBets /\ cReq[c].amount \in Word /\ c \notin RoundBetCalls
  BY BetRequestType, MoneyTyped DEF LedgerBets, MoneyTypes
<1>1. /\ cPc[c] = "idle" /\ cReq[c].amount > 0 /\ SamePlayers
      /\ Debit(sPlayer[cReq[c].session], cReq[c].amount, <<c, "bet">>)
      /\ UNCHANGED <<outcomes, paid, winner, bReq, prBets, rRound>>
      /\ DOMAIN applied' = DOMAIN applied \cup {<<c, "bet">>}
  BY DebitDid
  DEF DebitStake, BetMoves, SamePlayers, sessionVars, roundBetVars, runVars, queueVars
<1>2. \A b, k : <<b, k>> \in DOMAIN applied' <=> Did(b, k) \/ (b = c /\ k = "bet")
  BY <1>1 DEF Did
<1>3. ~Did(c, "bet") /\ ~Did(c, "refund") /\ ~Did(c, "credit") /\ ~Lost(c)
  BY <1>0, <1>1, LostBet DEF MoneyInv, BetMoney, BetMoneyOf
<1>4. \A b : Lost(b)' <=> Lost(b)
  BY <1>1, ReportsFrame
<1>5. Status(c) = "none"
  BY <1>0, <1>3, StatusIs
<1>6. Status(c)' = "held"
  BY <1>2, <1>3, <1>4 DEF Status, Did
<1>7. ASSUME NEW d \in LedgerBets \ {c} PROVE Status(d)' = Status(d)
  BY <1>2, <1>4, StatusFrame
<1>8. Terms(c).player = sPlayer[cReq[c].session] /\ Terms(c).stake = cReq[c].amount
  BY DEF Terms
<1>9. /\ Terms(c).player \in DOMAIN balances
      /\ Terms(c).stake \in 1..balances[Terms(c).player]
      /\ balances' = [balances EXCEPT ![Terms(c).player] = @ - Terms(c).stake]
  <2>1. /\ Terms(c).player \in DOMAIN balances /\ balances[Terms(c).player] \in Nat
        /\ cReq[c].amount <= balances[Terms(c).player]
        /\ balances' = [balances EXCEPT ![Terms(c).player] = @ - Terms(c).stake]
    BY <1>0, <1>1, <1>3, <1>8, DebitExact DEF Did
  <2>2. cReq[c].amount \in Nat
    BY <1>0, MaxUint64Assumption DEF Word
  <2> QED BY <1>1, <1>8, <2>1, <2>2
<1> QED BY <1>0, <1>1, <1>5, <1>6, <1>7, <1>9, LedgerPlace

\* The debit of PlaceBetOnRound is Place.
LEMMA DebitRoundBetLedger ==
  ASSUME TypeInv, RoundInv, MoneyInv, NEW c \in RoundBetCalls, DebitRoundBet(c)
  PROVE  Ledger!Next
<1> DEFINE units == DebitUnits(bReq[c].amount)
<1>0. c \in LedgerBets /\ units \in Word /\ c \notin BetCalls
  BY RoundBetRequestType, MoneyTyped DEF LedgerBets, MoneyTypes
<1>1. /\ bPc[c] = "found" /\ SamePlayers
      /\ Debit(bReq[c].player, units, <<c, "bet">>)
      /\ UNCHANGED <<outcomes, paid, winner, bReq, prBets, rRound>>
      /\ DOMAIN applied' = DOMAIN applied \cup {<<c, "bet">>}
  BY DebitDid
  DEF DebitRoundBet, RoundBetMoves, SamePlayers, sessionVars, betVars, runVars
<1>2. \A b, k : <<b, k>> \in DOMAIN applied' <=> Did(b, k) \/ (b = c /\ k = "bet")
  BY <1>1 DEF Did
<1>3. ~Did(c, "bet") /\ ~Did(c, "refund") /\ ~Did(c, "credit") /\ ~Lost(c) /\ units # 0
  BY <1>0, <1>1, LostBet DEF MoneyInv, RoundBetMoney, RoundBetMoneyOf
<1>4. \A b : Lost(b)' <=> Lost(b)
  BY <1>1, ReportsFrame
<1>5. Status(c) = "none"
  BY <1>0, <1>3, StatusIs
<1>6. Status(c)' = "held"
  BY <1>2, <1>3, <1>4 DEF Status, Did
<1>7. ASSUME NEW d \in LedgerBets \ {c} PROVE Status(d)' = Status(d)
  BY <1>2, <1>4, StatusFrame
<1>8. Terms(c).player = bReq[c].player /\ Terms(c).stake = units
  BY <1>0 DEF Terms
<1>9. /\ Terms(c).player \in DOMAIN balances
      /\ Terms(c).stake \in 1..balances[Terms(c).player]
      /\ balances' = [balances EXCEPT ![Terms(c).player] = @ - Terms(c).stake]
  <2>1. /\ Terms(c).player \in DOMAIN balances /\ balances[Terms(c).player] \in Nat
        /\ units <= balances[Terms(c).player]
        /\ balances' = [balances EXCEPT ![Terms(c).player] = @ - Terms(c).stake]
    BY SMTT(30), <1>0, <1>1, <1>3, <1>8, DebitExact DEF Did
  <2>2. units \in Nat
    BY <1>0, MaxUint64Assumption DEF Word
  <2> QED BY <1>3, <1>8, <2>1, <2>2
<1> QED BY <1>0, <1>1, <1>5, <1>6, <1>7, <1>9, LedgerPlace

\* The refund of PlaceBet decides its bet.
LEMMA RefundStakeLedger ==
  ASSUME TypeInv, RoundInv, MoneyInv, Roomy, NEW c \in BetCalls, RefundStake(c)
  PROVE  Ledger!Next
<1>0. c \in LedgerBets /\ cReq[c].amount \in Word /\ c \notin RoundBetCalls
  BY BetRequestType, MoneyTyped DEF LedgerBets, MoneyTypes
<1>1. /\ cPc[c] = "refunding" /\ SamePlayers
      /\ Credit(sPlayer[cReq[c].session], cReq[c].amount, <<c, "refund">>)
      /\ UNCHANGED <<outcomes, paid, winner, bReq, prBets, rRound>>
      /\ DOMAIN applied' = DOMAIN applied \cup {<<c, "refund">>}
  BY CreditDid
  DEF RefundStake, BetMoves, SamePlayers, sessionVars, roundBetVars, runVars, queueVars
<1>2. \A b, k : <<b, k>> \in DOMAIN applied' <=> Did(b, k) \/ (b = c /\ k = "refund")
  BY <1>1 DEF Did
<1>3. Did(c, "bet") /\ ~Did(c, "refund") /\ ~Did(c, "credit") /\ ~Lost(c)
  BY <1>0, <1>1, LostBet DEF MoneyInv, BetMoney, BetMoneyOf
<1>4. \A b : Lost(b)' <=> Lost(b)
  BY <1>1, ReportsFrame
<1>5. Status(c) = "held"
  BY <1>0, <1>3, StatusIs
<1>6. Status(c)' = "refunded"
  BY <1>2, <1>3, <1>4 DEF Status, Did
<1>7. ASSUME NEW d \in LedgerBets \ {c} PROVE Status(d)' = Status(d)
  BY <1>2, <1>4, StatusFrame
<1>8. Terms(c).player = sPlayer[cReq[c].session] /\ Terms(c).stake = cReq[c].amount
  BY DEF Terms
<1>9. balances' = [balances EXCEPT ![Terms(c).player] = @ + Terms(c).stake]
  <2>1. Terms(c).player \in DOMAIN balances
    BY <1>1, <1>8 DEF Credit
  <2>2. balances[Terms(c).player] + cReq[c].amount <= MaxUint64
    BY <1>0, <1>8, <2>1 DEF Roomy
  <2> QED BY <1>0, <1>1, <1>3, <1>8, <2>2, CreditExact DEF Did
<1> QED BY <1>0, <1>1, <1>5, <1>6, <1>7, <1>9, LedgerDecide

\* The refund of PlaceBetOnRound decides its bet.
LEMMA RefundRoundBetLedger ==
  ASSUME TypeInv, RoundInv, MoneyInv, Roomy, NEW c \in RoundBetCalls, RefundRoundBet(c)
  PROVE  Ledger!Next
<1> DEFINE units == DebitUnits(bReq[c].amount)
<1>0. c \in LedgerBets /\ units \in Word /\ c \notin BetCalls
  BY RoundBetRequestType, MoneyTyped DEF LedgerBets, MoneyTypes
<1>1. /\ bPc[c] = "refunding" /\ SamePlayers
      /\ Credit(bReq[c].player, units, <<c, "refund">>)
      /\ UNCHANGED <<outcomes, paid, winner, bReq, prBets, rRound>>
      /\ DOMAIN applied' = DOMAIN applied \cup {<<c, "refund">>}
  BY CreditDid
  DEF RefundRoundBet, RoundBetMoves, SamePlayers, sessionVars, betVars, runVars
<1>2. \A b, k : <<b, k>> \in DOMAIN applied' <=> Did(b, k) \/ (b = c /\ k = "refund")
  BY <1>1 DEF Did
<1>3. Did(c, "bet") /\ ~Did(c, "refund") /\ ~Did(c, "credit") /\ ~Lost(c)
  BY <1>0, <1>1, LostBet DEF MoneyInv, RoundBetMoney, RoundBetMoneyOf
<1>4. \A b : Lost(b)' <=> Lost(b)
  BY <1>1, ReportsFrame
<1>5. Status(c) = "held"
  BY <1>0, <1>3, StatusIs
<1>6. Status(c)' = "refunded"
  BY <1>2, <1>3, <1>4 DEF Status, Did
<1>7. ASSUME NEW d \in LedgerBets \ {c} PROVE Status(d)' = Status(d)
  BY <1>2, <1>4, StatusFrame
<1>8. Terms(c).player = bReq[c].player /\ Terms(c).stake = units
  BY <1>0 DEF Terms
<1>9. balances' = [balances EXCEPT ![Terms(c).player] = @ + Terms(c).stake]
  <2>1. Terms(c).player \in DOMAIN balances
    BY <1>1, <1>8 DEF Credit
  <2>2. balances[Terms(c).player] + units <= MaxUint64
    BY <1>0, <1>8, <2>1 DEF Roomy
  <2> QED BY <1>0, <1>1, <1>3, <1>8, <2>2, CreditExact DEF Did
<1> QED BY <1>0, <1>1, <1>5, <1>6, <1>7, <1>9, LedgerDecide

\* The credit of a winner decides the bet its session holds.
LEMMA CreditWinnerLedger ==
  ASSUME IInv, RoundInv, MoneyInv, Roomy, NEW n \in RunCalls, CreditWinner(n)
  PROVE  Ledger!Next
<1> DEFINE s == Settling(n)
           b == sBet[s]
<1>0. MoneyTypes /\ TypeInv
  BY MoneyTyped DEF IInv
<1>1. /\ rPc[n] = "settle" /\ settled[n] < Len(took[n]) /\ SamePlayers
      /\ Credit(sPlayer[s], Prize, <<b, "credit">>)
      /\ UNCHANGED <<outcomes, paid, winner, bReq, prBets, rRound>>
      /\ DOMAIN applied' = DOMAIN applied \cup {<<b, "credit">>}
  BY CreditDid
  DEF CreditWinner, HoldsWinner, RunMoves, SamePlayers, sessionVars, betVars, roundBetVars,
      queueVars
<1>2. /\ s \in Sessions /\ b \in BetCalls /\ cPc[b] = "accepted" /\ ~Did(b, "credit")
      /\ cReq[b].session = s
  BY <1>1, SettlingBet DEF MoneyInv, HeldMoney
<1> HIDE DEF b, s
<1>3. b \in LedgerBets /\ b \notin RoundBetCalls
  BY <1>0, <1>2 DEF LedgerBets, MoneyTypes
<1>4. Did(b, "bet") /\ ~Did(b, "refund") /\ ~Lost(b)
  <2>1. sBet[s] = b
    BY DEF b
  <2> QED BY <1>0, <1>2, <1>3, <2>1, LostBet DEF MoneyInv, BetMoney, BetMoneyOf
<1>5. \A d, k : <<d, k>> \in DOMAIN applied' <=> Did(d, k) \/ (d = b /\ k = "credit")
  BY <1>1 DEF Did
<1>6. \A d : Lost(d)' <=> Lost(d)
  BY <1>1, ReportsFrame
<1>7. Status(b) = "held"
  BY <1>0, <1>2, <1>3, <1>4, StatusIs
<1>8. \A e : e = b => Status(e)' = "won"
  BY <1>2, <1>4, <1>5 DEF Status, Did
<1>9. ASSUME NEW d \in LedgerBets \ {b} PROVE Status(d)' = Status(d)
  BY <1>5, <1>6, StatusFrame
<1>10. Terms(b).player = sPlayer[s] /\ Terms(b).payout = Prize
  BY <1>2 DEF Terms
<1>11. balances' = [balances EXCEPT ![Terms(b).player] = @ + Terms(b).payout]
  <2>1. Terms(b).player \in DOMAIN balances
    BY <1>1, <1>10 DEF Credit
  <2>2. balances[Terms(b).player] + Prize <= MaxUint64
    BY <1>3, <1>10, <2>1 DEF Roomy
  <2>3. Prize \in Word /\ <<b, "credit">> \notin DOMAIN applied
    BY PrizeIsWord, <1>2 DEF Did
  <2> QED BY <1>0, <1>1, <1>10, <2>2, <2>3, CreditExact
<1>12. ASSUME NEW e \in LedgerBets, e = b PROVE Ledger!Next
  BY <1>0, <1>1, <1>7, <1>8, <1>9, <1>11, <1>12, LedgerDecide
<1> QED BY <1>3, <1>12

\* A loss of nothing leaves every balance alone.
LEMMA LossExact ==
  ASSUME TypeInv, UNCHANGED balances, NEW p
  PROVE  balances' = [balances EXCEPT ![p] = @ + 0]
<1>1. balances \in [DOMAIN Opening -> Word] /\ Word \subseteq Int
  BY MaxUint64Assumption DEF TypeInv, TypeOK, WalletTypeOK, Word
<1>2. ASSUME NEW q \in DOMAIN balances
      PROVE  balances[q] = [balances EXCEPT ![p] = @ + 0][q]
  <2>1. balances[q] \in Int
    BY <1>1
  <2>2. balances[q] + 0 = balances[q]
    BY <2>1
  <2> QED BY <1>1, <2>2
<1> QED BY <1>1, <1>2

\* A lost bet is lost in some run, before a step and after it.
LEMMA LostSomewhere ==
  \A b : /\ Lost(b) <=> \E n \in RunCalls : LostIn(n, b)
         /\ Lost(b)' <=> \E n \in RunCalls : LostIn(n, b)'
  BY DEF Lost, LostIn

\* Settle decides the bet of a loser; the bet of the winner was decided when it
\* was credited, and the ledger stutters.
LEMMA SettleSessionLedger ==
  ASSUME IInv, RoundInv, MoneyInv, NEW n \in RunCalls, SettleSession(n)
  PROVE  Ledger!Next \/ UNCHANGED Ledger!ledgerVars
<1> DEFINE s == Settling(n)
           b == sBet[s]
           won == HoldsWinner(n)
           outcome == [bet |-> b, won |-> won, prize |-> IF won THEN Prize ELSE 0]
<1>0. MoneyTypes /\ TypeInv
  BY MoneyTyped DEF IInv
<1>1. /\ settled[n] < Len(took[n]) /\ rPc[n] = (IF won THEN "credited" ELSE "settle")
      /\ outcomes' = [outcomes EXCEPT ![n] = Append(outcomes[n], outcome)]
      /\ SamePlayers
      /\ UNCHANGED <<balances, applied, paid, winner, bReq, prBets, rRound>>
  BY DEF SettleSession, SettleBet, RunMoves, SamePlayers, betVars, roundBetVars, queueVars,
     walletVars
<1>2. /\ s \in Sessions /\ b \in BetCalls /\ cPc[b] = "accepted"
      /\ rPc[n] = "settle" => ~Did(b, "credit")
      /\ settled[n] \in Nat /\ sMarble[s] = settled[n]
  <2>1. rPc[n] \in {"settle", "credited"}
    BY <1>1
  <2> QED BY <1>1, <2>1, SettlingBet
<1>3. won \in BOOLEAN /\ (won <=> Did(b, "credit"))
  <2>1. RunMoneyOf(n)
    BY DEF MoneyInv, RunMoney
  <2> QED BY <1>1, <1>2, <2>1 DEF HoldsWinner, RunMoneyOf, CreditedWinner
<1>4. outcome.bet = b /\ outcome.won = won
  OBVIOUS
<1>5. sBet[s] = b
  OBVIOUS
<1> HIDE DEF outcome, won, b, s
<1>6. b \in LedgerBets /\ b \notin RoundBetCalls
  BY <1>0, <1>2 DEF LedgerBets, MoneyTypes
<1>7. Did(b, "bet") /\ ~Did(b, "refund") /\ ~Lost(b)
  BY <1>0, <1>2, <1>5, <1>6, LostBet DEF MoneyInv, BetMoney, BetMoneyOf
<1>8. \A d, k : <<d, k>> \in DOMAIN applied' <=> Did(d, k)
  BY <1>1 DEF Did
<1>9. \A d : Lost(d)' <=> Lost(d) \/ (d = b /\ ~won)
  <2>1. \A m \in RunCalls \ {n} : outcomes'[m] = outcomes[m]
    BY <1>0, <1>1 DEF MoneyTypes
  <2>2. ASSUME NEW m \in RunCalls \ {n}, NEW d PROVE LostIn(m, d)' <=> LostIn(m, d)
    BY <1>1, <2>1 DEF LostIn
  <2>3. /\ outcomes'[n] = Append(outcomes[n], outcome) /\ Len(outcomes[n]) \in Nat
        /\ Len(outcomes'[n]) = Len(outcomes[n]) + 1
        /\ outcomes'[n][Len(outcomes[n]) + 1] = outcome
        /\ \A i \in 1..Len(outcomes[n]) : outcomes'[n][i] = outcomes[n][i]
    <3>1. outcomes[n] \in Seq(Outcome)
      BY <1>0 DEF MoneyTypes
    <3>2. outcomes'[n] = Append(outcomes[n], outcome)
      BY <1>0, <1>1 DEF MoneyTypes
    <3> QED BY <3>1, <3>2
  <2>4. ASSUME NEW d PROVE LostIn(n, d)' <=> LostIn(n, d) \/ (d = b /\ ~won)
    <3>1. (\E i \in 1..Len(outcomes'[n]) : outcomes'[n][i].bet = d /\ ~outcomes'[n][i].won) <=>
            \/ \E i \in 1..Len(outcomes[n]) : outcomes[n][i].bet = d /\ ~outcomes[n][i].won
            \/ d = b /\ ~won
      <4>1. \A i : i \in 1..Len(outcomes'[n]) <=>
                     i \in 1..Len(outcomes[n]) \/ i = Len(outcomes[n]) + 1
        BY <2>3
      <4> QED BY <1>4, <2>3, <4>1
    <3> QED BY <1>1, <3>1 DEF LostIn
  <2> SUFFICES ASSUME NEW d PROVE Lost(d)' <=> Lost(d) \/ (d = b /\ ~won)
    OBVIOUS
  <2> QED BY <2>2, <2>4, LostSomewhere
<1>10. ASSUME NEW d \in LedgerBets \ {b} PROVE Status(d)' = Status(d)
  BY <1>8, <1>9, StatusFrame
<1>11. CASE won
  <2>1. \A d : Lost(d)' <=> Lost(d)
    BY <1>9, <1>11
  <2>2. \A x \in Sessions : sState[x] # "NONE" => sPlayer'[x] = sPlayer[x]
    BY <1>1 DEF SamePlayers
  <2> QED BY <1>0, <1>1, <2>1, <2>2, QuietLedger DEF SamePlayers
<1>12. CASE ~won
  <2>1. Status(b) = "held"
    BY <1>0, <1>3, <1>6, <1>7, <1>12, StatusIs
  <2>2. \A e : e = b => Status(e)' = "lost"
    BY <1>3, <1>7, <1>8, <1>9, <1>12 DEF Status, Did
  <2>3. balances' = [balances EXCEPT ![Terms(b).player] = @ + 0]
    BY <1>0, <1>1, LossExact
  <2>4. ASSUME NEW e \in LedgerBets, e = b PROVE Ledger!Next
    BY <1>0, <1>1, <1>10, <2>1, <2>2, <2>3, <2>4, LedgerDecide
  <2> QED BY <1>6, <2>4
<1> QED BY <1>3, <1>11, <1>12

\* A run decides the bets of its round one after the other.
LEMMA SettleRoundBetLedger ==
  ASSUME TypeInv, RoundInv, MoneyInv, Roomy, NEW n \in RunCalls, SettleRoundBet(n)
  PROVE  Ledger!Next
<1> DEFINE c == PayingBet(n)
           won == bReq[c].marble = winner[n]
           units == PayoutUnits(bReq[c].amount)
<1>0. MoneyTypes /\ RoundTypes
  BY MoneyTyped, RoundsTyped
<1>1. /\ rPc[n] = "roundBets" /\ paid[n] < Len(prBets[rRound[n]])
      /\ paid' = [paid EXCEPT ![n] = @ + 1]
      /\ won => Credit(bReq[c].player, units, <<c, "credit">>)
      /\ ~won => UNCHANGED <<balances, applied>>
      /\ SamePlayers
      /\ UNCHANGED <<outcomes, winner, bReq, prBets, rRound>>
  BY DEF SettleRoundBet, RunMoves, SamePlayers, sessionVars, betVars, roundBetVars, queueVars,
     walletVars
<1>2. /\ c \in RoundBetCalls /\ bPc[c] = "accepted" /\ ~Did(c, "credit")
      /\ \A m \in RunCalls : \A i \in 1..paid[m] : prBets[rRound[m]][i] # c
  BY <1>1, NotPaidYet
<1>3. /\ paid[n] \in Nat /\ paid'[n] = paid[n] + 1 /\ prBets[rRound[n]][paid[n] + 1] = c
      /\ \A m \in RunCalls \ {n} : paid'[m] = paid[m]
  BY <1>0, <1>1 DEF MoneyTypes, PayingBet
<1>4. units \in Word
  BY <1>2, RoundBetRequestType
<1>5. won \in BOOLEAN /\ (won <=> bReq[c].marble = winner[n])
  OBVIOUS
<1>6. /\ Terms(c).player = bReq[c].player /\ Terms(c).payout = units
      /\ c \in LedgerBets /\ c \notin BetCalls
  BY <1>0, <1>2 DEF Terms, LedgerBets, MoneyTypes
<1> HIDE DEF c, won, units
<1>7. /\ won => DOMAIN applied' = DOMAIN applied \cup {<<c, "credit">>}
      /\ ~won => applied' = applied
  BY <1>1, CreditDid
<1>8. Did(c, "bet") /\ ~Did(c, "refund") /\ ~Lost(c)
  <2>1. Did(c, "bet") /\ ~Did(c, "refund")
    BY <1>2 DEF MoneyInv, RoundBetMoney, RoundBetMoneyOf
  <2>2. ~PaidOf(c)
    BY <1>2 DEF PaidOf
  <2> QED BY <1>6, <2>1, <2>2, LostBet
<1>9. \A d, k : <<d, k>> \in DOMAIN applied' <=> Did(d, k) \/ (won /\ d = c /\ k = "credit")
  BY <1>7 DEF Did
<1>10. \A d : Lost(d)' <=> Lost(d) \/ (d = c /\ ~won)
  <2>1. ASSUME NEW m \in RunCalls \ {n}, NEW d PROVE LostIn(m, d)' <=> LostIn(m, d)
    BY <1>1, <1>3 DEF LostIn
  <2>2. ASSUME NEW d PROVE LostIn(n, d)' <=> LostIn(n, d) \/ (d = c /\ ~won)
    <3>1. \A i : i \in 1..paid'[n] <=> i \in 1..paid[n] \/ i = paid[n] + 1
      BY <1>3
    <3>2. (\E i \in 1..paid'[n] : prBets[rRound[n]][i] = d /\ bReq[d].marble # winner[n]) <=>
            \/ \E i \in 1..paid[n] : prBets[rRound[n]][i] = d /\ bReq[d].marble # winner[n]
            \/ d = c /\ ~won
      BY <1>3, <1>5, <3>1
    <3> QED BY <1>1, <3>2 DEF LostIn
  <2> SUFFICES ASSUME NEW d PROVE Lost(d)' <=> Lost(d) \/ (d = c /\ ~won)
    OBVIOUS
  <2> QED BY <2>1, <2>2, LostSomewhere
<1>11. ASSUME NEW d \in LedgerBets \ {c} PROVE Status(d)' = Status(d)
  BY <1>9, <1>10, StatusFrame
<1>12. Status(c) = "held"
  BY <1>2, <1>6, <1>8, StatusIs
<1>13. CASE won
  <2>1. \A e : e = c => Status(e)' = "won"
    BY <1>2, <1>8, <1>9, <1>13 DEF Status, Did
  <2>2. Terms(c).player \in DOMAIN balances
    BY <1>1, <1>6, <1>13 DEF Credit
  <2>3. balances[bReq[c].player] + units <= MaxUint64
    BY <1>6, <2>2 DEF Roomy
  <2>4. balances' = [balances EXCEPT ![Terms(c).player] = @ + Terms(c).payout]
    BY <1>1, <1>2, <1>4, <1>6, <1>13, <2>3, CreditExact DEF Did
  <2>5. ASSUME NEW e \in LedgerBets, e = c PROVE Ledger!Next
    BY <1>1, <1>11, <1>12, <2>1, <2>4, <2>5, LedgerDecide
  <2> QED BY <1>6, <2>5
<1>14. CASE ~won
  <2>1. \A e : e = c => Status(e)' = "lost"
    BY <1>2, <1>8, <1>9, <1>10, <1>14 DEF Status, Did
  <2>2. balances' = [balances EXCEPT ![Terms(c).player] = @ + 0]
    BY <1>1, <1>14, LossExact
  <2>3. ASSUME NEW e \in LedgerBets, e = c PROVE Ledger!Next
    BY <1>1, <1>11, <1>12, <2>1, <2>2, <2>3, LedgerDecide
  <2> QED BY <1>6, <2>3
<1> QED BY <1>5, <1>13, <1>14
-----------------------------------------------------------------------------
(* The steps that move no money.                                           *)

\* A run that has settled nothing and paid nothing has lost nobody's bet.
LEMMA NothingLost ==
  ASSUME IInv, MoneyInv, NEW n \in RunCalls, rPc[n] = "idle" \/ rPc[n] = "assign"
  PROVE  Len(outcomes[n]) = 0 /\ paid[n] = 0
<1>0. MoneyTypes /\ RunStage(n) /\ RunMoneyOf(n)
  BY MoneyTyped DEF IInv, Ownership, RunStages, MoneyInv, RunMoney
<1>1. settled[n] = 0
  <2>1. rPc[n] = "idle" => Len(took[n]) = 0
    BY <1>0 DEF RunStage
  <2> QED BY <1>0, <2>1 DEF RunStage, MoneyTypes
<1>2. ~(paid[n] > 0)
  BY <1>0 DEF RunMoneyOf, PaidRight
<1> QED BY <1>0, <1>1, <1>2 DEF MoneyTypes, RunMoneyOf, OutcomesTrue

\* Such a run may take another round or learn its winner: it changes no bet.
LEMMA StillNothingLost ==
  ASSUME IInv, MoneyInv, NEW n \in RunCalls, rPc[n] = "idle" \/ rPc[n] = "assign",
         UNCHANGED <<balances, applied, outcomes, paid, prBets, bReq>>, SamePlayers,
         \A m \in RunCalls \ {n} : rRound'[m] = rRound[m] /\ winner'[m] = winner[m]
  PROVE  UNCHANGED Ledger!ledgerVars
<1>1. Len(outcomes[n]) = 0 /\ paid[n] = 0 /\ TypeInv
  BY NothingLost DEF IInv
<1>2. ASSUME NEW d PROVE ~LostIn(n, d) /\ ~LostIn(n, d)'
  BY <1>1 DEF LostIn
<1>3. ASSUME NEW m \in RunCalls \ {n}, NEW d PROVE LostIn(m, d)' <=> LostIn(m, d)
  BY <1>3 DEF LostIn
<1>4. \A d : Lost(d)' <=> Lost(d)
  BY <1>2, <1>3, LostSomewhere
<1>5. \A x \in Sessions : sState[x] # "NONE" => sPlayer'[x] = sPlayer[x]
  BY DEF SamePlayers
<1> QED BY <1>1, <1>4, <1>5, QuietLedger DEF SamePlayers

\* A step outside the wallet that no run has a part in.
LEMMA IdleLedger ==
  ASSUME TypeInv, MoneyInv, UNCHANGED <<walletVars, cReq, bReq, outcomes, paid, winner>>,
         \A n \in RunCalls : prBets'[rRound'[n]] = prBets[rRound[n]],
         \A s \in Sessions : sState[s] # "NONE" => sPlayer'[s] = sPlayer[s]
  PROVE  UNCHANGED Ledger!ledgerVars
  BY ReportsFrame, QuietLedger DEF walletVars

\* Sessions come and go without a bet.
LEMMA SessionLedger ==
  ASSUME TypeInv, MoneyInv, NEW s \in Sessions, OpenSession(s) \/ CloseSession(s)
  PROVE  UNCHANGED Ledger!ledgerVars
<1>1. UNCHANGED <<walletVars, cReq, bReq, outcomes, paid, winner, prBets, rRound>>
  BY DEF OpenSession, CloseSession, queueVars, betVars, roundBetVars, runVars
<1>2. \/ sState[s] = "NONE" /\ \E p : sPlayer' = [sPlayer EXCEPT ![s] = p]
      \/ UNCHANGED sPlayer
  BY DEF OpenSession, CloseSession, Open, Close
<1>3. \A x \in Sessions : sState[x] # "NONE" => sPlayer'[x] = sPlayer[x]
  <2>1. sPlayer \in [Sessions -> Players]
    BY DEF TypeInv, TypeOK, SessionTypeOK
  <2> QED BY <1>2, <2>1
<1> QED BY <1>1, <1>3, IdleLedger

\* The steps of requests and runs that touch neither money nor outcomes.
LEMMA QuietStepLedger ==
  ASSUME TypeInv, RoundInv, MoneyInv,
         \/ \E c \in BetCalls : RefuseBet(c) \/ AttachToSession(c) \/ RejectAttach(c)
                                  \/ LoseRefund(c) \/ EnqueueBet(c)
         \/ \E g \in StartCalls : MintSpec(g) \/ RegisterSpec(g)
         \/ \E c \in RoundBetCalls : FindRound(c) \/ RefuseRoundBet(c) \/ RefuseRoundDebit(c)
                                       \/ ConfirmRoundBet(c) \/ MissRound(c) \/ LoseRoundRefund(c)
         \/ \E n \in RunCalls : MintFresh(n) \/ Admit(n) \/ LockMarble(n) \/ SimFails(n)
                                  \/ CreditFails(n) \/ SaveManifest(n) \/ SaveFails(n)
                                  \/ RoundCreditFails(n) \/ FinishRound(n)
  PROVE  UNCHANGED Ledger!ledgerVars
<1> USE DEF queueVars, sessionVars, betVars, roundBetVars, runVars
<1>1. CASE \E c \in BetCalls : RefuseBet(c) \/ AttachToSession(c) \/ RejectAttach(c)
                                 \/ LoseRefund(c) \/ EnqueueBet(c)
  BY <1>1, IdleLedger
  DEF RefuseBet, AttachToSession, RejectAttach, LoseRefund, EnqueueBet, BetMoves, AttachBet
<1>2. CASE \E g \in StartCalls : MintSpec(g) \/ RegisterSpec(g)
  BY <1>2, IdleLedger DEF MintSpec, RegisterSpec
<1>3. CASE \E c \in RoundBetCalls : FindRound(c) \/ RefuseRoundBet(c) \/ RefuseRoundDebit(c)
                                      \/ MissRound(c) \/ LoseRoundRefund(c)
  BY <1>3, IdleLedger
  DEF FindRound, RefuseRoundBet, RefuseRoundDebit, MissRound, LoseRoundRefund, RoundBetMoves
<1>4. ASSUME NEW c \in RoundBetCalls, ConfirmRoundBet(c) PROVE UNCHANGED Ledger!ledgerVars
  <2>1. \A m \in RunCalls : prBets'[rRound[m]] = prBets[rRound[m]]
    BY <1>4, ConfirmElsewhere
  <2> QED BY <1>4, <2>1, IdleLedger DEF ConfirmRoundBet, RoundBetMoves
<1>5. CASE \E n \in RunCalls : MintFresh(n) \/ Admit(n) \/ LockMarble(n) \/ SimFails(n)
                                 \/ CreditFails(n) \/ SaveManifest(n) \/ SaveFails(n)
                                 \/ RoundCreditFails(n) \/ FinishRound(n)
  BY <1>5, IdleLedger
  DEF MintFresh, Admit, LockMarble, SimFails, CreditFails, SaveManifest, SaveFails,
      RoundCreditFails, FinishRound, RunMoves, AssignMarble
<1> QED BY <1>1, <1>2, <1>3, <1>4, <1>5

\* The first two steps of a run that learn something: its round, its winner.
LEMMA TakeOrRaceLedger ==
  ASSUME IInv, MoneyInv, NEW n \in RunCalls, TakeQueue(n) \/ Race(n)
  PROVE  UNCHANGED Ledger!ledgerVars
<1>1. /\ rPc[n] = "idle" \/ rPc[n] = "assign"
      /\ UNCHANGED <<balances, applied, outcomes, paid, prBets, bReq>> /\ SamePlayers
  BY DEF TakeQueue, Race, RunMoves, SamePlayers, walletVars, queueVars, sessionVars, betVars,
     roundBetVars
<1>2. \A m \in RunCalls \ {n} : rRound'[m] = rRound[m] /\ winner'[m] = winner[m]
  <2>1. rRound \in [RunCalls -> Rounds] /\ winner \in [RunCalls -> Int]
    BY DEF IInv, TypeInv, TypeOK, RunsTypeOK
  <2> QED BY <2>1 DEF TakeQueue, Race
<1> QED BY <1>1, <1>2, StillNothingLost
-----------------------------------------------------------------------------
\* The ledger begins with nothing placed.
LEMMA InitLedger == Init => Ledger!Init
<1> SUFFICES ASSUME Init PROVE Ledger!Init
  OBVIOUS
<1>1. \A b \in LedgerBets : Status(b) = "none"
  BY DEF Init, WalletInit, Status
<1> QED BY <1>1 DEF Init, WalletInit, Ledger!Init, Ledger!NoTerms, LedgerBets

\* Every step of the manager is a step of the ledger, or none of its business.
LEMMA StepLedger ==
  ASSUME FullInv, Roomy, [Next]_vars
  PROVE  [Ledger!Next]_(Ledger!ledgerVars)
<1> SUFFICES Ledger!Next \/ UNCHANGED Ledger!ledgerVars
  OBVIOUS
<1>0. IInv /\ RoundInv /\ MoneyInv /\ TypeInv
  BY DEF FullInv, IInv
<1>1. CASE UNCHANGED vars
  BY <1>0, <1>1, IdleLedger DEF vars, queueVars, sessionVars, betVars, roundBetVars, runVars
<1>2. ASSUME NEW s \in Sessions, OpenSession(s) \/ CloseSession(s)
      PROVE  UNCHANGED Ledger!ledgerVars
  BY <1>0, <1>2, SessionLedger
<1>3. ASSUME NEW c \in BetCalls, DebitStake(c) \/ RefuseBet(c) \/ BetStep(c)
      PROVE  Ledger!Next \/ UNCHANGED Ledger!ledgerVars
  BY <1>0, <1>3, DebitStakeLedger, RefundStakeLedger, QuietStepLedger DEF BetStep
<1>4. ASSUME NEW g \in StartCalls, MintSpec(g) \/ RegisterSpec(g)
      PROVE  UNCHANGED Ledger!ledgerVars
  BY <1>0, <1>4, QuietStepLedger
<1>5. ASSUME NEW c \in RoundBetCalls, FindRound(c) \/ RefuseRoundBet(c) \/ RoundBetStep(c)
      PROVE  Ledger!Next \/ UNCHANGED Ledger!ledgerVars
  BY <1>0, <1>5, DebitRoundBetLedger, RefundRoundBetLedger, QuietStepLedger DEF RoundBetStep
<1>6. ASSUME NEW n \in RunCalls, TakeQueue(n) \/ RunStep(n)
      PROVE  Ledger!Next \/ UNCHANGED Ledger!ledgerVars
  BY <1>0, <1>6, TakeOrRaceLedger, CreditWinnerLedger, SettleSessionLedger, SettleRoundBetLedger,
     QuietStepLedger DEF RunStep
<1> QED BY <1>1, <1>2, <1>3, <1>4, <1>5, <1>6 DEF Next

\* The manager implements BetLedger as long as every balance has room for one
\* more stake or payout: a balance moves by the stake of a bet being placed and
\* then by that bet's one outcome, and by nothing else.
THEOREM LedgerKept == Spec /\ []Roomy => KeepsLedger
<1>1. FullInv /\ Roomy /\ [Next]_vars => [Ledger!Next]_(Ledger!ledgerVars)
  BY StepLedger
<1> QED BY <1>1, InitLedger, MoneyInvariance, PTL DEF Spec, KeepsLedger, Ledger!Spec
=============================================================================
