-------------------------- MODULE GameClientProofs --------------------------
(***************************************************************************)
(* The game client against the server's queue, for any number of clients,  *)
(* bets and marbles: every run finds a minted round of its own, and a race *)
(* shows the server's settlement when the server ran the client's round.   *)
(***************************************************************************)
EXTENDS GameClient, FiniteSetTheorems, TLAPS

Phases == {"asking", "minted", "window", "racing", "finished", "closed"}
Calling == {"none", "sent", "served", "heard"}
Hearings == {"idle", "waiting", "completed", "failed"}
RunStates == {"idle", "sent", "running", "settled", "failed"}

Types ==
  /\ phase \in [Clients -> Phases]
  /\ roundId \in [Clients -> Clients \cup {None}]
  /\ bet \in [Clients -> [BetIds -> Calling]]
  /\ placed \in [Clients -> SUBSET BetIds] /\ recorded \in [Clients -> SUBSET BetIds]
  /\ outcomes \in [Clients -> SUBSET BetIds]
  /\ heard \in [Clients -> Hearings]
  /\ line \in [Clients -> Lines \cup {Hidden}]
  /\ rounds \in Seq(Clients)
  /\ run \in [Clients -> RunStates]
  /\ took \in [Clients -> Clients \cup {None}]
  /\ winner \in [Clients -> Marbles \cup {None}]

\* The rounds in the queue and the rounds of the runs are all different, and a
\* client whose round does not exist yet has asked for no run.
QueuedRoundsDiffer == \A i, j \in 1..Len(rounds) : rounds[i] = rounds[j] => i = j

TakenRoundsDiffer ==
  /\ \A c \in Clients : ~IsPending(took[c])
  /\ \A c, d \in Clients : c # d /\ took[c] # None => took[c] # took[d]

MintedFirst ==
  \A c \in Clients :
    /\ Minted(c) => phase[c] # "asking"
    /\ phase[c] \in {"minted", "window"} \/ run[c] # "idle" => Minted(c)

RoundsRight == QueuedRoundsDiffer /\ TakenRoundsDiffer /\ MintedFirst

\* What a client shows and keeps, against what the server holds of its round.
ClientRight(c) ==
  /\ phase[c] \in {"asking", "minted", "window"} => heard[c] = "idle" /\ run[c] = "idle"
  /\ heard[c] = "completed" => run[c] = "settled"
  /\ run[c] \in {"idle", "sent"} <=> took[c] = None
  /\ run[c] = "settled" => winner[c] \in Marbles
  /\ roundId[c] \in {c, None}
  /\ placed[c] \subseteq recorded[c]
  /\ outcomes[c] # {} => heard[c] = "completed" /\ phase[c] \in {"racing", "closed"}
  /\ phase[c] = "racing" /\ heard[c] = "completed" /\ took[c] = c => outcomes[c] = recorded[c]
  /\ phase[c] = "finished" /\ heard[c] = "completed" /\ took[c] = c =>
       line[c] = Settlement(c, recorded[c])

ClientsRight == \A c \in Clients : ClientRight(c)

ClientInv == Types /\ RoundsRight /\ ClientsRight
-----------------------------------------------------------------------------
\* At the start nothing is minted and every client asks.
LEMMA InitInv == Init => ClientInv
  BY ClientAssumption
  DEF Init, ClientInv, Types, RoundsRight, QueuedRoundsDiffer, TakenRoundsDiffer, MintedFirst,
      Minted, IsPending, ClientsRight, ClientRight, Phases, Calling, Hearings, RunStates
-----------------------------------------------------------------------------
(* Frames.                                                                 *)

\* The queue and the runs' rounds do not move, nor does anybody ask again.
LEMMA RoundsFrame ==
  ASSUME RoundsRight, UNCHANGED <<rounds, took>>,
         \A c \in Clients : phase'[c] = "asking" => phase[c] = "asking",
         \A c \in Clients : phase'[c] \in {"minted", "window"} \/ run'[c] # "idle" =>
           phase[c] \in {"minted", "window"} \/ run[c] # "idle"
  PROVE  RoundsRight'
  BY DEF RoundsRight, QueuedRoundsDiffer, TakenRoundsDiffer, MintedFirst, Minted, IsPending

\* Nothing of client c moves but its bets' calls.
SameClient(c) ==
  /\ phase'[c] = phase[c] /\ heard'[c] = heard[c] /\ run'[c] = run[c] /\ took'[c] = took[c]
  /\ winner'[c] = winner[c] /\ roundId'[c] = roundId[c] /\ placed'[c] = placed[c]
  /\ recorded'[c] = recorded[c] /\ outcomes'[c] = outcomes[c] /\ line'[c] = line[c]

\* A client nothing happens to stays right.
LEMMA OtherClient ==
  ASSUME NEW c, ClientRight(c), SameClient(c)
  PROVE  ClientRight(c)'
  BY DEF ClientRight, SameClient, Settlement

\* A step of client c that is right for c and leaves the others alone.
LEMMA OneClient ==
  ASSUME ClientsRight, NEW c \in Clients, ClientRight(c)',
         \A d \in Clients \ {c} : SameClient(d)
  PROVE  ClientsRight'
<1>1. ASSUME NEW d \in Clients \ {c} PROVE ClientRight(d)'
  BY OtherClient DEF ClientsRight
<1> QED BY <1>1 DEF ClientsRight

\* The bets of the line a client shows come from the set it is computed from.
LEMMA SettlementType ==
  ASSUME Types, NEW c \in Clients, winner[c] \in Marbles, NEW b \in SUBSET BetIds
  PROVE  Settlement(c, b) \in Lines \cup {Hidden}
  BY DEF Settlement, Lines

LEMMA RevealType ==
  ASSUME Types, NEW c \in Clients, NEW m \in Marbles
  PROVE  Reveal(c, m) \in Lines \cup {Hidden}
  BY DEF Reveal, Lines, Types
-----------------------------------------------------------------------------
(* The start.                                                              *)

\* A client's round is minted once, before or after it has given it up: the
\* round is nowhere yet.
LEMMA MintRoundInv == ASSUME ClientInv, NEW c \in Clients, MintRound(c) PROVE ClientInv'
<1> USE DEF ClientInv
<1>1. /\ phase' = IF phase[c] = "asking" THEN [phase EXCEPT ![c] = "minted"] ELSE phase
      /\ rounds' = Append(rounds, c)
      /\ UNCHANGED <<roundId, placed, outcomes, line, recorded, took, winner, bet, heard, run>>
  BY DEF MintRound
<1>2. Types'
  BY <1>1 DEF Types, Phases
<1>3. /\ phase'[c] = IF phase[c] = "asking" THEN "minted" ELSE phase[c]
      /\ \A d \in Clients \ {c} : phase'[d] = phase[d]
      /\ Len(rounds) \in Nat /\ Len(rounds') = Len(rounds) + 1
      /\ rounds'[Len(rounds) + 1] = c
      /\ \A i \in 1..Len(rounds) : rounds'[i] = rounds[i] /\ rounds[i] \in Clients
  BY <1>1 DEF Types
<1>4. ~Minted(c)
  BY DEF MintRound
<1>5. \A r : IsPending(r)' <=> IsPending(r) \/ r = c
  <2> SUFFICES ASSUME NEW r
               PROVE  (\E i \in DOMAIN rounds' : rounds'[i] = r) <=>
                        (\E i \in DOMAIN rounds : rounds[i] = r) \/ r = c
    BY DEF IsPending
  <2>1. DOMAIN rounds' = 1..(Len(rounds) + 1) /\ DOMAIN rounds = 1..Len(rounds)
    BY <1>2, <1>3 DEF Types
  <2>2. \A i : i \in 1..(Len(rounds) + 1) <=> i \in 1..Len(rounds) \/ i = Len(rounds) + 1
    BY <1>3
  <2> QED BY <1>3, <2>1, <2>2
<1>6. QueuedRoundsDiffer'
  <2>1. \A i \in 1..Len(rounds) : rounds[i] # c
    BY <1>4 DEF Minted, IsPending, Types
  <2>2. \A i : i \in 1..Len(rounds') <=> i \in 1..Len(rounds) \/ i = Len(rounds) + 1
    BY <1>3
  <2> QED BY <1>3, <2>1, <2>2 DEF RoundsRight, QueuedRoundsDiffer
<1>7. TakenRoundsDiffer'
  <2>1. ASSUME NEW d \in Clients PROVE ~IsPending(took[d])'
    <3>1. took'[d] = took[d] /\ ~IsPending(took[d]) /\ took[d] # c
      BY <1>1, <1>4 DEF RoundsRight, TakenRoundsDiffer, Minted
    <3> QED BY <1>5, <3>1 DEF IsPending
  <2> QED BY <1>1, <2>1 DEF RoundsRight, TakenRoundsDiffer, IsPending
<1>8. MintedFirst'
  <2>1. ASSUME NEW d \in Clients PROVE Minted(d)' <=> Minted(d) \/ d = c
    BY <1>1, <1>5 DEF Minted
  <2> QED BY <1>1, <1>3, <2>1 DEF RoundsRight, MintedFirst
<1>9. ClientRight(c)'
  <2>1. ClientRight(c)
    BY DEF ClientsRight
  <2>2. CASE phase[c] = "asking"
    BY <1>1, <1>3, <2>1, <2>2 DEF ClientRight, Settlement
  <2>3. CASE phase[c] # "asking"
    <3>1. SameClient(c)
      BY <1>1, <1>3, <2>3 DEF SameClient
    <3> QED BY <2>1, <3>1, OtherClient
  <2> QED BY <2>2, <2>3
<1>10. \A d \in Clients \ {c} : SameClient(d)
  BY <1>1, <1>3 DEF SameClient
<1> QED BY <1>2, <1>6, <1>7, <1>8, <1>9, <1>10, OneClient DEF RoundsRight

\* The answer of the mint, its failure, and the player's leaving.
LEMMA PhaseInv ==
  ASSUME ClientInv, NEW c \in Clients, HearSpec(c) \/ FallBack(c) \/ Quit(c)
  PROVE  ClientInv'
<1> USE DEF ClientInv
<1>1. /\ \/ phase[c] = "minted" /\ phase' = [phase EXCEPT ![c] = "window"]
         \/ phase[c] \in {"asking", "minted"} /\ phase' = [phase EXCEPT ![c] = "racing"]
         \/ phase' = [phase EXCEPT ![c] = "closed"]
      /\ \/ \E id \in {c, None} : roundId' = [roundId EXCEPT ![c] = id]
         \/ UNCHANGED roundId
      /\ UNCHANGED <<placed, outcomes, line, serverVars, bet, heard, run>>
  BY DEF HearSpec, FallBack, Quit, Enters
<1>2. Types'
  <2>1. phase' \in [Clients -> Phases]
    BY <1>1 DEF Types, Phases
  <2>2. roundId' \in [Clients -> Clients \cup {None}]
    <3>1. roundId \in [Clients -> Clients \cup {None}]
      BY DEF Types
    <3>2. ASSUME NEW id \in {c, None}, roundId' = [roundId EXCEPT ![c] = id]
          PROVE  roundId' \in [Clients -> Clients \cup {None}]
      BY <3>1, <3>2
    <3> QED BY <1>1, <3>1, <3>2
  <2> QED BY <1>1, <2>1, <2>2 DEF Types, serverVars
<1>3. /\ \/ phase[c] = "minted" /\ phase'[c] = "window"
         \/ phase[c] \in {"asking", "minted"} /\ phase'[c] = "racing"
         \/ phase'[c] = "closed"
      /\ roundId'[c] \in {c, None, roundId[c]}
      /\ \A d \in Clients \ {c} : phase'[d] = phase[d] /\ roundId'[d] = roundId[d]
  BY <1>1 DEF Types
<1>4. RoundsRight'
  BY <1>1, <1>3, RoundsFrame DEF serverVars
<1>5. ClientRight(c)'
  <2>1. ClientRight(c)
    BY DEF ClientsRight
  <2> QED BY <1>1, <1>3, <2>1 DEF ClientRight, serverVars
<1>6. \A d \in Clients \ {c} : SameClient(d)
  BY <1>1, <1>3 DEF SameClient, serverVars
<1> QED BY <1>2, <1>4, <1>5, <1>6, OneClient
-----------------------------------------------------------------------------
(* Bets.                                                                   *)

\* A bet's call moves on; a bet may be recorded on a round that waits, and a
\* client counts a bet the server has recorded.
LEMMA BetCallInv ==
  ASSUME ClientInv, NEW c \in Clients, NEW k \in BetIds, NEW to \in Calling,
         bet' = [bet EXCEPT ![c][k] = to],
         UNCHANGED <<phase, roundId, outcomes, line, rounds, took, winner, heard, run>>,
         \/ UNCHANGED recorded
         \/ IsPending(c) /\ recorded' = [recorded EXCEPT ![c] = @ \cup {k}],
         \/ UNCHANGED placed
         \/ k \in recorded[c] /\ placed' = [placed EXCEPT ![c] = @ \cup {k}]
  PROVE  ClientInv'
<1> USE DEF ClientInv
<1>1. Types'
  <2>1. bet' \in [Clients -> [BetIds -> Calling]]
    BY DEF Types
  <2>2. recorded[c] \cup {k} \in SUBSET BetIds /\ placed[c] \cup {k} \in SUBSET BetIds
    BY DEF Types
  <2>3. recorded' \in [Clients -> SUBSET BetIds]
    BY <2>2 DEF Types
  <2>4. placed' \in [Clients -> SUBSET BetIds]
    BY <2>2 DEF Types
  <2> QED BY <2>1, <2>3, <2>4 DEF Types
<1>2. RoundsRight'
  BY RoundsFrame
<1>3. /\ \A d \in Clients \ {c} : recorded'[d] = recorded[d] /\ placed'[d] = placed[d]
      /\ recorded[c] \subseteq recorded'[c]
      /\ placed'[c] \subseteq placed[c] \cup recorded[c]
      /\ recorded'[c] = recorded[c] \/ IsPending(c)
  <2>1. /\ \A d \in Clients \ {c} : recorded'[d] = recorded[d]
        /\ recorded[c] \subseteq recorded'[c]
        /\ recorded'[c] = recorded[c] \/ IsPending(c)
    BY DEF Types
  <2>2. /\ \A d \in Clients \ {c} : placed'[d] = placed[d]
        /\ placed'[c] \subseteq placed[c] \cup recorded[c]
    BY DEF Types
  <2> QED BY <2>1, <2>2
<1>4. ClientRight(c)'
  <2>1. ClientRight(c)
    BY DEF ClientsRight
  <2>2. took[c] = c => recorded'[c] = recorded[c]
    <3>1. ~IsPending(took[c])
      BY DEF RoundsRight, TakenRoundsDiffer
    <3> QED BY <1>3, <3>1
  <2> QED BY <1>3, <2>1, <2>2 DEF ClientRight, Settlement
<1>5. \A d \in Clients \ {c} : SameClient(d)
  BY <1>3 DEF SameClient
<1> QED BY <1>1, <1>2, <1>4, <1>5, OneClient

\* Every step of a bet.
LEMMA BetInv ==
  ASSUME ClientInv, NEW c \in Clients, NEW k \in BetIds,
         \/ PlaceBet(c, k) \/ RecordBet(c, k) \/ RefuseBet(c, k)
         \/ HearBet(c, k) \/ LoseBet(c, k)
  PROVE  ClientInv'
<1>0. Types /\ roundId[c] \in {c, None}
  BY DEF ClientInv, ClientsRight, ClientRight
<1>1. CASE PlaceBet(c, k) \/ RefuseBet(c, k) \/ LoseBet(c, k)
  <2>1. /\ \E to \in Calling : bet' = [bet EXCEPT ![c][k] = to]
        /\ UNCHANGED <<phase, roundId, outcomes, line, rounds, took, winner, heard, run>>
        /\ UNCHANGED <<recorded, placed>>
    BY <1>1 DEF PlaceBet, RefuseBet, LoseBet, Calls, Calling
  <2> QED BY <2>1, BetCallInv
<1>2. CASE RecordBet(c, k)
  <2>1. /\ bet' = [bet EXCEPT ![c][k] = "served"] /\ "served" \in Calling
        /\ UNCHANGED <<phase, roundId, outcomes, line, rounds, took, winner, heard, run>>
        /\ UNCHANGED placed /\ IsPending(roundId[c])
        /\ recorded' = [recorded EXCEPT ![roundId[c]] = @ \cup {k}]
    BY <1>2 DEF RecordBet, Calls, Calling
  <2>2. roundId[c] = c
    <3>1. ~IsPending(None)
      BY <1>0, ClientAssumption DEF IsPending, Types
    <3> QED BY <1>0, <2>1, <3>1
  <2> QED BY <2>1, <2>2, BetCallInv
<1>3. CASE HearBet(c, k)
  <2>1. /\ bet' = [bet EXCEPT ![c][k] = "heard"] /\ "heard" \in Calling
        /\ UNCHANGED <<phase, roundId, outcomes, line, rounds, took, winner, heard, run>>
        /\ UNCHANGED recorded
        /\ placed' = [placed EXCEPT ![c] = IF k \in recorded[c] THEN @ \cup {k} ELSE @]
    BY <1>3 DEF HearBet, Calls, Calling
  <2>2. \/ UNCHANGED placed
        \/ k \in recorded[c] /\ placed' = [placed EXCEPT ![c] = @ \cup {k}]
    <3>1. CASE k \in recorded[c]
      BY <2>1, <3>1
    <3>2. CASE k \notin recorded[c]
      BY <1>0, <2>1, <3>2 DEF Types
    <3> QED BY <3>1, <3>2
  <2> QED BY <2>1, <2>2, BetCallInv
<1> QED BY <1>1, <1>2, <1>3
-----------------------------------------------------------------------------
(* The run and the race.                                                   *)

\* The window closes on a client that has minted its round.
LEMMA CloseWindowInv == ASSUME ClientInv, NEW c \in Clients, CloseWindow(c) PROVE ClientInv'
<1> USE DEF ClientInv
<1>1. /\ phase[c] = "window" /\ phase' = [phase EXCEPT ![c] = "racing"]
      /\ \/ heard' = [heard EXCEPT ![c] = "waiting"] /\ run' = [run EXCEPT ![c] = "sent"]
         \/ heard' = [heard EXCEPT ![c] = "failed"] /\ UNCHANGED run
      /\ UNCHANGED <<roundId, placed, outcomes, line, serverVars, bet>>
  BY DEF CloseWindow, Enters
<1>2. Types'
  <2>1. phase' \in [Clients -> Phases] /\ heard' \in [Clients -> Hearings]
        /\ run' \in [Clients -> RunStates]
    BY <1>1 DEF Types, Phases, Hearings, RunStates
  <2> QED BY <1>1, <2>1 DEF Types, serverVars
<1>3. /\ phase'[c] = "racing" /\ heard'[c] \in {"waiting", "failed"}
      /\ run'[c] \in {run[c], "sent"}
      /\ \A d \in Clients \ {c} :
           phase'[d] = phase[d] /\ heard'[d] = heard[d] /\ run'[d] = run[d]
  BY <1>1 DEF Types
<1>4. RoundsRight'
  BY <1>1, <1>3, RoundsFrame DEF serverVars
<1>5. ClientRight(c)'
  <2>1. ClientRight(c)
    BY DEF ClientsRight
  <2> QED BY <1>1, <1>3, <2>1 DEF ClientRight, serverVars
<1>6. \A d \in Clients \ {c} : SameClient(d)
  BY <1>1, <1>3 DEF SameClient, serverVars
<1> QED BY <1>2, <1>4, <1>5, <1>6, OneClient

\* The server's run of a round ends, with a winner or without.
LEMMA EndRunInv ==
  ASSUME ClientInv, NEW c \in Clients, SettleRound(c) \/ FailRound(c)
  PROVE  ClientInv'
<1> USE DEF ClientInv
<1>1. /\ run[c] = "running"
      /\ \/ run' = [run EXCEPT ![c] = "settled"]
            /\ \E m \in Marbles : winner' = [winner EXCEPT ![c] = m]
         \/ run' = [run EXCEPT ![c] = "failed"] /\ UNCHANGED winner
      /\ UNCHANGED <<clientVars, bet, heard, recorded, rounds, took>>
  BY DEF SettleRound, FailRound, Runs
<1>2. Types'
  <2>1. run' \in [Clients -> RunStates]
    BY <1>1 DEF Types, RunStates
  <2>2. winner' \in [Clients -> Marbles \cup {None}]
    BY <1>1 DEF Types
  <2> QED BY <1>1, <2>1, <2>2 DEF Types, clientVars
<1>3. /\ \/ run'[c] = "settled" /\ winner'[c] \in Marbles
         \/ run'[c] = "failed" /\ winner'[c] = winner[c]
      /\ \A d \in Clients \ {c} : run'[d] = run[d] /\ winner'[d] = winner[d]
  BY <1>1 DEF Types
<1>4. RoundsRight'
  BY <1>1, <1>3, RoundsFrame DEF clientVars
<1>5. ClientRight(c)'
  <2>1. ClientRight(c)
    BY DEF ClientsRight
  <2> QED BY <1>1, <1>3, <2>1 DEF ClientRight, clientVars
<1>6. \A d \in Clients \ {c} : SameClient(d)
  BY <1>1, <1>3 DEF SameClient, clientVars
<1> QED BY <1>2, <1>4, <1>5, <1>6, OneClient

\* The answer is shown if the race is over and kept if it is not.
LEMMA HearResultInv == ASSUME ClientInv, NEW c \in Clients, HearResult(c) PROVE ClientInv'
<1> USE DEF ClientInv
<1>0. ClientRight(c)
  BY DEF ClientsRight
<1>1. /\ phase[c] # "closed" /\ heard[c] = "waiting" /\ run[c] = "settled"
      /\ heard' = [heard EXCEPT ![c] = "completed"]
      /\ IF phase[c] = "finished"
         THEN line' = [line EXCEPT ![c] = Settlement(c, OutcomesFor(c))] /\ UNCHANGED outcomes
         ELSE outcomes' = [outcomes EXCEPT ![c] = OutcomesFor(c)] /\ UNCHANGED line
      /\ UNCHANGED <<phase, roundId, placed, serverVars, bet, run>>
  BY DEF HearResult
<1>2. /\ OutcomesFor(c) \in SUBSET BetIds
      /\ took[c] = c => OutcomesFor(c) = recorded[c]
      /\ winner[c] \in Marbles
  BY <1>0, <1>1 DEF OutcomesFor, Types, ClientRight
<1>3. phase[c] # "finished" => phase[c] = "racing"
  BY <1>0, <1>1 DEF ClientRight, Types, Phases
<1>4. Types'
  <2>1. line' \in [Clients -> Lines \cup {Hidden}]
    <3>1. Settlement(c, OutcomesFor(c)) \in Lines \cup {Hidden}
      BY <1>2, SettlementType
    <3> QED BY <1>1, <3>1 DEF Types
  <2>2. outcomes' \in [Clients -> SUBSET BetIds]
    <3>1. CASE phase[c] = "finished"
      BY <1>1, <3>1 DEF Types
    <3>2. CASE phase[c] # "finished"
      BY <1>1, <1>2, <3>2 DEF Types
    <3> QED BY <3>1, <3>2
  <2>3. heard' \in [Clients -> Hearings]
    BY <1>1 DEF Types, Hearings
  <2> QED BY <1>1, <2>1, <2>2, <2>3 DEF Types, serverVars
<1>5. /\ heard'[c] = "completed"
      /\ IF phase[c] = "finished" THEN line'[c] = Settlement(c, OutcomesFor(c))
                                        /\ outcomes'[c] = outcomes[c]
                                  ELSE outcomes'[c] = OutcomesFor(c) /\ line'[c] = line[c]
      /\ \A d \in Clients \ {c} :
           heard'[d] = heard[d] /\ line'[d] = line[d] /\ outcomes'[d] = outcomes[d]
  BY <1>1 DEF Types
<1>6. RoundsRight'
  BY <1>1, RoundsFrame DEF serverVars
<1>7. ClientRight(c)'
  <2>1. CASE phase[c] = "finished"
    <3>1. took[c] = c => line'[c] = Settlement(c, recorded[c])
      BY <1>2, <1>5, <2>1
    <3> QED BY <1>0, <1>1, <1>5, <2>1, <3>1 DEF ClientRight, serverVars, Settlement
  <2>2. CASE phase[c] = "racing"
    BY <1>0, <1>1, <1>2, <1>5, <2>2 DEF ClientRight, serverVars
  <2> QED BY <1>3, <2>1, <2>2
<1>8. \A d \in Clients \ {c} : SameClient(d)
  BY <1>1, <1>5 DEF SameClient, serverVars
<1> QED BY <1>4, <1>6, <1>7, <1>8, OneClient

\* The call fails, or is given up.
LEMMA HearFailureInv == ASSUME ClientInv, NEW c \in Clients, HearFailure(c) PROVE ClientInv'
<1> USE DEF ClientInv
<1>0. ClientRight(c)
  BY DEF ClientsRight
<1>1. /\ phase[c] # "closed" /\ heard[c] = "waiting"
      /\ heard' = [heard EXCEPT ![c] = "failed"] /\ outcomes' = [outcomes EXCEPT ![c] = {}]
      /\ UNCHANGED <<phase, roundId, placed, line, serverVars, bet, run>>
  BY DEF HearFailure
<1>2. Types'
  BY <1>1 DEF Types, Hearings, serverVars
<1>3. /\ heard'[c] = "failed" /\ outcomes'[c] = {}
      /\ \A d \in Clients \ {c} : heard'[d] = heard[d] /\ outcomes'[d] = outcomes[d]
  BY <1>1 DEF Types
<1>4. RoundsRight'
  BY <1>1, RoundsFrame DEF serverVars
<1>5. ClientRight(c)'
  BY <1>0, <1>1, <1>3 DEF ClientRight, serverVars
<1>6. \A d \in Clients \ {c} : SameClient(d)
  BY <1>1, <1>3 DEF SameClient, serverVars
<1> QED BY <1>2, <1>4, <1>5, <1>6, OneClient

\* The finished race shows the outcomes that came before it, else its own.
LEMMA FinishRaceInv ==
  ASSUME ClientInv, NEW c \in Clients, NEW m \in Marbles, FinishRace(c, m)
  PROVE  ClientInv'
<1> DEFINE shown == IF outcomes[c] = {} THEN Reveal(c, m) ELSE Settlement(c, outcomes[c])
<1> USE DEF ClientInv
<1>0. ClientRight(c)
  BY DEF ClientsRight
<1>1. /\ phase[c] = "racing" /\ phase' = [phase EXCEPT ![c] = "finished"]
      /\ line' = [line EXCEPT ![c] = shown] /\ outcomes' = [outcomes EXCEPT ![c] = {}]
      /\ UNCHANGED <<roundId, placed, serverVars, bet, heard, run>>
  BY DEF FinishRace, Enters
<1>2. shown \in Lines \cup {Hidden}
  <2>1. CASE outcomes[c] = {}
    BY <2>1, RevealType
  <2>2. CASE outcomes[c] # {}
    <3>1. winner[c] \in Marbles /\ outcomes[c] \in SUBSET BetIds
      BY <1>0, <2>2 DEF ClientRight, Types
    <3> QED BY <2>2, <3>1, SettlementType
  <2> QED BY <2>1, <2>2
<1>3. heard[c] = "completed" /\ took[c] = c => shown = Settlement(c, recorded[c])
  <2> SUFFICES ASSUME heard[c] = "completed", took[c] = c
               PROVE  shown = Settlement(c, recorded[c])
    OBVIOUS
  <2>1. outcomes[c] = recorded[c] /\ placed[c] \subseteq recorded[c]
    BY <1>0, <1>1 DEF ClientRight
  <2> QED BY <2>1 DEF Reveal, Settlement
<1> HIDE DEF shown
<1>4. Types'
  BY <1>1, <1>2 DEF Types, Phases, serverVars
<1>5. /\ phase'[c] = "finished" /\ line'[c] = shown /\ outcomes'[c] = {}
      /\ \A d \in Clients \ {c} :
           phase'[d] = phase[d] /\ line'[d] = line[d] /\ outcomes'[d] = outcomes[d]
  BY <1>1 DEF Types
<1>6. RoundsRight'
  BY <1>1, <1>5, RoundsFrame DEF serverVars
<1>7. ClientRight(c)'
  BY <1>0, <1>1, <1>3, <1>5 DEF ClientRight, serverVars, Settlement
<1>8. \A d \in Clients \ {c} : SameClient(d)
  BY <1>1, <1>5 DEF SameClient, serverVars
<1> QED BY <1>4, <1>6, <1>7, <1>8, OneClient
-----------------------------------------------------------------------------
(* The queue of rounds.                                                    *)

\* A run that has been asked for finds a round.  If the queue were empty, every
\* client that has asked, this one among them, would have had its round taken,
\* each by another run of a client that has asked and not waits: too few.
LEMMA RoundIsThere ==
  ASSUME ClientInv, NEW c \in Clients, run[c] = "sent"
  PROVE  rounds # <<>>
<1> SUFFICES ASSUME rounds = <<>> PROVE FALSE
  OBVIOUS
<1> DEFINE S == {d \in Clients : run[d] # "idle"}
           T == S \ {c}
<1>1. Types /\ MintedFirst /\ ClientsRight
  BY DEF ClientInv, RoundsRight
<1>2. \A d \in S : \E e \in T : took[e] = d
  <2> SUFFICES ASSUME NEW d \in S PROVE \E e \in T : took[e] = d
    OBVIOUS
  <2>1. ~IsPending(d)
    BY <1>1 DEF IsPending, Types
  <2>2. PICK e \in Clients : took[e] = d
    BY <1>1, <2>1 DEF MintedFirst, Minted
  <2>3. took[e] # None
    BY <2>2, ClientAssumption
  <2>4. run[e] \notin {"idle", "sent"}
    BY <1>1, <2>3 DEF ClientsRight, ClientRight
  <2> QED BY <2>2, <2>4
<1> DEFINE f == [d \in S |-> CHOOSE e \in T : took[e] = d]
<1>3. f \in [S -> T] /\ \A d \in S : took[f[d]] = d
  BY <1>2
<1>4. IsFiniteSet(S) /\ c \in S
  BY ClientAssumption, FS_Subset
<1>5. IsFiniteSet(T) /\ Cardinality(T) = Cardinality(S) - 1 /\ Cardinality(S) \in Nat
  BY <1>4, FS_RemoveElement, FS_CardinalityType
<1>6. Cardinality(T) < Cardinality(S)
  BY <1>5
<1> HIDE DEF S, T, f
<1>7. \E x, y \in S : x # y /\ f[x] = f[y]
  BY <1>3, <1>4, <1>5, <1>6, FS_PigeonHole
<1> QED BY <1>3, <1>7

\* A run takes the oldest round, which nobody else has taken.
LEMMA TakeRoundInv == ASSUME ClientInv, NEW c \in Clients, TakeRound(c) PROVE ClientInv'
<1> DEFINE r == Head(rounds)
<1> USE DEF ClientInv
<1>0. Types /\ ClientRight(c)
  BY DEF ClientsRight
<1>1. run[c] = "sent" /\ run' = [run EXCEPT ![c] = "running"]
  BY DEF TakeRound, Runs
<1>2. rounds # <<>>
  BY <1>1, RoundIsThere
<1>3. /\ took' = [took EXCEPT ![c] = r] /\ rounds' = Tail(rounds)
      /\ UNCHANGED <<clientVars, bet, heard, recorded, winner>>
  BY <1>2 DEF TakeRound, Runs
<1>4. /\ r \in Clients /\ r = rounds[1] /\ Len(rounds) \in Nat \ {0}
      /\ rounds' \in Seq(Clients) /\ Len(rounds') = Len(rounds) - 1
      /\ \A i \in 1..(Len(rounds) - 1) : rounds'[i] = rounds[i + 1]
  BY <1>0, <1>2, <1>3 DEF Types
<1> HIDE DEF r
<1>5. Types'
  <2>1. run' \in [Clients -> RunStates] /\ took' \in [Clients -> Clients \cup {None}]
    BY <1>0, <1>1, <1>3, <1>4 DEF Types, RunStates
  <2> QED BY <1>0, <1>3, <1>4, <2>1 DEF Types, clientVars
<1>6. /\ run'[c] = "running" /\ took'[c] = r /\ took[c] = None /\ r # None
      /\ \A d \in Clients \ {c} : run'[d] = run[d] /\ took'[d] = took[d]
  BY <1>0, <1>1, <1>3, <1>4, ClientAssumption DEF Types, ClientRight
<1>7. \A x : IsPending(x)' <=> IsPending(x) /\ x # r
  <2> SUFFICES ASSUME NEW x
               PROVE  (\E i \in DOMAIN rounds' : rounds'[i] = x) <=>
                        (\E i \in DOMAIN rounds : rounds[i] = x) /\ x # r
    BY DEF IsPending
  <2>1. DOMAIN rounds' = 1..(Len(rounds) - 1) /\ DOMAIN rounds = 1..Len(rounds)
    BY <1>0, <1>4 DEF Types
  <2>2. ASSUME NEW i \in 1..(Len(rounds) - 1), rounds'[i] = x
        PROVE  (\E j \in DOMAIN rounds : rounds[j] = x) /\ x # r
    <3>1. i + 1 \in 1..Len(rounds) /\ i + 1 # 1 /\ 1 \in 1..Len(rounds)
      BY <1>4
    <3>2. rounds[i + 1] = x
      BY <1>4, <2>2
    <3> QED BY <1>4, <2>1, <3>1, <3>2 DEF RoundsRight, QueuedRoundsDiffer
  <2>3. ASSUME NEW j \in 1..Len(rounds), rounds[j] = x, x # r
        PROVE  \E i \in DOMAIN rounds' : rounds'[i] = x
    <3>1. j - 1 \in 1..(Len(rounds) - 1) /\ (j - 1) + 1 = j
      BY <1>4, <2>3
    <3> QED BY <1>4, <2>1, <2>3, <3>1
  <2> QED BY <2>1, <2>2, <2>3
<1>8. IsPending(r)
  BY <1>0, <1>4 DEF IsPending, Types
<1>9. QueuedRoundsDiffer'
  <2>1. ASSUME NEW i \in 1..Len(rounds'), NEW j \in 1..Len(rounds'), rounds'[i] = rounds'[j]
        PROVE  i = j
    <3>1. /\ i + 1 \in 1..Len(rounds) /\ j + 1 \in 1..Len(rounds)
          /\ rounds[i + 1] = rounds[j + 1]
      BY <1>4, <2>1
    <3>2. i + 1 = j + 1
      BY <3>1 DEF RoundsRight, QueuedRoundsDiffer
    <3> QED BY <1>4, <3>2
  <2> QED BY <2>1 DEF QueuedRoundsDiffer
<1>10. TakenRoundsDiffer'
  <2>1. \A d \in Clients : ~IsPending(took[d]) /\ took[d] # r
    BY <1>8 DEF RoundsRight, TakenRoundsDiffer
  <2>2. ASSUME NEW d \in Clients PROVE ~IsPending(took[d])'
    <3>1. took'[d] = r \/ ~IsPending(took'[d])
      BY <1>6, <2>1
    <3> QED BY <1>7, <3>1 DEF IsPending
  <2>3. ASSUME NEW d \in Clients, NEW e \in Clients, d # e, took'[d] # None
        PROVE  took'[d] # took'[e]
    BY <1>6, <2>1, <2>3 DEF RoundsRight, TakenRoundsDiffer
  <2> QED BY <2>2, <2>3 DEF TakenRoundsDiffer
<1>11. MintedFirst'
  <2>1. ASSUME NEW d \in Clients PROVE Minted(d)' <=> Minted(d)
    <3>1. (\E e \in Clients : took'[e] = d) <=> (\E e \in Clients : took[e] = d) \/ d = r
      BY <1>6, ClientAssumption
    <3> QED BY <1>7, <1>8, <3>1 DEF Minted
  <2>2. \A d \in Clients : run'[d] # "idle" => run[d] # "idle"
    BY <1>1, <1>6
  <2> QED BY <1>3, <2>1, <2>2 DEF RoundsRight, MintedFirst, clientVars
<1>12. ClientRight(c)'
  BY <1>0, <1>1, <1>3, <1>6 DEF ClientRight, clientVars
<1>13. \A d \in Clients \ {c} : SameClient(d)
  BY <1>3, <1>6 DEF SameClient, clientVars
<1> QED BY <1>5, <1>9, <1>10, <1>11, <1>12, <1>13, OneClient DEF RoundsRight
-----------------------------------------------------------------------------
(* Every step.                                                             *)

\* Typing, the queue of rounds and what every client shows are kept.
THEOREM Invariance == Spec => []ClientInv
<1>1. ClientInv /\ [Next]_vars => ClientInv'
  <2> SUFFICES ASSUME ClientInv, [Next]_vars PROVE ClientInv'
    OBVIOUS
  <2>1. CASE UNCHANGED vars
    <3>1. Types' /\ RoundsRight'
      BY <2>1, RoundsFrame DEF ClientInv, Types, vars, clientVars, serverVars
    <3>2. \A c \in Clients : SameClient(c)
      BY <2>1 DEF SameClient, vars, clientVars, serverVars
    <3> QED BY <3>1, <3>2, OtherClient DEF ClientInv, ClientsRight
  <2>2. ASSUME NEW c \in Clients, ClientStep(c) PROVE ClientInv'
    BY <2>2, MintRoundInv, PhaseInv, BetInv, CloseWindowInv, TakeRoundInv, EndRunInv,
       HearResultInv, HearFailureInv, FinishRaceInv DEF ClientStep
  <2> QED BY <2>1, <2>2 DEF Next
<1> QED BY <1>1, InitInv, PTL DEF Spec
-----------------------------------------------------------------------------
(* What follows from it.                                                   *)

\* Every variable keeps its type, the queue is never longer than the number of
\* clients, and outcomes are kept only for a race that goes on.
THEOREM TypeCorrect == Spec => []TypeOK
<1>1. ClientInv => TypeOK
  <2> SUFFICES ASSUME ClientInv PROVE TypeOK
    OBVIOUS
  <2>1. Types /\ QueuedRoundsDiffer /\ ClientsRight
    BY DEF ClientInv, RoundsRight
  <2>2. Len(rounds) <= Cardinality(Clients)
    <3>1. rounds \in Injection(1..Len(rounds), Clients)
      BY <2>1 DEF Types, QueuedRoundsDiffer, Injection, IsInjective
    <3>2. Cardinality(1..Len(rounds)) <= Cardinality(Clients)
      BY <3>1, ClientAssumption, FS_Injection
    <3>3. Len(rounds) \in Nat
      BY <2>1 DEF Types
    <3>4. Cardinality(1..Len(rounds)) = Len(rounds)
      BY SMTT(30), <3>3, FS_Interval
    <3> QED BY <3>2, <3>4
  <2>3. took \in [Clients -> Clients \cup {None, Fresh}]
    BY <2>1 DEF Types
  <2>4. \A c \in Clients :
          outcomes[c] # {} => heard[c] = "completed" /\ phase[c] \in {"racing", "closed"}
    BY <2>1 DEF ClientsRight, ClientRight
  <2> QED BY <2>1, <2>2, <2>3, <2>4
          DEF Types, TypeOK, Phases, Calling, Hearings, RunStates
<1> QED BY <1>1, Invariance, PTL

\* No run goes without a round, no two get the same, and when every minted
\* round's client has had its run served none is left.
THEOREM RunsTakeRounds == Spec => []EachRunTakesARound
<1>1. ClientInv => EachRunTakesARound
  <2> SUFFICES ASSUME ClientInv PROVE EachRunTakesARound
    OBVIOUS
  <2>1. Types /\ TakenRoundsDiffer /\ MintedFirst
    BY DEF ClientInv, RoundsRight
  <2>2. \A c \in Clients : took[c] # Fresh
    BY <2>1, ClientAssumption DEF Types
  <2>3. ASSUME \A c \in Clients : phase[c] # "asking" => took[c] # None, rounds # <<>>
        PROVE  FALSE
    <3> DEFINE T == {c \in Clients : took[c] # None}
               r == rounds[1]
               U == T \ {r}
    <3>1. r \in Clients /\ IsPending(r)
      <4>1. Len(rounds) \in Nat \ {0} /\ rounds \in Seq(Clients)
        BY <2>1, <2>3 DEF Types
      <4> QED BY <4>1 DEF IsPending
    <3>2. \A d \in Clients : Minted(d) => d \in T
      BY <2>1, <2>3 DEF MintedFirst
    <3>3. r \in T
      BY <3>1, <3>2 DEF Minted
    <3> DEFINE f == [c \in T |-> took[c]]
    <3>4. ASSUME NEW c \in T PROVE took[c] \in U
      <4>1. took[c] \in Clients /\ ~IsPending(took[c])
        BY <2>1 DEF Types, TakenRoundsDiffer
      <4>2. took[c] \in T
        BY <3>2, <4>1 DEF Minted
      <4> QED BY <3>1, <4>1, <4>2
    <3>5. f \in [T -> U] /\ \A x, y \in T : f[x] = f[y] => x = y
      BY <2>1, <3>4 DEF TakenRoundsDiffer
    <3>6. IsFiniteSet(T)
      BY ClientAssumption, FS_Subset
    <3>7. IsFiniteSet(U) /\ Cardinality(U) < Cardinality(T)
      <4>1. /\ IsFiniteSet(U) /\ Cardinality(U) = Cardinality(T) - 1
            /\ Cardinality(T) \in Nat
        BY <3>3, <3>6, FS_RemoveElement, FS_CardinalityType
      <4> QED BY <4>1
    <3> HIDE DEF T, U, f, r
    <3>8. \E x, y \in T : x # y /\ f[x] = f[y]
      BY <3>5, <3>6, <3>7, FS_PigeonHole
    <3> QED BY <3>5, <3>8
  <2> QED BY <2>1, <2>2, <2>3 DEF EachRunTakesARound, TakenRoundsDiffer
<1> QED BY <1>1, Invariance, PTL

\* The finished race of a client whose round the server ran shows the server's
\* settlement of all the bets it holds, whichever came first.
THEOREM SettlementShown == Spec => []SettlementIsShown
<1>1. ClientInv => SettlementIsShown
  BY DEF ClientInv, ClientsRight, ClientRight, SettlementIsShown
<1> QED BY <1>1, Invariance, PTL
=============================================================================
