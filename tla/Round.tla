------------------------------- MODULE Round --------------------------------
(***************************************************************************)
(* server/round: the in-memory state of one race, as its callers may use   *)
(* it: any call in any order, with any clock reading.  A call that returns *)
(* an error without having changed anything is a step that changes nothing.*)
(***************************************************************************)
EXTENDS Integers, Sequences

CONSTANTS
  MaxMarbles,     \* maxMarbles
  Names,          \* the names participants join with
  Clock           \* clock readings

ASSUME RoundAssumption == MaxMarbles \in Nat /\ Clock \subseteq Nat

VARIABLES
  phase,
  phaseStart,
  participants,   \* in join order
  result,         \* WinnerIndex of the result
  hasResult

roundVars == <<phase, phaseStart, participants, result, hasResult>>

New ==
  /\ phase = "WAITING"
  /\ phaseStart \in Clock
  /\ participants = <<>>
  /\ result = 0
  /\ hasResult = FALSE

\* A wrong advance, without the look at the clock.
AdvanceAnyTime(next, now) == phase' = next /\ phaseStart' = now

\* ErrTimeGoesBack leaves the phase as it is.
Advance(next, now) ==
  IF now < phaseStart THEN UNCHANGED <<phase, phaseStart>>
                      ELSE phase' = next /\ phaseStart' = now

OpenBuyIn(now) ==
  /\ phase = "WAITING"
  /\ Advance("BUY_IN", now)
  /\ UNCHANGED <<participants, result, hasResult>>

\* A wrong join, with the cap off by one.
JoinFull(name) ==
  /\ phase = "BUY_IN"
  /\ Len(participants) <= MaxMarbles
  /\ participants' = Append(participants, [index |-> Len(participants), name |-> name])
  /\ UNCHANGED <<phase, phaseStart, result, hasResult>>

AddParticipant(name) ==
  /\ phase = "BUY_IN"
  /\ Len(participants) < MaxMarbles
  /\ participants' = Append(participants, [index |-> Len(participants), name |-> name])
  /\ UNCHANGED <<phase, phaseStart, result, hasResult>>

StartRace(now) ==
  /\ phase = "BUY_IN"
  /\ Advance("RACING", now)
  /\ UNCHANGED <<participants, result, hasResult>>

\* A wrong finish, that does not look at the phase.
FinishUnstarted(winner, now) ==
  /\ result' = winner
  /\ hasResult' = TRUE
  /\ Advance("SETTLE", now)
  /\ UNCHANGED participants

\* The result is recorded before the clock is looked at.
FinishRace(winner, now) ==
  /\ phase = "RACING"
  /\ result' = winner
  /\ hasResult' = TRUE
  /\ Advance("SETTLE", now)
  /\ UNCHANGED participants

\* RevealedSeed returns the seed.
SeedRevealed == phase = "SETTLE"
=============================================================================
