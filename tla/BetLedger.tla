----------------------------- MODULE BetLedger ------------------------------
(***************************************************************************)
(* What the game server promises an operator about money.  A bet takes its *)
(* stake once; after that it has at most one outcome: the stake comes      *)
(* back, or the payout agreed when it was placed is paid, or it is lost.   *)
(* No other step touches a balance.                                        *)
(***************************************************************************)
EXTENDS Integers

CONSTANTS Bets, Opening

VARIABLES
  balances,      \* player -> money
  status,        \* bet -> where it is in its life
  terms          \* bet -> who placed it, its stake, what it pays

ledgerVars == <<balances, status, terms>>

NoTerms == [player |-> "nobody", stake |-> 0, payout |-> 0]

Init ==
  /\ balances = Opening
  /\ status = [b \in Bets |-> "none"]
  /\ terms  = [b \in Bets |-> NoTerms]

Place(b) ==
  /\ status[b] = "none"
  /\ status' = [status EXCEPT ![b] = "held"]
  /\ LET t == terms'[b] IN
       /\ terms' = [terms EXCEPT ![b] = t]
       /\ t.player \in DOMAIN balances
       /\ t.stake \in 1..balances[t.player]
       /\ balances' = [balances EXCEPT ![t.player] = @ - t.stake]

Decide(b, outcome, amount) ==
  /\ status[b] = "held"
  /\ status' = [status EXCEPT ![b] = outcome]
  /\ balances' = [balances EXCEPT ![terms[b].player] = @ + amount]
  /\ UNCHANGED terms

Next ==
  \E b \in Bets :
    \/ Place(b)
    \/ Decide(b, "refunded", terms[b].stake)
    \/ Decide(b, "won", terms[b].payout)
    \/ Decide(b, "lost", 0)

Spec == Init /\ [][Next]_ledgerVars
=============================================================================
