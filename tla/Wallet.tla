------------------------------- MODULE Wallet -------------------------------
(***************************************************************************)
(* rgs.MockWallet, the in-memory ledger behind the rgs.Wallet interface.   *)
(* Every method holds the wallet's mutex from its first line to its last,  *)
(* so each call is one action.  A transaction id that was applied before   *)
(* is answered from the record and moves no money.                         *)
(***************************************************************************)
EXTENDS Uint64

VARIABLES
  balances,      \* playerID -> uint64, the players the wallet knows
  applied        \* txID -> int64: +credit, -debit, of every applied transaction

walletVars == <<balances, applied>>

Record(tx, amount) ==
  applied' = [t \in DOMAIN applied \cup {tx} |-> IF t = tx THEN amount ELSE applied[t]]

\* A wrong debit, that ignores the record of applied transactions.
DebitEveryTime(player, amount, tx) ==
  /\ player \in DOMAIN balances
  /\ balances[player] >= amount
  /\ balances' = [balances EXCEPT ![player] = Wrap(@ - amount)]
  /\ Record(tx, NegInt64(amount))

\* Debit returns nil: a replay of the recorded debit, or money taken.
Debit(player, amount, tx) ==
  /\ player \in DOMAIN balances
  /\ \/ /\ tx \in DOMAIN applied
        /\ applied[tx] = NegInt64(amount)
        /\ UNCHANGED walletVars
     \/ /\ tx \notin DOMAIN applied
        /\ balances[player] >= amount
        /\ balances' = [balances EXCEPT ![player] = Wrap(@ - amount)]
        /\ Record(tx, NegInt64(amount))

\* Debit returns an error, and has changed nothing: unknown player, the id
\* reused for another operation, or insufficient funds.
DebitRefused(player, amount, tx) ==
  \/ player \notin DOMAIN balances
  \/ tx \in DOMAIN applied /\ applied[tx] # NegInt64(amount)
  \/ /\ player \in DOMAIN balances
     /\ tx \notin DOMAIN applied
     /\ balances[player] < amount

\* A wrong credit, that forgets to record the transaction.
CreditUnrecorded(player, amount, tx) ==
  /\ player \in DOMAIN balances
  /\ tx \notin DOMAIN applied
  /\ balances' = [balances EXCEPT ![player] = Wrap(@ + amount)]
  /\ UNCHANGED applied

\* Credit returns nil.  The sum is not checked: a full balance wraps around.
Credit(player, amount, tx) ==
  /\ player \in DOMAIN balances
  /\ \/ /\ tx \in DOMAIN applied
        /\ applied[tx] = ToInt64(amount)
        /\ UNCHANGED walletVars
     \/ /\ tx \notin DOMAIN applied
        /\ balances' = [balances EXCEPT ![player] = Wrap(@ + amount)]
        /\ Record(tx, ToInt64(amount))

CreditRefused(player, amount, tx) ==
  \/ player \notin DOMAIN balances
  \/ tx \in DOMAIN applied /\ applied[tx] # ToInt64(amount)

WalletInit(opening) == balances = opening /\ applied = [t \in {} |-> 0]
=============================================================================
