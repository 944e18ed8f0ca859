---------------------------- MODULE WalletCalls -----------------------------
(***************************************************************************)
(* The wallet under arbitrary callers: any player, amount and transaction  *)
(* id, in any order, retried at will.  The manager mints a fresh id for    *)
(* every bet; an operator's retry, or a caller that reuses an id, does not.*)
(***************************************************************************)
EXTENDS Wallet, Sums

CONSTANTS
  Players,       \* everybody who is ever named in a call
  Opening,       \* playerID -> opening balance, of the players the wallet knows
  TxIds,         \* the transaction ids the callers use
  Amounts        \* the amounts they pass, a subset of Word

ASSUME WalletAssumption ==
  /\ IsFiniteSet(DOMAIN Opening) /\ Opening \in [DOMAIN Opening -> Word]
  /\ Amounts \subseteq Word

Init == WalletInit(Opening)

\* A refused call returns an error and leaves the wallet as it was.
Refused ==
  /\ \E p \in Players, a \in Amounts, tx \in TxIds :
       DebitRefused(p, a, tx) \/ CreditRefused(p, a, tx)
  /\ UNCHANGED walletVars

Next ==
  \/ \E p \in Players, a \in Amounts, tx \in TxIds : Debit(p, a, tx)
  \/ \E p \in Players, a \in Amounts, tx \in TxIds : Credit(p, a, tx)
  \/ Refused

Spec == Init /\ [][Next]_walletVars
-----------------------------------------------------------------------------
\* The money in the wallet is what it opened with plus every recorded
\* transaction, modulo the word: no call moves money that the ledger an
\* operator reconciles against does not show, retries included.
LedgerExplainsBalances == Wrap(Sum(Opening) + Sum(applied)) = Wrap(Sum(balances))

\* A transaction id is decided once.  Whatever is retried under it, for
\* whichever player and amount, its record never changes, and a call that
\* adds no record moves no money.
TxDecidedOnce ==
  [][ /\ \A tx \in DOMAIN applied : tx \in DOMAIN applied' /\ applied'[tx] = applied[tx]
      /\ DOMAIN applied' = DOMAIN applied => balances' = balances ]_walletVars
=============================================================================
