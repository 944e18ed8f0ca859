---------------------------- MODULE WalletProofs ----------------------------
(***************************************************************************)
(* The wallet's ledger, for any players, amounts, transaction ids and word *)
(* width: a transaction id is decided once, and the record of transactions *)
(* explains every balance, when a balance has wrapped around too.          *)
(***************************************************************************)
EXTENDS WalletCalls, ArithmeticProofs

Size == MaxUint64 + 1

\* Equal as words.
Congruent(x, y) == \E k \in Int : x = y + k * Size

WalletInv ==
  /\ balances \in [DOMAIN Opening -> Word]
  /\ IsFiniteSet(DOMAIN applied) /\ applied \in [DOMAIN applied -> Int]
  /\ Congruent(Sum(Opening) + Sum(applied), Sum(balances))
-----------------------------------------------------------------------------
(* Words.                                                                  *)

\* Wrap picks a word among the numbers that are equal as words.
LEMMA WrapType ==
  ASSUME NEW n \in Int
  PROVE  Wrap(n) \in Word /\ Congruent(Wrap(n), n)
<1>1. Size \in Nat /\ Size > 0 /\ Size - 1 = MaxUint64
  BY MaxUint64Assumption DEF Size
<1>2. PICK k \in Int, r \in 0..(Size - 1) : n = k * Size + r /\ r = n % Size
  <2> DEFINE m == Size
  <2> HIDE DEF m
  <2>1. m \in Nat /\ m > 0
    BY <1>1 DEF m
  <2>2. n \div m \in Int /\ n = (n \div m) * m + (n % m) /\ n % m \in 0..(m - 1)
    BY <2>1, Division
  <2> QED
    BY <2>2 DEF m
<1>3. -k \in Int /\ r = n + (-k) * Size
  <2>1. (-k) * Size = -(k * Size) /\ k * Size \in Int
    BY <1>1
  <2> QED
    BY <1>1, <1>2, <2>1
<1>4. Wrap(n) = r
  BY <1>2 DEF Wrap, Size
<1> QED
  BY <1>1, <1>3, <1>4 DEF Word, Congruent

\* Distinct words are more than nothing and less than a word size apart.
LEMMA OneWord ==
  ASSUME NEW x \in 0..(Size - 1), NEW y \in 0..(Size - 1), Congruent(x, y)
  PROVE  x = y
<1>0. Size \in Nat \ {0}
  BY MaxUint64Assumption DEF Size
<1>1. PICK k \in Int : x = y + k * Size
  BY DEF Congruent
<1>2. CASE k >= 1
  <2>1. k * Size >= Size
    BY <1>0, <1>2
  <2> QED
    BY <1>0, <1>1, <2>1
<1>3. CASE k <= -1
  <2>1. k * Size <= -Size
    BY <1>0, <1>3
  <2> QED
    BY <1>0, <1>1, <2>1
<1>4. CASE k = 0
  BY <1>0, <1>1, <1>4
<1> QED
  BY <1>2, <1>3, <1>4

LEMMA CongruentAdd ==
  ASSUME NEW x \in Int, NEW y \in Int, NEW u \in Int, NEW v \in Int, Congruent(x, y), Congruent(u, v)
  PROVE  Congruent(x + u, y + v) /\ Congruent(y, x)
<1>0. Size \in Int
  BY MaxUint64Assumption DEF Size
<1>1. PICK k \in Int : x = y + k * Size
  BY DEF Congruent
<1>2. PICK j \in Int : u = v + j * Size
  BY DEF Congruent
<1>3. (k + j) * Size = k * Size + j * Size /\ (-k) * Size = -(k * Size)
  BY <1>0
<1>4. k * Size \in Int /\ j * Size \in Int
  BY <1>0
<1>5. x + u = (y + v) + (k + j) * Size /\ k + j \in Int
  BY <1>1, <1>2, <1>3, <1>4
<1>6. y = x + (-k) * Size /\ -k \in Int
  BY <1>1, <1>3, <1>4
<1> QED
  BY <1>5, <1>6 DEF Congruent

LEMMA WrapsEqual ==
  ASSUME NEW x \in Int, NEW y \in Int, Congruent(x, y)
  PROVE  Wrap(x) = Wrap(y)
<1>1. Wrap(x) \in Word /\ Wrap(y) \in Word /\ Congruent(Wrap(x), x) /\ Congruent(Wrap(y), y)
  BY WrapType
<1>2. Wrap(x) \in Int /\ Wrap(y) \in Int /\ Word = 0..(Size - 1)
  BY <1>1, MaxUint64Assumption DEF Word, Size
<1>3. PICK i \in Int : Wrap(x) = x + i * Size
  BY <1>1 DEF Congruent
<1>4. PICK j \in Int : Wrap(y) = y + j * Size
  BY <1>1 DEF Congruent
<1>5. PICK k \in Int : x = y + k * Size
  BY DEF Congruent
<1>6. Wrap(x) = Wrap(y) + (k + i - j) * Size /\ k + i - j \in Int
  <2>1. Size \in Int
    BY MaxUint64Assumption DEF Size
  <2>2. (k + i - j) * Size = k * Size + i * Size - j * Size
    BY <2>1
  <2>3. k * Size \in Int /\ i * Size \in Int /\ j * Size \in Int
    BY <2>1
  <2> QED
    BY <1>3, <1>4, <1>5, <2>2, <2>3
<1>7. Congruent(Wrap(x), Wrap(y))
  BY <1>6 DEF Congruent
<1> QED
  BY <1>1, <1>2, <1>7, OneWord

\* int64(a), and -int64(a), for every word a: the most negative one included.
LEMMA Int64Congruent ==
  ASSUME NEW a \in Word
  PROVE  /\ ToInt64(a) \in Int /\ Congruent(ToInt64(a), a)
         /\ NegInt64(a) \in Int /\ Congruent(NegInt64(a), -a)
<1>0. MaxInt64 \in Int /\ MaxUint64 = 2 * MaxInt64 + 1
  BY MaxUint64Assumption DEF MaxInt64
<1>1. a \in Int /\ MaxUint64 \in Int
  BY MaxUint64Assumption DEF Word
<1>2. ToInt64(a) = a + 0 * Size \/ ToInt64(a) = a + (-1) * Size
  BY <1>1 DEF ToInt64, Size
<1>3. \/ NegInt64(a) = -a + 0 * Size
      \/ NegInt64(a) = -a + 1 * Size
      \/ NegInt64(a) = -a + (-1) * Size
  BY <1>0, <1>1, MaxUint64Assumption DEF NegInt64, ToInt64, Size
<1>4. ToInt64(a) \in Int /\ NegInt64(a) \in Int
  BY <1>0, <1>1 DEF ToInt64, NegInt64
<1>5. 0 \in Int /\ 1 \in Int /\ -1 \in Int
  OBVIOUS
<1> QED
  BY <1>2, <1>3, <1>4, <1>5 DEF Congruent
-----------------------------------------------------------------------------
(* The ledger.                                                             *)

LEMMA InitInv == Init => WalletInv
<1> SUFFICES ASSUME Init PROVE WalletInv
  OBVIOUS
<1>1. balances = Opening /\ applied = [t \in {} |-> 0]
  BY DEF Init, WalletInit
<1>2. DOMAIN applied = {} /\ IsFiniteSet({}) /\ applied \in [{} -> Int]
  BY <1>1, FS_EmptySet
<1>3. Sum(applied) = 0
  <2>1. PICK h : IsSum(h, applied, {}) /\ Sum(applied) = h[{}]
    BY <1>2, SumIsFold
  <2> QED
    BY <2>1 DEF IsSum, IsSumOn, FoldStep
<1>4. Sum(Opening) \in Int
  <2>1. Opening \in [DOMAIN Opening -> Int]
    BY WalletAssumption DEF Word
  <2> QED
    BY <2>1, WalletAssumption, SumType
<1>5. Sum(Opening) + Sum(applied) = Sum(balances) + 0 * Size
  BY <1>1, <1>3, <1>4, MaxUint64Assumption DEF Size
<1> QED
  BY <1>1, <1>2, <1>5, WalletAssumption DEF WalletInv, Congruent

\* A transaction that is recorded moves its player's balance by its amount.
LEMMA RecordInv ==
  ASSUME WalletInv, NEW p \in DOMAIN balances, NEW tx, tx \notin DOMAIN applied,
         NEW m \in Int, NEW d \in Int, Congruent(m, d),
         balances' = [balances EXCEPT ![p] = Wrap(balances[p] + d)], Record(tx, m)
  PROVE  WalletInv'
<1> DEFINE P == DOMAIN Opening
           T == DOMAIN applied
           b == Wrap(balances[p] + d)
<1>1. balances \in [P -> Word] /\ p \in P /\ IsFiniteSet(P) /\ Word \subseteq Int /\ balances[p] \in Int
  BY WalletAssumption, MaxUint64Assumption DEF WalletInv, Word
<1>2. b \in Word /\ b \in Int /\ Congruent(b, balances[p] + d)
  <2>1. balances[p] + d \in Int
    BY <1>1
  <2>2. Wrap(balances[p] + d) \in Word /\ Congruent(Wrap(balances[p] + d), balances[p] + d)
    BY <2>1, WrapType
  <2> QED
    BY <1>1, <2>2
<1>3. balances' \in [P -> Word]
  BY <1>1, <1>2
<1>4. IsFiniteSet(T) /\ applied \in [T -> Int]
  BY DEF WalletInv
<1>5. applied' = [t \in T \cup {tx} |-> IF t = tx THEN m ELSE applied[t]]
  BY DEF Record
<1>6. DOMAIN applied' = T \cup {tx} /\ IsFiniteSet(T \cup {tx}) /\ applied' \in [T \cup {tx} -> Int]
  BY <1>4, <1>5, FS_AddElement
<1>7. Sum(applied') = Sum(applied) + m /\ Sum(applied) \in Int
  <2> HIDE DEF T
  <2>1. Sum(applied) \in Int
    BY <1>4, SumType
  <2>2. tx \notin T
    BY DEF T
  <2>3. Sum([t \in T \cup {tx} |-> IF t = tx THEN m ELSE applied[t]]) = Sum(applied) + m
    BY <1>4, <2>2, SumOneMore
  <2> QED
    BY <1>5, <2>1, <2>3
<1>8. Sum(balances') = Sum(balances) - balances[p] + b /\ Sum(balances) \in Int
  <2> DEFINE f == balances
             g == [balances EXCEPT ![p] = b]
  <2>1. f \in [P -> Int] /\ g \in [P -> Int] /\ g[p] = b /\ \A y \in P \ {p} : g[y] = f[y]
    BY <1>1, <1>2
  <2>2. balances' = g
    OBVIOUS
  <2> HIDE DEF f, g, P
  <2>3. Sum(f) \in Int
    BY <1>1, <2>1, SumType
  <2>4. Sum(g) = Sum(f) - f[p] + g[p]
    BY <1>1, <2>1, SumChanged
  <2> QED
    BY <2>1, <2>2, <2>3, <2>4 DEF f
<1>9. Sum(Opening) \in Int
  <2>1. Opening \in [P -> Int]
    BY <1>1, WalletAssumption
  <2> QED
    BY <1>1, <2>1, SumType
<1>10. Congruent(Sum(Opening) + Sum(applied'), Sum(balances'))
  <2> DEFINE x == Sum(Opening) + Sum(applied)
             y == Sum(balances)
             c == balances[p]
  <2>1. Congruent(x, y) /\ x \in Int /\ y \in Int /\ c \in Int
    BY <1>1, <1>7, <1>8, <1>9 DEF WalletInv
  <2>2. Sum(Opening) + Sum(applied') = x + m
    BY <1>7, <1>9
  <2>3. Sum(balances') = y - c + b
    BY <1>8
  <2>4. Congruent(b, c + d)
    BY <1>2
  <2> HIDE DEF x, y, c, b
  <2>5. b \in Int
    BY <1>2
  <2>6. Congruent(c + d, b)
    BY <2>1, <2>4, <2>5, CongruentAdd
  <2>7. Congruent(x + m, y + d)
    BY <2>1, CongruentAdd
  <2>8. Congruent(x + m, y - c + b)
    <3>1. PICK i \in Int : x + m = (y + d) + i * Size
      BY <2>7 DEF Congruent
    <3>2. PICK j \in Int : c + d = b + j * Size
      BY <2>6 DEF Congruent
    <3>3. (i + j) * Size = i * Size + j * Size /\ i * Size \in Int /\ j * Size \in Int
      BY MaxUint64Assumption DEF Size
    <3>4. x + m = (y - c + b) + (i + j) * Size /\ i + j \in Int
      BY <2>1, <2>5, <3>1, <3>2, <3>3
    <3> QED
      BY <3>4 DEF Congruent
  <2> QED
    BY <2>2, <2>3, <2>8
<1> QED
  BY <1>3, <1>6, <1>10 DEF WalletInv

LEMMA DebitInv ==
  ASSUME WalletInv, NEW p, NEW a \in Word, NEW tx, Debit(p, a, tx)
  PROVE  WalletInv'
<1>1. CASE UNCHANGED walletVars
  BY <1>1 DEF WalletInv, walletVars
<1>2. CASE /\ tx \notin DOMAIN applied
           /\ balances' = [balances EXCEPT ![p] = Wrap(@ - a)]
           /\ Record(tx, NegInt64(a))
  <2>1. p \in DOMAIN balances /\ balances[p] \in Int /\ a \in Int
    BY MaxUint64Assumption DEF Debit, WalletInv, Word
  <2>2. balances[p] - a = balances[p] + (-a) /\ -a \in Int
    BY <2>1
  <2>3. balances' = [balances EXCEPT ![p] = Wrap(balances[p] + (-a))]
    BY <1>2, <2>2
  <2>4. NegInt64(a) \in Int /\ Congruent(NegInt64(a), -a)
    BY Int64Congruent
  <2> QED
    BY <1>2, <2>1, <2>2, <2>3, <2>4, RecordInv
<1> QED
  BY <1>1, <1>2 DEF Debit

LEMMA CreditInv ==
  ASSUME WalletInv, NEW p, NEW a \in Word, NEW tx, Credit(p, a, tx)
  PROVE  WalletInv'
<1>1. CASE UNCHANGED walletVars
  BY <1>1 DEF WalletInv, walletVars
<1>2. CASE /\ tx \notin DOMAIN applied
           /\ balances' = [balances EXCEPT ![p] = Wrap(@ + a)]
           /\ Record(tx, ToInt64(a))
  <2>1. p \in DOMAIN balances /\ a \in Int
    BY MaxUint64Assumption DEF Credit, WalletInv, Word
  <2>2. ToInt64(a) \in Int /\ Congruent(ToInt64(a), a)
    BY Int64Congruent
  <2> QED
    BY <1>2, <2>1, <2>2, RecordInv
<1> QED
  BY <1>1, <1>2 DEF Credit

LEMMA NextInv == WalletInv /\ [Next]_walletVars => WalletInv'
<1> SUFFICES ASSUME WalletInv, [Next]_walletVars PROVE WalletInv'
  OBVIOUS
<1>1. \A a \in Amounts : a \in Word
  BY WalletAssumption
<1>2. CASE UNCHANGED walletVars
  BY <1>2 DEF WalletInv, walletVars
<1>3. CASE Next
  BY <1>1, <1>2, <1>3, DebitInv, CreditInv DEF Next, Refused
<1> QED
  BY <1>2, <1>3

LEMMA Invariance == Spec => []WalletInv
  BY InitInv, NextInv, PTL DEF Spec

\* The record of transactions explains the balances, whatever is called and
\* retried, and when the sums pass the word (MockWallet.Debit, MockWallet.Credit).
THEOREM BalancesExplained == Spec => []LedgerExplainsBalances
<1>1. WalletInv => LedgerExplainsBalances
  <2> SUFFICES ASSUME WalletInv PROVE LedgerExplainsBalances
    OBVIOUS
  <2>1. Opening \in [DOMAIN Opening -> Int] /\ balances \in [DOMAIN Opening -> Int]
    BY WalletAssumption, MaxUint64Assumption DEF WalletInv, Word
  <2>2. Sum(Opening) \in Int /\ Sum(applied) \in Int /\ Sum(balances) \in Int
    BY <2>1, WalletAssumption, SumType DEF WalletInv
  <2>3. Sum(Opening) + Sum(applied) \in Int
    BY <2>2
  <2> QED
    BY <2>2, <2>3, WrapsEqual DEF WalletInv, LedgerExplainsBalances
<1> QED
  BY <1>1, Invariance, PTL

\* A transaction id is decided once: its record stays as it is, and a call that
\* adds no record moves no money (the applied map of MockWallet).
THEOREM DecidedOnce == Spec => TxDecidedOnce
<1>1. ASSUME [Next]_walletVars
      PROVE  /\ \A tx \in DOMAIN applied : tx \in DOMAIN applied' /\ applied'[tx] = applied[tx]
             /\ DOMAIN applied' = DOMAIN applied => balances' = balances
  <2>1. CASE UNCHANGED walletVars
    BY <2>1 DEF walletVars
  <2>2. ASSUME NEW t, NEW m, t \notin DOMAIN applied, Record(t, m)
        PROVE  /\ \A tx \in DOMAIN applied : tx \in DOMAIN applied' /\ applied'[tx] = applied[tx]
               /\ DOMAIN applied' # DOMAIN applied
    BY <2>2 DEF Record
  <2>3. \/ UNCHANGED walletVars
        \/ \E t, m : t \notin DOMAIN applied /\ Record(t, m)
    BY <1>1 DEF Next, Refused, Debit, Credit
  <2> QED
    BY <2>1, <2>2, <2>3
<1> QED
  BY <1>1, PTL DEF Spec, TxDecidedOnce
=============================================================================
