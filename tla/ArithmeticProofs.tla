-------------------------- MODULE ArithmeticProofs --------------------------
(***************************************************************************)
(* What the operators of the models compute: exact sums (Sum), words, and  *)
(* the split of a pot by rtp (Settle), for any word size, any finite       *)
(* domain and any sequence of buy-ins.                                     *)
(***************************************************************************)
EXTENDS Rtp, Sums, FiniteSetTheorems, WellFoundedInduction, TLAPS

-----------------------------------------------------------------------------
(* Induction and words.                                                    *)

\* Induction, for a set of numbers: the sets 0..n are ordered by inclusion.
LEMMA Induction ==
  ASSUME NEW S, 0 \in S, \A n \in Nat : n \in S => n + 1 \in S
  PROVE  Nat \subseteq S
<1> SUFFICES ASSUME NEW b \in Nat, b \notin S PROVE FALSE
  OBVIOUS
<1> DEFINE T == {0..n : n \in Nat \ S}
<1>1. T \subseteq {x \in SUBSET Nat : IsFiniteSet(x)}
  <2>1. \A n \in Nat : IsFiniteSet(0..n)
    BY FS_Interval
  <2> QED
    BY <2>1
<1>2. IsWellFoundedOn(StrictSubsetOrdering(Nat), {x \in SUBSET Nat : IsFiniteSet(x)})
  BY FS_StrictSubsetOrderingWellFounded DEF FiniteSubsetsOf
<1>3. T # {}
  OBVIOUS
<1>4. PICK x \in T : \A y \in T : <<y, x>> \notin StrictSubsetOrdering(Nat)
  BY <1>1, <1>2, <1>3, WFMin
<1>5. PICK n \in Nat \ S : x = 0..n
  BY <1>4
<1>6. n # 0 /\ n - 1 \in Nat /\ n - 1 \notin S
  <2>1. n # 0
    OBVIOUS
  <2>2. n - 1 \in Nat /\ (n - 1) + 1 = n
    BY <2>1
  <2> QED
    BY <2>1, <2>2
<1>7. 0..(n - 1) \in T /\ 0..(n - 1) \subseteq x /\ 0..(n - 1) # x /\ x \in SUBSET Nat
  <2>1. n \in 0..n /\ n \notin 0..(n - 1)
    BY <1>6
  <2> QED
    BY <1>5, <1>6, <2>1
<1>8. <<0..(n - 1), x>> \in StrictSubsetOrdering(Nat)
  BY <1>5, <1>7 DEF StrictSubsetOrdering
<1> QED
  BY <1>4, <1>7, <1>8

\* Division with remainder.
LEMMA Division ==
  ASSUME NEW n \in Int, NEW m \in Nat, m > 0
  PROVE  n \div m \in Int /\ n = (n \div m) * m + (n % m) /\ n % m \in 0..(m - 1)
<1>1. n \div m \in Int
  OBVIOUS
<1>2. n = (n \div m) * m + (n % m)
  OBVIOUS
<1>3. n % m \in 0..(m - 1)
  OBVIOUS
<1> QED
  BY <1>1, <1>2, <1>3

\* A word is its own remainder.
LEMMA WrapWord ==
  ASSUME NEW n \in Word
  PROVE  Wrap(n) = n
<1> DEFINE m == MaxUint64 + 1
<1>1. m \in Nat /\ m > 0 /\ n \in Nat /\ n < m
  BY MaxUint64Assumption DEF Word
<1>2. Wrap(n) = n % m
  BY DEF Wrap
<1> HIDE DEF m
<1>3. n % m = n
  BY <1>1
<1> QED
  BY <1>2, <1>3

-----------------------------------------------------------------------------
(* The fold, as a function on the subsets of a domain.                     *)

\* One step of the fold: an element of S, and the sum of the others.
FoldStep(f, h, S) == IF S = {} THEN 0 ELSE LET x == CHOOSE y \in S : TRUE IN f[x] + h[S \ {x}]

\* The sums of f over the members of U.
IsSumOn(h, f, U) == h = [S \in U |-> FoldStep(f, h, S)]

IsSum(h, f, D) == IsSumOn(h, f, SUBSET D)

\* Whichever element is taken from a set, the sum is that of the others and it.
AddsUp(h, f, D) == \A S \in SUBSET D : h[S] \in Int /\ \A x \in S : h[S] = f[x] + h[S \ {x}]

UpTo(D, n) == {S \in SUBSET D : Cardinality(S) <= n}

\* A set without one of its elements is smaller.
LEMMA Smaller ==
  ASSUME NEW D, IsFiniteSet(D), NEW n \in Nat, NEW S \in UpTo(D, n), NEW x \in S
  PROVE  n # 0 /\ n - 1 \in Nat /\ S \ {x} \in UpTo(D, n - 1)
<1>1. IsFiniteSet(S) /\ Cardinality(S) \in Nat /\ Cardinality(S \ {x}) = Cardinality(S) - 1
      /\ Cardinality(S \ {x}) \in Nat
  <2>1. IsFiniteSet(S)
    BY FS_Subset DEF UpTo
  <2> QED
    BY <2>1, FS_RemoveElement, FS_CardinalityType
<1> QED
  BY <1>1 DEF UpTo

\* The same, for the step of an induction.
LEMMA SmallerBy1 ==
  ASSUME NEW D, IsFiniteSet(D), NEW n \in Nat, NEW S \in UpTo(D, n + 1), NEW x \in S
  PROVE  S \ {x} \in UpTo(D, n)
<1>1. n + 1 \in Nat /\ (n + 1) - 1 = n
  OBVIOUS
<1> QED
  BY <1>1, Smaller

\* The sums over the subsets of a finite set exist, by induction on their sizes.
LEMMA SumsExist ==
  ASSUME NEW f, NEW D, IsFiniteSet(D)
  PROVE  \E h : IsSum(h, f, D)
<1> DEFINE N == {n \in Nat : \E h : IsSumOn(h, f, UpTo(D, n))}
<1>1. 0 \in N
  <2> DEFINE h == [S \in UpTo(D, 0) |-> 0]
  <2>1. \A S \in UpTo(D, 0) : S = {}
    BY Smaller
  <2>2. IsSumOn(h, f, UpTo(D, 0))
    BY <2>1 DEF IsSum, IsSumOn, FoldStep
  <2> QED
    BY <2>2
<1>2. ASSUME NEW n \in Nat, n \in N
      PROVE  n + 1 \in N
  <2>1. PICK g : IsSumOn(g, f, UpTo(D, n))
    BY <1>2
  <2> DEFINE h == [S \in UpTo(D, n + 1) |-> FoldStep(f, g, S)]
  <2>2. UpTo(D, n) \subseteq UpTo(D, n + 1)
    <3>1. \A S \in SUBSET D : Cardinality(S) \in Nat
      BY FS_Subset, FS_CardinalityType
    <3> QED
      BY <3>1 DEF UpTo
  <2>3. \A S \in UpTo(D, n) : h[S] = g[S]
    BY <2>1, <2>2 DEF IsSumOn
  <2>4. ASSUME NEW S \in UpTo(D, n + 1)
        PROVE  FoldStep(f, g, S) = FoldStep(f, h, S)
    <3>1. CASE S = {}
      BY <3>1 DEF FoldStep
    <3>2. CASE S # {}
      <4> DEFINE x == CHOOSE y \in S : TRUE
      <4>1. x \in S
        BY <3>2
      <4>2. S \ {x} \in UpTo(D, n)
        <5> HIDE DEF x
        <5> QED
          BY <4>1, SmallerBy1
      <4>3. h[S \ {x}] = g[S \ {x}]
        BY <2>3, <4>2
      <4> HIDE DEF h
      <4> QED
        BY <3>2, <4>3 DEF FoldStep
    <3> QED
      BY <3>1, <3>2
  <2>5. IsSumOn(h, f, UpTo(D, n + 1))
    <3>1. [S \in UpTo(D, n + 1) |-> FoldStep(f, g, S)] = [S \in UpTo(D, n + 1) |-> FoldStep(f, h, S)]
      BY <2>4
    <3> QED
      BY <3>1 DEF IsSumOn
  <2> QED
    BY <2>5
<1>3. Cardinality(D) \in Nat
  BY FS_CardinalityType
<1>4. Cardinality(D) \in N
  <2>1. Nat \subseteq N
    <3> HIDE DEF N
    <3> QED
      BY <1>1, <1>2, Induction
  <2> QED
    BY <1>3, <2>1
<1>5. UpTo(D, Cardinality(D)) = SUBSET D
  BY FS_Subset DEF UpTo
<1> QED
  BY <1>4, <1>5 DEF IsSum

\* Integers sum up to an integer, and it does not matter which is added last.
LEMMA SumOfOthers ==
  ASSUME NEW D, IsFiniteSet(D), NEW f \in [D -> Int], NEW h, IsSum(h, f, D)
  PROVE  AddsUp(h, f, D)
<1> DEFINE N == {n \in Nat : \A S \in UpTo(D, n) :
                   h[S] \in Int /\ \A x \in S : h[S] = f[x] + h[S \ {x}]}
<1>1. 0 \in N
  <2> SUFFICES ASSUME NEW S \in UpTo(D, 0)
               PROVE  h[S] \in Int /\ \A x \in S : h[S] = f[x] + h[S \ {x}]
    OBVIOUS
  <2>1. S = {} /\ S \in SUBSET D
    BY Smaller DEF UpTo
  <2>2. h[S] = 0
    BY <2>1 DEF IsSum, IsSumOn, FoldStep
  <2> QED
    BY <2>1, <2>2
<1>2. ASSUME NEW n \in Nat, n \in N
      PROVE  n + 1 \in N
  <2> SUFFICES ASSUME NEW S \in UpTo(D, n + 1)
               PROVE  h[S] \in Int /\ \A x \in S : h[S] = f[x] + h[S \ {x}]
    OBVIOUS
  <2>0. \A T \in UpTo(D, n) : h[T] \in Int /\ \A x \in T : h[T] = f[x] + h[T \ {x}]
    BY <1>2
  <2>1. S \in SUBSET D
    BY DEF UpTo
  <2>2. CASE S = {}
    <3>1. h[S] = 0
      BY <2>1, <2>2 DEF IsSum, IsSumOn, FoldStep
    <3> QED
      BY <2>2, <3>1
  <2>3. CASE S # {}
    <3>1. PICK c \in S : h[S] = f[c] + h[S \ {c}]
      <4> DEFINE d == CHOOSE y \in S : TRUE
      <4>1. d \in S /\ h[S] = f[d] + h[S \ {d}]
        BY <2>1, <2>3 DEF IsSum, IsSumOn, FoldStep
      <4> QED
        BY <4>1
    <3>2. \A x \in S : S \ {x} \in UpTo(D, n) /\ h[S \ {x}] \in Int /\ f[x] \in Int
      BY <1>2, <2>1, SmallerBy1
    <3>3. ASSUME NEW x \in S, x # c
          PROVE  h[S] = f[x] + h[S \ {x}]
      <4> DEFINE A == S \ {c}
                 B == S \ {x}
                 R == A \ {x}
      <4>1. x \in A /\ c \in B /\ R = B \ {c} /\ A \in UpTo(D, n) /\ B \in UpTo(D, n)
        BY <3>2, <3>3
      <4>2. R \in UpTo(D, n)
        <5>1. IsFiniteSet(A) /\ Cardinality(A) \in Nat /\ A \in SUBSET D
          BY <2>1, FS_Subset, FS_CardinalityType
        <5> HIDE DEF A
        <5>2. Cardinality(R) = Cardinality(A) - 1
          BY <4>1, <5>1, FS_RemoveElement
        <5> QED
          BY <4>1, <5>1, <5>2 DEF UpTo
      <4>3. h[S] = f[c] + h[A] /\ h[B] \in Int
        BY <3>1, <3>2
      <4> HIDE DEF A, B
      <4>4. h[A] = f[x] + h[R]
        BY <2>0, <4>1
      <4>5. h[B] = f[c] + h[R]
        BY <2>0, <4>1
      <4>6. h[R] \in Int /\ f[c] \in Int /\ f[x] \in Int
        BY <2>0, <3>2, <4>2
      <4> HIDE DEF R
      <4>7. h[S] = f[x] + h[B]
        BY <4>3, <4>4, <4>5, <4>6
      <4> QED
        BY <4>7 DEF B
    <3>4. h[S] \in Int
      BY <3>1, <3>2
    <3> QED
      BY <3>1, <3>3, <3>4
  <2> QED
    BY <2>2, <2>3
<1>3. Nat \subseteq N
  <2> HIDE DEF N
  <2> QED
    BY <1>1, <1>2, Induction
<1>4. \A S \in SUBSET D : Cardinality(S) \in Nat /\ S \in UpTo(D, Cardinality(S))
  <2>1. \A S \in SUBSET D : Cardinality(S) \in Nat
    BY FS_Subset, FS_CardinalityType
  <2> QED
    BY <2>1 DEF UpTo
<1> QED
  BY <1>3, <1>4 DEF AddsUp

\* Functions that agree on a set have the same sum over it.
LEMMA SameSum ==
  ASSUME NEW D, NEW E, IsFiniteSet(D), NEW f, NEW g, NEW h, NEW k,
         IsSum(h, f, D), IsSum(k, g, E),
         NEW R \in SUBSET D, R \subseteq E, \A x \in R : f[x] = g[x]
  PROVE  h[R] = k[R]
<1> DEFINE N == {n \in Nat : \A S \in UpTo(R, n) : h[S] = k[S]}
<1>0. IsFiniteSet(R) /\ Cardinality(R) \in Nat
  BY FS_Subset, FS_CardinalityType
<1>1. 0 \in N
  <2> SUFFICES ASSUME NEW S \in UpTo(R, 0) PROVE h[S] = k[S]
    OBVIOUS
  <2>1. S = {} /\ S \in SUBSET D /\ S \in SUBSET E
    BY <1>0, Smaller DEF UpTo
  <2> QED
    BY <2>1 DEF IsSum, IsSumOn, FoldStep
<1>2. ASSUME NEW n \in Nat, n \in N
      PROVE  n + 1 \in N
  <2> SUFFICES ASSUME NEW S \in UpTo(R, n + 1) PROVE h[S] = k[S]
    OBVIOUS
  <2>1. S \in SUBSET R /\ S \in SUBSET D /\ S \in SUBSET E
    BY DEF UpTo
  <2>2. CASE S = {}
    BY <2>1, <2>2 DEF IsSum, IsSumOn, FoldStep
  <2>3. CASE S # {}
    <3> DEFINE c == CHOOSE y \in S : TRUE
    <3>1. c \in S /\ h[S] = f[c] + h[S \ {c}] /\ k[S] = g[c] + k[S \ {c}]
      BY <2>1, <2>3 DEF IsSum, IsSumOn, FoldStep
    <3> HIDE DEF c
    <3>2. S \ {c} \in UpTo(R, n)
      BY <1>0, <3>1, SmallerBy1
    <3> QED
      BY <1>2, <2>1, <3>1, <3>2
  <2> QED
    BY <2>2, <2>3
<1>3. Nat \subseteq N
  <2> HIDE DEF N
  <2> QED
    BY <1>1, <1>2, Induction
<1>4. R \in UpTo(R, Cardinality(R))
  BY <1>0 DEF UpTo
<1> QED
  BY <1>0, <1>3, <1>4
-----------------------------------------------------------------------------
(* Sum.                                                                    *)

\* Sum is the fold over the whole domain.
LEMMA SumIsFold ==
  ASSUME NEW f, IsFiniteSet(DOMAIN f)
  PROVE  \E h : IsSum(h, f, DOMAIN f) /\ Sum(f) = h[DOMAIN f]
<1> DEFINE D == DOMAIN f
           g == CHOOSE h : h = [S \in SUBSET D |->
                  IF S = {} THEN 0 ELSE LET x == CHOOSE y \in S : TRUE IN f[x] + h[S \ {x}]]
<1>1. \E h : IsSum(h, f, D)
  BY SumsExist
<1>2. IsSum(g, f, D)
  BY <1>1 DEF IsSum, IsSumOn, FoldStep
<1>3. Sum(f) = g[D]
  BY DEF Sum, MapThenSumSet, MapThenFoldSet
<1> QED
  BY <1>2, <1>3

LEMMA SumType ==
  ASSUME NEW D, IsFiniteSet(D), NEW f \in [D -> Int]
  PROVE  Sum(f) \in Int
<1>1. DOMAIN f = D /\ D \in SUBSET D
  OBVIOUS
<1>2. PICK h : IsSum(h, f, D) /\ Sum(f) = h[D]
  BY <1>1, SumIsFold
<1>3. AddsUp(h, f, D)
  BY <1>2, SumOfOthers
<1> QED
  BY <1>1, <1>2, <1>3 DEF AddsUp

\* What one value contributes.
LEMMA SumWithout ==
  ASSUME NEW D, IsFiniteSet(D), NEW f \in [D -> Int], NEW x \in D,
         NEW E, IsFiniteSet(E), NEW g \in [E -> Int], E = D \ {x} \/ (x \in E /\ E = D),
         \A y \in D \ {x} : g[y] = f[y]
  PROVE  Sum(f) - f[x] = IF x \in E THEN Sum(g) - g[x] ELSE Sum(g)
<1>1. DOMAIN f = D /\ DOMAIN g = E
  OBVIOUS
<1>2. PICK h : IsSum(h, f, D) /\ Sum(f) = h[D]
  BY <1>1, SumIsFold
<1>3. PICK k : IsSum(k, g, E) /\ Sum(g) = k[E]
  BY <1>1, SumIsFold
<1>4. h[D] = f[x] + h[D \ {x}] /\ h[D \ {x}] \in Int /\ f[x] \in Int
  <2>1. AddsUp(h, f, D)
    BY <1>2, SumOfOthers
  <2>2. D \in SUBSET D /\ D \ {x} \in SUBSET D
    OBVIOUS
  <2> QED
    BY <2>1, <2>2 DEF AddsUp
<1>5. h[D \ {x}] = k[D \ {x}]
  <2>1. D \ {x} \in SUBSET D /\ D \ {x} \subseteq E
    OBVIOUS
  <2> QED
    BY <1>2, <1>3, <2>1, SameSum
<1>6. CASE x \in E
  <2>1. k[E] = g[x] + k[E \ {x}] /\ g[x] \in Int
    <3>1. AddsUp(k, g, E)
      BY <1>3, SumOfOthers
    <3> QED
      BY <1>6, <3>1 DEF AddsUp
  <2>2. E \ {x} = D \ {x}
    BY <1>6
  <2>3. k[E \ {x}] = h[D \ {x}] /\ h[D \ {x}] \in Int
    BY <1>4, <1>5, <2>2
  <2>4. Sum(f) = f[x] + h[D \ {x}] /\ Sum(g) = g[x] + h[D \ {x}]
    BY <1>2, <1>3, <1>4, <2>1, <2>3
  <2>5. Sum(f) - f[x] = Sum(g) - g[x]
    BY <1>4, <2>1, <2>3, <2>4
  <2> QED
    BY <1>6, <2>5
<1>7. CASE x \notin E
  <2>1. E = D \ {x}
    BY <1>7
  <2> QED
    BY <1>2, <1>3, <1>4, <1>5, <1>7, <2>1
<1> QED
  BY <1>6, <1>7

\* A value more in the domain.
LEMMA SumOneMore ==
  ASSUME NEW D, IsFiniteSet(D), NEW f \in [D -> Int], NEW x, x \notin D, NEW v \in Int
  PROVE  Sum([y \in D \cup {x} |-> IF y = x THEN v ELSE f[y]]) = Sum(f) + v
<1> DEFINE E == D \cup {x}
           g == [y \in E |-> IF y = x THEN v ELSE f[y]]
<1>1. IsFiniteSet(E) /\ g \in [E -> Int] /\ x \in E /\ g[x] = v /\ D = E \ {x} /\ x \notin D
  BY FS_AddElement
<1>2. \A y \in E \ {x} : f[y] = g[y]
  OBVIOUS
<1>3. Sum(f) \in Int /\ Sum(g) \in Int
  <2> HIDE DEF g, E
  <2> QED
    BY <1>1, SumType
<1>4. Sum(g) - g[x] = Sum(f)
  <2> HIDE DEF g, E
  <2> QED
    BY <1>1, <1>2, SumWithout
<1>5. Sum(g) = Sum(f) + v
  <2> HIDE DEF g, E
  <2> QED
    BY <1>1, <1>3, <1>4
<1> QED
  BY <1>5

\* A value changed.
LEMMA SumChanged ==
  ASSUME NEW D, IsFiniteSet(D), NEW f \in [D -> Int], NEW g \in [D -> Int], NEW x \in D,
         \A y \in D \ {x} : g[y] = f[y]
  PROVE  Sum(g) = Sum(f) - f[x] + g[x]
<1>1. f[x] \in Int /\ g[x] \in Int
  OBVIOUS
<1>2. Sum(f) \in Int /\ Sum(g) \in Int
  BY SumType
<1>3. Sum(f) - f[x] = Sum(g) - g[x]
  BY SumWithout
<1> QED
  BY <1>1, <1>2, <1>3

\* The sum of a sequence, element by element.
LEMMA SumOfSequence ==
  ASSUME NEW n \in Nat, NEW s \in [1..n -> Int]
  PROVE  \E p \in [0..n -> Int] :
           /\ p[0] = 0 /\ p[n] = Sum(s)
           /\ \A i \in 1..n : p[i] = p[i - 1] + s[i]
<1>1. IsFiniteSet(1..n) /\ DOMAIN s = 1..n
  BY FS_Interval
<1>2. PICK h : IsSum(h, s, 1..n) /\ Sum(s) = h[1..n]
  BY <1>1, SumIsFold
<1>3. \A S \in SUBSET (1..n) : h[S] \in Int /\ \A x \in S : h[S] = s[x] + h[S \ {x}]
  <2> DEFINE D == 1..n
  <2>1. IsFiniteSet(D) /\ s \in [D -> Int] /\ IsSum(h, s, D)
    BY <1>1, <1>2
  <2> HIDE DEF D
  <2>2. AddsUp(h, s, D)
    BY <2>1, SumOfOthers
  <2> QED
    BY <2>2 DEF AddsUp, D
<1> DEFINE p == [i \in 0..n |-> h[1..i]]
<1>4. \A i \in 0..n : 1..i \in SUBSET (1..n)
  OBVIOUS
<1>5. p \in [0..n -> Int] /\ p[n] = Sum(s)
  BY <1>2, <1>3, <1>4
<1>6. p[0] = 0
  <2>1. 1..0 = {} /\ {} \in SUBSET (1..n)
    OBVIOUS
  <2>2. h[{}] = 0
    BY <1>2, <2>1 DEF IsSum, IsSumOn, FoldStep
  <2> QED
    BY <2>1, <2>2
<1>7. ASSUME NEW i \in 1..n
      PROVE  p[i] = p[i - 1] + s[i]
  <2>1. i \in 1..i /\ (1..i) \ {i} = 1..(i - 1) /\ i \in 0..n /\ i - 1 \in 0..n
    OBVIOUS
  <2>2. h[1..i] = s[i] + h[1..(i - 1)] /\ h[1..(i - 1)] \in Int /\ s[i] \in Int
    BY <1>3, <1>4, <2>1
  <2> QED
    BY <2>1, <2>2
<1> QED
  BY <1>5, <1>6, <1>7
-----------------------------------------------------------------------------
(* Settle: word arithmetic against the exact sums and products.            *)

\* The running total of the pot is what its recursion says: such a function
\* exists, by induction on the number of buy-ins.
LEMMA PotRecursion ==
  ASSUME NEW s \in Seq(Word)
  PROVE  /\ PotAfter(s)[0] = 0
         /\ \A i \in 1..Len(s) : PotAfter(s)[i] = Wrap(PotAfter(s)[i - 1] + s[i])
<1> DEFINE F(f, n) == [i \in 0..n |-> IF i = 0 THEN 0 ELSE Wrap(f[i - 1] + s[i])]
           N == {n \in Nat : \E f : f = F(f, n)}
<1>1. 0 \in N
  <2> DEFINE f == [i \in 0..0 |-> 0]
  <2>1. f = F(f, 0)
    OBVIOUS
  <2> QED
    BY <2>1
<1>2. ASSUME NEW n \in Nat, n \in N
      PROVE  n + 1 \in N
  <2>1. PICK f : f = F(f, n)
    BY <1>2
  <2> DEFINE g == [i \in 0..(n + 1) |-> IF i = n + 1 THEN Wrap(f[n] + s[n + 1]) ELSE f[i]]
  <2>2. ASSUME NEW i \in 0..(n + 1)
        PROVE  g[i] = IF i = 0 THEN 0 ELSE Wrap(g[i - 1] + s[i])
    <3>1. CASE i = n + 1
      <4>1. g[n] = f[n] /\ i - 1 = n /\ i # 0
        BY <3>1
      <4> QED
        BY <3>1, <4>1
    <3>2. CASE i # n + 1
      <4>1. i \in 0..n
        BY <3>2
      <4>2. f[i] = IF i = 0 THEN 0 ELSE Wrap(f[i - 1] + s[i])
        BY <2>1, <4>1
      <4>3. g[i] = f[i] /\ (i # 0 => g[i - 1] = f[i - 1])
        BY <3>2, <4>1
      <4> QED
        BY <4>2, <4>3
    <3> QED
      BY <3>1, <3>2
  <2>3. g = F(g, n + 1)
    BY <2>2
  <2> HIDE DEF g
  <2>4. n + 1 \in Nat
    OBVIOUS
  <2> QED
    BY <2>3, <2>4, Zenon
<1>3. Len(s) \in N
  <2>1. Nat \subseteq N
    <3> HIDE DEF N
    <3> QED
      BY <1>1, <1>2, Induction
  <2> QED
    BY <2>1
<1> DEFINE h == CHOOSE f : f = F(f, Len(s))
<1>4. h = F(h, Len(s))
  BY <1>3
<1>5. PotAfter(s) = h
  BY DEF PotAfter
<1> HIDE DEF h
<1>6. Len(s) \in Nat
  OBVIOUS
<1> QED
  BY <1>4, <1>5, <1>6

\* The running total is a word at every buy-in, overflow or not.
LEMMA PotType ==
  ASSUME NEW s \in Seq(Word)
  PROVE  Total(s) \in Word
<1> DEFINE n == Len(s)
           t == PotAfter(s)
           N == {k \in Nat : k <= n => t[k] \in Word}
<1>0. n \in Nat /\ 0 \in Word /\ \A i \in 1..n : s[i] \in Word
  BY MaxUint64Assumption DEF Word
<1>1. t[0] = 0 /\ \A i \in 1..n : t[i] = Wrap(t[i - 1] + s[i])
  BY PotRecursion
<1>2. \A x, y \in Word : Wrap(x + y) \in Word
  BY MaxUint64Assumption DEF Word, Wrap
<1>3. Total(s) = t[n]
  BY DEF Total
<1> HIDE DEF n, t
<1>4. 0 \in N
  BY <1>0, <1>1
<1>5. ASSUME NEW k \in Nat, k \in N
      PROVE  k + 1 \in N
  <2> SUFFICES ASSUME k + 1 <= n PROVE t[k + 1] \in Word
    OBVIOUS
  <2>1. k + 1 \in 1..n /\ (k + 1) - 1 = k /\ k <= n
    BY <1>0
  <2>2. t[k] \in Word /\ s[k + 1] \in Word
    BY <1>0, <1>5, <2>1
  <2>3. t[k + 1] = Wrap(t[k] + s[k + 1])
    BY <1>1, <2>1
  <2> QED
    BY <1>2, <2>2, <2>3
<1>6. Nat \subseteq N
  <2> HIDE DEF N
  <2> QED
    BY <1>4, <1>5, Induction
<1> QED
  BY <1>0, <1>3, <1>6

\* So is the prize, whatever the product has wrapped around to.
LEMMA PrizeType ==
  ASSUME NEW t \in Word, NEW r \in Nat
  PROVE  PrizeOf(t, r) \in Word
<1> DEFINE b == BasisPoints
           w == Wrap(t * r)
           z == w \div b
<1>1. b \in Nat /\ b > 0 /\ MaxUint64 \in Nat
  BY BasisPointsAssumption, MaxUint64Assumption
<1>2. w \in Nat /\ w <= MaxUint64
  <2>1. t * r \in Int
    BY <1>1 DEF Word
  <2> DEFINE m == MaxUint64 + 1
             k == t * r
  <2>2. w = k % m /\ m \in Nat /\ m > 0 /\ m - 1 = MaxUint64
    BY <1>1 DEF Wrap
  <2> HIDE DEF m, k, w
  <2>3. k % m \in 0..(m - 1)
    BY <2>1, <2>2, Division DEF k
  <2> QED
    BY <1>1, <2>2, <2>3
<1> HIDE DEF w, b
<1>3. z \in Int /\ w = z * b + (w % b) /\ w % b \in 0..(b - 1)
  BY <1>1, <1>2, Division
<1> HIDE DEF z
<1>4. z >= 0
  <2> SUFFICES ASSUME z <= -1 PROVE FALSE
    BY <1>3
  <2>1. z * b <= -b /\ z * b \in Int
    BY <1>1, <1>3
  <2> QED
    BY <1>1, <1>2, <1>3, <2>1
<1>5. z <= w
  <2>1. z * b >= z /\ z * b \in Int
    BY <1>1, <1>3, <1>4
  <2> QED
    BY <1>1, <1>2, <1>3, <2>1
<1>6. z \in Word
  BY <1>1, <1>2, <1>3, <1>4, <1>5 DEF Word
<1> QED
  BY <1>6 DEF PrizeOf, z, w, b

\* The first members of the sums p of a sequence: what a running total is exactly.
SumsUpTo(p, s) ==
  /\ p \in [0..Len(s) -> Int]
  /\ p[0] = 0 /\ p[Len(s)] = Sum(s)
  /\ \A i \in 1..Len(s) : p[i] = p[i - 1] + s[i]

\* Buy-ins are not negative: the sums only grow.
LEMMA SumsGrow ==
  ASSUME NEW s \in Seq(Word), NEW p, SumsUpTo(p, s)
  PROVE  \A i \in 0..Len(s) : p[i] >= 0 /\ p[i] <= Sum(s)
<1> DEFINE n == Len(s)
<1>0. n \in Nat /\ MaxUint64 \in Nat /\ \A i \in 1..n : s[i] \in 0..MaxUint64
  BY MaxUint64Assumption DEF Word
<1>p. p \in [0..n -> Int] /\ p[0] = 0 /\ p[n] = Sum(s) /\ \A i \in 1..n : p[i] = p[i - 1] + s[i]
  BY DEF SumsUpTo
<1> HIDE DEF n
<1> DEFINE U == {k \in Nat : k <= n => p[k] >= 0}
           V == {k \in Nat : k <= n => p[n - k] <= p[n]}
<1>1. Nat \subseteq U
  <2>1. 0 \in U
    BY <1>p
  <2>2. ASSUME NEW k \in Nat, k \in U
        PROVE  k + 1 \in U
    <3> SUFFICES ASSUME k + 1 <= n PROVE p[k + 1] >= 0
      OBVIOUS
    <3>1. k \in 0..n /\ k + 1 \in 1..n /\ (k + 1) - 1 = k
      BY <1>0
    <3>2. p[k] >= 0 /\ p[k] \in Int /\ s[k + 1] >= 0 /\ s[k + 1] \in Int
      BY <1>0, <1>p, <2>2, <3>1
    <3>3. p[k + 1] = p[k] + s[k + 1]
      BY <1>p, <3>1
    <3> QED
      BY <3>2, <3>3
  <2> HIDE DEF U
  <2> QED
    BY <2>1, <2>2, Induction
<1>2. Nat \subseteq V
  <2>1. 0 \in V
    <3>1. n - 0 = n /\ p[n] \in Int
      BY <1>0, <1>p
    <3> QED
      BY <3>1
  <2>2. ASSUME NEW k \in Nat, k \in V
        PROVE  k + 1 \in V
    <3> SUFFICES ASSUME k + 1 <= n PROVE p[n - (k + 1)] <= p[n]
      OBVIOUS
    <3> DEFINE j == n - k
    <3>1. j \in 1..n /\ j - 1 \in 0..n /\ j - 1 = n - (k + 1) /\ j \in 0..n /\ n \in 0..n
      BY <1>0
    <3>2. p[j] <= p[n]
      BY <1>0, <2>2
    <3> HIDE DEF j
    <3>3. p[j] = p[j - 1] + s[j] /\ s[j] >= 0 /\ s[j] \in Int
      BY <1>0, <1>p, <3>1
    <3>4. p[j] \in Int /\ p[j - 1] \in Int /\ p[n] \in Int
      BY <1>p, <3>1
    <3>5. p[j - 1] <= p[n]
      BY <3>2, <3>3, <3>4
    <3> QED
      BY <3>1, <3>5
  <2> HIDE DEF V
  <2> QED
    BY <2>1, <2>2, Induction
<1>3. ASSUME NEW i \in 0..n
      PROVE  p[i] >= 0 /\ p[i] <= p[n]
  <2>1. i \in Nat /\ i <= n /\ n - i \in Nat /\ n - i <= n /\ n - (n - i) = i
    BY <1>0
  <2>2. i \in U /\ n - i \in V
    BY <1>1, <1>2, <2>1
  <2> QED
    BY <2>1, <2>2
<1> QED
  BY <1>3, <1>p DEF n

\* As long as the exact sum is a word, the running total is that sum.
LEMMA PotIsSum ==
  ASSUME NEW s \in Seq(Word), NEW p, SumsUpTo(p, s), NEW i \in 0..Len(s), p[i] <= MaxUint64
  PROVE  PotAfter(s)[i] = p[i]
<1> DEFINE n == Len(s)
           t == PotAfter(s)
<1>0. n \in Nat /\ MaxUint64 \in Nat /\ \A k \in 1..n : s[k] \in 0..MaxUint64
  BY MaxUint64Assumption DEF Word
<1>p. p \in [0..n -> Int] /\ p[0] = 0 /\ \A k \in 1..n : p[k] = p[k - 1] + s[k]
  BY DEF SumsUpTo
<1>t. t[0] = 0 /\ \A k \in 1..n : t[k] = Wrap(t[k - 1] + s[k])
  BY PotRecursion
<1>g. \A k \in 0..n : p[k] >= 0
  BY SumsGrow
<1>i. i \in 0..n
  OBVIOUS
<1> DEFINE N == {k \in Nat : k <= n /\ p[k] <= MaxUint64 => t[k] = p[k]}
<1> HIDE DEF n, t
<1>1. 0 \in N
  BY <1>p, <1>t
<1>2. ASSUME NEW k \in Nat, k \in N
      PROVE  k + 1 \in N
  <2> SUFFICES ASSUME k + 1 <= n, p[k + 1] <= MaxUint64
               PROVE  t[k + 1] = p[k + 1]
    OBVIOUS
  <2>1. k \in 0..n /\ k + 1 \in 1..n /\ (k + 1) - 1 = k /\ k <= n /\ k + 1 \in 0..n
    BY <1>0
  <2>2. p[k + 1] = p[k] + s[k + 1] /\ p[k] \in Int /\ p[k + 1] \in Int /\ p[k + 1] >= 0
    BY <1>p, <1>g, <2>1
  <2>3. s[k + 1] \in Int /\ s[k + 1] >= 0
    BY <1>0, <2>1
  <2>4. p[k] <= MaxUint64
    BY <1>0, <2>2, <2>3
  <2>5. t[k] = p[k]
    BY <1>2, <2>1, <2>4
  <2>6. t[k + 1] = Wrap(p[k + 1])
    BY <1>t, <2>1, <2>2, <2>5
  <2>7. p[k + 1] \in Word
    BY <1>0, <2>2 DEF Word
  <2> QED
    BY <2>6, <2>7, WrapWord
<1>3. Nat \subseteq N
  <2> HIDE DEF N
  <2> QED
    BY <1>1, <1>2, Induction
<1>4. i \in N /\ i <= n
  BY <1>0, <1>3, <1>i
<1>5. t[i] = p[i]
  BY <1>4
<1> QED
  BY <1>5 DEF t

\* The guard of the summing loop holds somewhere exactly when the pot is no word.
LEMMA PotGuardExact ==
  ASSUME NEW s \in Seq(Word)
  PROVE  /\ Sum(s) \in Nat
         /\ PotOverflows(s) <=> Sum(s) > MaxUint64
         /\ Sum(s) <= MaxUint64 => Total(s) = Sum(s)
<1> DEFINE n == Len(s)
           t == PotAfter(s)
<1>0. n \in Nat /\ MaxUint64 \in Nat /\ \A k \in 1..n : s[k] \in 0..MaxUint64
  BY MaxUint64Assumption DEF Word
<1>1. PICK p : SumsUpTo(p, s)
  <2>1. s \in [1..n -> Int]
    BY <1>0
  <2> HIDE DEF n
  <2>2. PICK p \in [0..n -> Int] :
          /\ p[0] = 0 /\ p[n] = Sum(s)
          /\ \A i \in 1..n : p[i] = p[i - 1] + s[i]
    BY <1>0, <2>1, SumOfSequence
  <2> QED
    BY <2>2 DEF SumsUpTo, n
<1>p. p \in [0..n -> Int] /\ p[0] = 0 /\ p[n] = Sum(s) /\ \A k \in 1..n : p[k] = p[k - 1] + s[k]
  BY <1>1 DEF SumsUpTo
<1>g. \A k \in 0..n : p[k] >= 0 /\ p[k] <= p[n]
  BY <1>1, <1>p, SumsGrow
<1>t. \A k \in 0..n : p[k] <= MaxUint64 => t[k] = p[k]
  BY <1>1, PotIsSum
<1>o. PotOverflows(s) <=> \E i \in 1..n : t[i - 1] > MaxUint64 - s[i]
  BY DEF PotOverflows
<1>e. Total(s) = t[n]
  BY DEF Total
<1> HIDE DEF n, t
<1>2. n \in 0..n /\ p[n] \in Int /\ p[n] >= 0
  BY <1>0, <1>p, <1>g
<1>3. ASSUME p[n] > MaxUint64
      PROVE  PotOverflows(s)
  <2> DEFINE N == {k \in Nat : k <= n /\ p[k] > MaxUint64 => PotOverflows(s)}
  <2>1. 0 \in N
    BY <1>0, <1>p
  <2>2. ASSUME NEW k \in Nat, k \in N
        PROVE  k + 1 \in N
    <3> SUFFICES ASSUME k + 1 <= n, p[k + 1] > MaxUint64
                 PROVE  PotOverflows(s)
      OBVIOUS
    <3>1. k \in 0..n /\ k + 1 \in 1..n /\ (k + 1) - 1 = k /\ k <= n
      BY <1>0
    <3>2. CASE p[k] > MaxUint64
      BY <2>2, <3>1, <3>2
    <3>3. CASE ~(p[k] > MaxUint64)
      <4>1. p[k + 1] = p[k] + s[k + 1] /\ p[k] \in Int
        BY <1>p, <3>1
      <4>2. s[k + 1] \in Int
        BY <1>0, <3>1
      <4>3. t[k] = p[k]
        BY <1>0, <1>t, <3>1, <3>3, <4>1
      <4>4. t[k] > MaxUint64 - s[k + 1]
        BY <1>0, <4>1, <4>2, <4>3
      <4> QED
        BY <1>o, <3>1, <4>4
    <3> QED
      BY <3>2, <3>3
  <2>3. Nat \subseteq N
    <3> HIDE DEF N
    <3> QED
      BY <2>1, <2>2, Induction
  <2>4. n \in N
    BY <1>0, <2>3
  <2> QED
    BY <1>0, <1>3, <2>4
<1>4. ASSUME p[n] <= MaxUint64, PotOverflows(s)
      PROVE  FALSE
  <2>1. PICK i \in 1..n : t[i - 1] > MaxUint64 - s[i]
    BY <1>4, <1>o
  <2>2. i \in 0..n /\ i - 1 \in 0..n
    BY <1>0
  <2>3. p[i - 1] \in Int /\ p[i] \in Int /\ p[i - 1] <= p[n] /\ p[i] <= p[n] /\ p[i] = p[i - 1] + s[i]
    BY <1>p, <1>g, <2>2
  <2>4. t[i - 1] = p[i - 1]
    BY <1>0, <1>2, <1>4, <1>t, <2>2, <2>3
  <2>5. s[i] \in Int
    BY <1>0
  <2> QED
    BY <1>0, <1>2, <1>4, <2>1, <2>3, <2>4, <2>5
<1>5. p[n] <= MaxUint64 => Total(s) = p[n]
  BY <1>2, <1>e, <1>t
<1> QED
  BY <1>0, <1>2, <1>3, <1>4, <1>5, <1>p

\* The guard of the multiplication holds exactly when the product is no word.
LEMMA PrizeGuardExact ==
  ASSUME NEW t \in Nat, NEW r \in Nat
  PROVE  PrizeOverflows(t, r) <=> t * r > MaxUint64
<1> DEFINE q == MaxUint64 \div r
<1>0. MaxUint64 \in Nat
  BY MaxUint64Assumption
<1>1. CASE r = 0
  <2>1. t * r = 0
    BY <1>1
  <2> QED
    BY <1>0, <1>1, <2>1 DEF PrizeOverflows
<1>2. CASE r > 0
  <2>1. q \in Int /\ MaxUint64 = q * r + (MaxUint64 % r) /\ MaxUint64 % r \in 0..(r - 1)
    BY <1>0, <1>2, Division
  <2>2. PrizeOverflows(t, r) <=> t > q
    BY <1>2 DEF PrizeOverflows
  <2> HIDE DEF q
  <2>3. CASE t > q
    <3>1. t >= q + 1 /\ t * r \in Int /\ q * r \in Int
      BY <2>1, <2>3
    <3>2. t * r >= (q + 1) * r
      BY <1>2, <2>1, <3>1
    <3>3. (q + 1) * r = q * r + r
      BY <2>1
    <3> QED
      BY <1>0, <2>1, <2>2, <2>3, <3>1, <3>2, <3>3
  <2>4. CASE ~(t > q)
    <3>1. t <= q /\ t * r \in Int /\ q * r \in Int
      BY <2>1, <2>4
    <3>2. t * r <= q * r
      BY <1>2, <2>1, <3>1
    <3> QED
      BY <1>0, <2>1, <2>2, <2>4, <3>1, <3>2
  <2> QED
    BY <2>3, <2>4
<1> QED
  BY <1>1, <1>2

\* The prize is the exact share rounded down, and no more than the pot.
LEMMA PrizeExact ==
  ASSUME NEW t \in Word, NEW r \in 0..BasisPoints, t * r <= MaxUint64
  PROVE  /\ PrizeOf(t, r) \in Nat /\ PrizeOf(t, r) <= t
         /\ PrizeOf(t, r) * BasisPoints <= t * r
         /\ t * r < (PrizeOf(t, r) + 1) * BasisPoints
         /\ Wrap(t - PrizeOf(t, r)) = t - PrizeOf(t, r)
<1> DEFINE b == BasisPoints
           n == t * r
           z == n \div b
<1>1. b \in Nat /\ b > 0 /\ r \in Nat /\ r <= b /\ t \in Nat /\ MaxUint64 \in Nat /\ t <= MaxUint64
  BY BasisPointsAssumption, MaxUint64Assumption DEF Word
<1>2. n \in Nat /\ n <= MaxUint64 /\ n <= t * b
  <2>1. t * r <= t * b /\ t * r \in Nat
    BY <1>1
  <2> QED
    BY <2>1
<1>3. PrizeOf(t, r) = z
  <2>1. n \in Word
    BY <1>1, <1>2 DEF Word
  <2>2. Wrap(n) = n
    BY <2>1, WrapWord
  <2> QED
    BY <2>2 DEF PrizeOf
<1>4. z \in Int /\ n = z * b + (n % b) /\ n % b \in 0..(b - 1)
  <2> HIDE DEF n, b
  <2>1. n \in Int
    BY <1>2
  <2> QED
    BY <1>1, <2>1, Division
<1> HIDE DEF z, n, b
<1>5. z * b <= n /\ n < (z + 1) * b
  <2>1. (z + 1) * b = z * b + b /\ z * b \in Int
    BY <1>1, <1>4
  <2> QED
    BY <1>1, <1>2, <1>4, <2>1
<1>6. z >= 0
  <2> SUFFICES ASSUME z + 1 <= 0 PROVE FALSE
    BY <1>4
  <2>1. (z + 1) * b <= 0
    BY <1>1, <1>4
  <2>2. (z + 1) * b \in Int
    BY <1>1, <1>4
  <2> QED
    BY <1>2, <1>5, <2>1, <2>2
<1>7. z <= t
  <2> SUFFICES ASSUME z >= t + 1 PROVE FALSE
    BY <1>1, <1>4
  <2>1. z * b >= (t + 1) * b
    BY <1>1, <1>4
  <2>2. (t + 1) * b = t * b + b /\ t * b \in Int /\ z * b \in Int
    BY <1>1, <1>4
  <2> QED
    BY <1>1, <1>2, <1>5, <2>1, <2>2
<1>8. Wrap(t - z) = t - z
  <2>1. t - z \in Word
    BY <1>1, <1>4, <1>6, <1>7 DEF Word
  <2> QED
    BY <2>1, WrapWord
<1> QED
  BY <1>3, <1>4, <1>5, <1>6, <1>7, <1>8 DEF n, b

\* What an answer a of Settle is, next to exact arithmetic.
ExactAnswer(a, r, s, w) ==
  /\ a.err = "nil" =>
       /\ a.prize + a.houseCut = Sum(s)
       /\ a.prize * BasisPoints <= Sum(s) * r
       /\ Sum(s) * r < (a.prize + 1) * BasisPoints
  /\ r <= BasisPoints /\ w \in 0..(Len(s) - 1) =>
       /\ a.err = "ErrPotOverflow" <=> Sum(s) > MaxUint64
       /\ a.err = "ErrPrizeOverflow" <=> Sum(s) <= MaxUint64 /\ Sum(s) * r > MaxUint64

LEMMA SettleExact ==
  ASSUME NEW r \in Nat, NEW s \in Seq(Word), NEW w
  PROVE  ExactAnswer(Settle(r, s, w), r, s, w)
<1> DEFINE S == Sum(s)
           a == Settle(r, s, w)
<1>0. MaxUint64 \in Nat /\ BasisPoints \in Nat /\ Len(s) \in Nat
  BY MaxUint64Assumption, BasisPointsAssumption
<1>1. S \in Nat /\ (PotOverflows(s) <=> S > MaxUint64) /\ (S <= MaxUint64 => Total(s) = S)
  BY PotGuardExact
<1>2. S <= MaxUint64 => (PrizeOverflows(Total(s), r) <=> S * r > MaxUint64)
  BY <1>1, PrizeGuardExact
<1>3. a.err = SettleError(r, s, w)
  BY DEF Settle
<1> HIDE DEF S
<1>4. S * r \in Nat
  BY <1>1
<1>5. ASSUME a.err = "nil"
      PROVE  /\ a.prize + a.houseCut = S
             /\ a.prize * BasisPoints <= S * r
             /\ S * r < (a.prize + 1) * BasisPoints
  <2>1. r \in 0..BasisPoints /\ S <= MaxUint64 /\ S * r <= MaxUint64
    <3>1. r <= BasisPoints /\ ~PotOverflows(s) /\ ~PrizeOverflows(Total(s), r)
      BY <1>0, <1>3, <1>5 DEF SettleError
    <3> QED
      BY <1>0, <1>1, <1>2, <1>4, <3>1
  <2>2. S \in Word /\ Total(s) = S
    BY <1>0, <1>1, <2>1 DEF Word
  <2> DEFINE z == PrizeOf(S, r)
  <2>3. z \in Nat /\ z <= S /\ z * BasisPoints <= S * r /\ S * r < (z + 1) * BasisPoints /\ Wrap(S - z) = S - z
    BY <2>1, <2>2, PrizeExact
  <2>4. a.prize = z /\ a.houseCut = S - z
    BY <1>3, <1>5, <2>2, <2>3 DEF Settle
  <2> HIDE DEF z, a
  <2>5. a.prize + a.houseCut = S
    BY <1>1, <2>3, <2>4
  <2> QED
    BY <2>3, <2>4, <2>5
<1>6. ASSUME r <= BasisPoints, w \in 0..(Len(s) - 1)
      PROVE  /\ a.err = "ErrPotOverflow" <=> S > MaxUint64
             /\ a.err = "ErrPrizeOverflow" <=> S <= MaxUint64 /\ S * r > MaxUint64
  <2>1. ~(r > BasisPoints) /\ s # <<>> /\ ~OutsideField(s, w)
    BY <1>0, <1>6 DEF OutsideField
  <2>2. a.err = IF PotOverflows(s) THEN "ErrPotOverflow"
                ELSE IF PrizeOverflows(Total(s), r) THEN "ErrPrizeOverflow"
                ELSE "nil"
    BY <1>3, <2>1 DEF SettleError
  <2>3. S <= MaxUint64 <=> ~(S > MaxUint64)
    BY <1>0, <1>1
  <2> HIDE DEF a
  <2> QED
    BY <1>1, <1>2, <2>2, <2>3
<1> QED
  BY <1>5, <1>6 DEF ExactAnswer, S
=============================================================================
