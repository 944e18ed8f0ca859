------------------------------- MODULE Uint64 -------------------------------
(***************************************************************************)
(* Go's 64-bit words, with the width left as a parameter: MaxUint64 is     *)
(* 2^64 - 1 in the program and a small odd number in a model, so that the  *)
(* boundaries of the integer arithmetic are inside the explored space.     *)
(***************************************************************************)
EXTENDS Integers

CONSTANT MaxUint64          \* the largest uint64 (math.MaxUint64)

ASSUME MaxUint64Assumption == MaxUint64 \in Nat /\ MaxUint64 % 2 = 1

Word == 0..MaxUint64

Wrap(n) == n % (MaxUint64 + 1)       \* what unsigned + - * leave in a uint64

MaxInt64 == (MaxUint64 - 1) \div 2

ToInt64(a) == IF a > MaxInt64 THEN a - (MaxUint64 + 1) ELSE a    \* int64(a)

\* -int64(a): the most negative int64 is its own negation.
NegInt64(a) == IF ToInt64(a) = -(MaxInt64 + 1) THEN ToInt64(a) ELSE -ToInt64(a)
=============================================================================
