-------------------------------- MODULE Rtp ---------------------------------
(***************************************************************************)
(* server/rtp: how the pot of a round is split between the winner and the  *)
(* house.  Settle is a pure function; RoundSettle puts every bounded call  *)
(* of it to TLC, which compares the answers with exact arithmetic.         *)
(***************************************************************************)
EXTENDS Uint64, Sequences

CONSTANT BasisPoints        \* the denominator of the RTP, 10_000 in the program

ASSUME BasisPointsAssumption == BasisPoints \in Nat \ {0}

\* The running total of the pot: PotAfter(s)[i] is the sum of the first i buy-ins.
PotAfter(buyIns) ==
  LET pot[i \in 0..Len(buyIns)] ==
        IF i = 0 THEN 0 ELSE Wrap(pot[i - 1] + buyIns[i])
  IN  pot

Total(buyIns) == PotAfter(buyIns)[Len(buyIns)]

\* The guard of the summing loop, total > MaxUint64 - b, at some buy-in.
PotOverflows(buyIns) ==
  \E i \in 1..Len(buyIns) : PotAfter(buyIns)[i - 1] > MaxUint64 - buyIns[i]

\* A wrong guard, off by one.
OverflowsAtLimit(total, bps) == bps > 0 /\ total >= MaxUint64 \div bps

\* The guard of the multiplication, total > MaxUint64 / bps.
PrizeOverflows(total, bps) == bps > 0 /\ total > MaxUint64 \div bps

\* Rounded down; the remainder stays with the house.
PrizeOf(total, bps) == Wrap(total * bps) \div BasisPoints

OutsideField(buyIns, winner) == winner \notin 0..(Len(buyIns) - 1)

\* The first error Settle meets, in the order of its checks.
SettleError(bps, buyIns, winner) ==
  IF bps > BasisPoints THEN "ErrRTPOutOfRange"
  ELSE IF buyIns = <<>> THEN "ErrNoBuyIns"
  ELSE IF OutsideField(buyIns, winner) THEN "ErrWinnerIndex"
  ELSE IF PotOverflows(buyIns) THEN "ErrPotOverflow"
  ELSE IF PrizeOverflows(Total(buyIns), bps) THEN "ErrPrizeOverflow"
  ELSE "nil"

Settle(bps, buyIns, winner) ==
  LET err   == SettleError(bps, buyIns, winner)
      prize == PrizeOf(Total(buyIns), bps)
  IN  IF err = "nil"
      THEN [err |-> err, prize |-> prize, houseCut |-> Wrap(Total(buyIns) - prize)]
      ELSE [err |-> err, prize |-> 0, houseCut |-> 0]
=============================================================================
