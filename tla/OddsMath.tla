------------------------------ MODULE OddsMath ------------------------------
(***************************************************************************)
(* The pricing arithmetic of contracts/src/libraries/OddsMath.sol.         *)
(* Probabilities are basis points, amounts are whole base units and every  *)
(* division floors.  A library call that reverts is an operator applied    *)
(* outside the condition named beside it (ProbInRange, ValidQuote,         *)
(* LadderPlaces); callers state that condition as a guard.                 *)
(***************************************************************************)
EXTENDS Integers

CONSTANT MaxUint    \* type(uint256).max, the answer for a price of 100%

ASSUME MaxUintAssumption == MaxUint \in Nat \ {0}

\* Basis-point denominator.
BPS == 10000

\* OpenZeppelin's Math.mulDiv with the default Floor rounding, and with Ceil.
\* The product is taken at full width, so it never overflows.
MulDiv(x, y, d) == (x * y) \div d
MulDivUp(x, y, d) == (x * y + d - 1) \div d

\* OpenZeppelin's Math.min.
Lesser(x, y) == IF x <= y THEN x ELSE y

\* The condition under which the functions of a single price do not revert.
ProbInRange(p) == p > 0 /\ p <= BPS

-----------------------------------------------------------------------------
(* One bet at one price *)

\* Gross return of a winning stake at price p, the stake included.
PayoutFor(stake, p) == MulDiv(stake, BPS, p)

\* What the agent's vault must reserve for that stake.
LiabilityFor(stake, p) == PayoutFor(stake, p) - stake

\* The largest stake at price p whose liability fits in budget.
MaxStakeForLiability(budget, p) ==
    IF p = BPS THEN MaxUint ELSE MulDiv(budget, p, BPS - p)

-----------------------------------------------------------------------------
(* A two-sided quote *)

Overround(yes, no) == IF yes + no > BPS THEN yes + no - BPS ELSE 0

HoldBps(yes, no) ==
    IF yes + no = 0 THEN 0 ELSE MulDiv(Overround(yes, no), BPS, yes + no)

ValidQuote_NoMargin(yes, no, minProb, maxProb, minMargin) ==
    yes \in minProb..maxProb /\ no \in minProb..maxProb
ValidQuote(yes, no, minProb, maxProb, minMargin) ==
    /\ yes \in minProb..maxProb
    /\ no \in minProb..maxProb
    /\ yes + no >= BPS + minMargin

-----------------------------------------------------------------------------
(* Splitting a stake over ranked quotes.  caps and weights are functions   *)
(* on 1..n, best price first.                                              *)

\* First pass, one rank: the weighted share, cut to what is left to place
\* and to the rank's capacity.
RankShare_Uncapped(total, left, cap, weight) ==
    Lesser(MulDiv(total, weight, BPS), left)
RankShare(total, left, cap, weight) ==
    Lesser(Lesser(MulDiv(total, weight, BPS), left), cap)

\* remaining[i] is what the first pass has not placed after i ranks.
FirstPass(total, caps, weights, n) ==
    LET remaining[i \in 0..n] ==
          IF i = 0
          THEN total
          ELSE remaining[i - 1]
                 - RankShare(total, remaining[i - 1], caps[i], weights[i])
    IN  remaining

\* Second pass: remaining[i] is what is unplaced after sweeping the first
\* pass's leftover into the spare capacity of ranks 1..i.
SweepRank(left, spare) == left - Lesser(spare, left)
SecondPass(caps, first, n) ==
    LET remaining[i \in 0..n] ==
          IF i = 0
          THEN first[n]
          ELSE SweepRank(remaining[i - 1], caps[i] - (first[i - 1] - first[i]))
    IN  remaining

\* The stake of every rank, and whether the whole stake found a place:
\* ladderAllocate returns the first and reverts LadderUnfilled otherwise.
LadderStakes(total, caps, weights, n) ==
    LET first == FirstPass(total, caps, weights, n)
        sweep == SecondPass(caps, first, n)
    IN  [i \in 1..n |-> (first[i - 1] - first[i]) + (sweep[i - 1] - sweep[i])]

LadderPlaces(total, caps, weights, n) ==
    SecondPass(caps, FirstPass(total, caps, weights, n), n)[n] = 0
=============================================================================
