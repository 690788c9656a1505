------------------------------ MODULE Quoting ------------------------------
(***************************************************************************)
(* What an agent signs, and what a fan is shown of it: the pricing of the  *)
(* three house agents and of an operator's own (packages/core/pricing.ts,  *)
(* agents/strategies, browser-agent.ts), the size of a quote, the fee of a *)
(* held price and the quote that honours it (core/odds-lock.ts), the       *)
(* preview of a bet (bet-preview.ts) and of a cash-out (cash-out.ts), and  *)
(* the ladder they are split with, as the TypeScript twin of OddsMath.sol  *)
(* has it (oddsMath.ts).                                                   *)
(*                                                                         *)
(* Probabilities are basis points.  A rate of events is a count of         *)
(* millionths per second, a multiplier a count of thousandths, both        *)
(* floored where the code keeps a double.                                  *)
(***************************************************************************)
EXTENDS OddsMath, Totals, SequencesExt

CONSTANTS
    ExpNeg(_),      \* e^(-x/1000), in basis points
    NegLog(_),      \* -ln(p), in thousandths, for p in basis points
    Power(_, _),    \* m^(t/4), for a multiplier m in thousandths
    MinProbBps, MaxProbBps,     \* of BetRouter, and of marginedQuote's defaults
    OperatorMargins             \* of the strategies operators registered

ASSUME QuotingBounds ==
    /\ MinProbBps \in 1..BPS /\ MaxProbBps \in 1..(BPS - 1)
    /\ MinProbBps < MaxProbBps
    /\ OperatorMargins \subseteq Nat

Sides == {"yes", "no"}
Clamp(x, lo, hi) == IF x < lo THEN lo ELSE IF x > hi THEN hi ELSE x
Least(x, y) == IF x < y THEN x ELSE y

-----------------------------------------------------------------------------
(* From the state of play to a fair probability *)

\* Events per match, in tenths, over a match of 90 minutes.
PerMatchTenths ==
    [SHOT_ON_TARGET_NEXT_N |-> 90, CORNER_NEXT_N |-> 100,
     CARD_NEXT_N |-> 35, GOAL_NEXT_N |-> 26]
Templates == DOMAIN PerMatchTenths

BaseRate(template, teamFilter) ==
    (PerMatchTenths[template] * 100000) \div
        (IF teamFilter = 0 THEN 5400 ELSE 2 * 5400)

BlendedRate(base, recent, lookback, prior) ==
    (base * prior + recent * 1000000) \div (prior + lookback)

\* A reader's multiplier as one agent takes it: held to half and double, then
\* raised to that agent's trust, in quarters.  NoReading when the reader has
\* none that is fresh.
NoReading == 0
ReaderMultiplier_OutOfRangeIgnored(reading, trust) ==
    IF reading \notin 500..2000 THEN 1000 ELSE Power(reading, trust)
ReaderMultiplier(reading, trust) ==
    IF reading = NoReading THEN 1000 ELSE Power(Clamp(reading, 500, 2000), trust)

\* At least one event of the rate in windowSec seconds.
PoissonProbability(rate, windowSec) ==
    IF windowSec <= 0 THEN 0 ELSE BPS - ExpNeg((rate * windowSec) \div 1000)

-----------------------------------------------------------------------------
(* From a fair probability to a two-sided quote *)

MinMarginBpsOfStrategy == 200

EffectiveMarginBps(base, adj) ==
    IF base + adj > MinMarginBpsOfStrategy THEN base + adj
                                           ELSE MinMarginBpsOfStrategy

\* marginedQuote throws when even two capped sides cannot carry the margin.
MarginReachable(margin) == 2 * MaxProbBps >= BPS + margin

\* The overround is split evenly, each side held to the bounds, and what a
\* clamp takes from one side is given to the other.
MarginedQuote_Clipped(fairYes, margin) ==
    LET yes == fairYes + (margin + 1) \div 2
    IN  [probYesBps |-> Clamp(yes, MinProbBps, MaxProbBps),
         probNoBps |-> Clamp(BPS + margin - yes, MinProbBps, MaxProbBps)]
MarginedQuote(fairYes, margin) ==
    LET required == BPS + margin
        yes == Clamp(fairYes + (margin + 1) \div 2, MinProbBps, MaxProbBps)
        no == Clamp(required - yes, MinProbBps, MaxProbBps)
    IN  [probYesBps |-> Clamp(required - no, MinProbBps, MaxProbBps),
         probNoBps |-> no]

\* The house agents.  lookback 0 is an agent that ignores the state of play;
\* pulse clamps the reading itself, which is the reading taken whole.
Steady == [margin |-> 300, lookback |-> 0, prior |-> 1, trust |-> 1,
           maxStake |-> 25000000, expirySec |-> 5]
Tempo == [margin |-> 250, lookback |-> 300, prior |-> 1200, trust |-> 2,
          maxStake |-> 30000000, expirySec |-> 5]
Pulse == [margin |-> 200, lookback |-> 90, prior |-> 240, trust |-> 4,
          maxStake |-> 50000000, expirySec |-> 5]

\* An operator's own agent, run from its console page at the margin of its
\* strategy: the base rate alone, as steady, and no reading.
Operated(margin, maxStake) ==
    [margin |-> margin, lookback |-> 0, prior |-> 1, trust |-> 0,
     maxStake |-> maxStake, expirySec |-> 5]
HouseAgents == {Steady, Tempo, Pulse}
SigningAgents == HouseAgents \cup {Operated(m, 25000000) : m \in OperatorMargins}

\* state is what the agent knows: template, teamFilter, the qualifying events
\* of its lookback, the seconds left of the window, the reading, and what it
\* has learned to add to its margin.
Rate(agent, state) ==
    LET base == BaseRate(state.template, state.teamFilter)
    IN  IF agent.lookback = 0
        THEN base
        ELSE BlendedRate(base, state.recent, agent.lookback, agent.prior)

FairYes(agent, state) ==
    PoissonProbability(
        (Rate(agent, state) * ReaderMultiplier(state.reading, agent.trust))
            \div 1000,
        state.left)

Price(agent, state) ==
    MarginedQuote(FairYes(agent, state),
                  EffectiveMarginBps(agent.margin, state.adj))

\* The stake a quote can offer from a budget for liability: sized for the
\* side that pays more.  Unlike the Solidity twin, a certain price answers
\* with the budget.
MaxStakeOf(budget, p) ==
    IF p = BPS THEN budget ELSE MulDiv(budget, p, BPS - p)
QuoteMaxStake(budget, yes, no, cap) ==
    Least(MaxStakeOf(budget, Least(yes, no)), cap)

-----------------------------------------------------------------------------
(* A held price *)

LockHoldSec == 30
LockMinHoldRealSec == 10
LockMinTailSec == 30
LockMinProbBps == 400
LockMaxProbBps == 9800
LockFeeCeilingBps == 2500
MaxHoldSeconds == 120
MaxFeeBps == 5000

HoldRealSec(speed) ==
    Clamp((2 * LockHoldSec + speed) \div (2 * speed),
          LockMinHoldRealSec, LockHoldSec)

SidePrice(quote, side) ==
    IF side = "yes" THEN quote.probYesBps ELSE quote.probNoBps

\* No hold is offered on a price outside the lock's bounds, or where too
\* little of the window would be left once it ends.
HoldOffered(side, quote, remaining, holdSec) ==
    /\ SidePrice(quote, side) \in LockMinProbBps..LockMaxProbBps
    /\ remaining >= holdSec + LockMinTailSec

\* What waiting is worth: nothing on yes; on no, betting at the end of the
\* hold only if it stayed quiet.
HoldWorth(side, quote, remaining, holdSec) ==
    LET fairNo == (BPS * quote.probNoBps) \div
                      (quote.probYesBps + quote.probNoBps)
        quiet == ExpNeg((NegLog(fairNo) * holdSec) \div remaining)
        gain == (BPS * fairNo) \div quote.probNoBps - quiet
    IN  IF side = "yes" \/ gain < 0 THEN 0 ELSE gain

LockFeeBps(side, quote, remaining, holdSec) ==
    LET worth == HoldWorth(side, quote, remaining, holdSec)
    IN  100 + (5 * worth + 3) \div 4

\* offerHolds: the offers signed beside a quote, one for each side that has
\* a hold worth selling.
HoldOffers(quote, remaining, speed) ==
    LET holdSec == HoldRealSec(speed) * speed
    IN  {[side |-> side, probBps |-> SidePrice(quote, side),
          feeBps |-> LockFeeBps(side, quote, remaining, holdSec),
          holdSeconds |-> HoldRealSec(speed)] :
         side \in {s \in Sides :
                      /\ HoldOffered(s, quote, remaining, holdSec)
                      /\ LockFeeBps(s, quote, remaining, holdSec)
                            <= LockFeeCeilingBps}}

\* What OddsLock.buy requires of an offer's own terms.
OfferTermsValid(offer) ==
    /\ offer.probBps \in LockMinProbBps..LockMaxProbBps
    /\ offer.holdSeconds \in 1..MaxHoldSeconds
    /\ offer.feeBps \in 1..MaxFeeBps

\* The fee of a hold on stake, rounded up, as the chain charges it too.
LockFeeFor(stake, feeBps) == (stake * feeBps + 9999) \div BPS

\* The prices of the quote that honours a hold: useless for any other bet.
HonouringPrices(side, probBps) ==
    [probYesBps |-> IF side = "yes" THEN probBps ELSE LockMaxProbBps,
     probNoBps |-> IF side = "no" THEN probBps ELSE LockMaxProbBps]

-----------------------------------------------------------------------------
(* The TypeScript ladder, and the preview of a bet *)

LadderFor(n) ==
    CASE n <= 1 -> <<10000>>
      [] n = 2 -> <<6000, 4000>>
      [] OTHER -> <<5000, 3000, 2000>>

\* One rank of a pass: stakes so far and what is left to place.
Take(acc, i, wanted) ==
    [stakes |-> [acc.stakes EXCEPT ![i] = @ + wanted],
     left |-> acc.left - wanted]

\* The ladder's intended shape.
ShapeRung(acc, i, share, cap) == Take(acc, i, Least(Least(share, acc.left), cap))
LadderShape(total, caps, weights) ==
    LET pass[i \in 0..Len(caps)] ==
            IF i = 0 THEN [stakes |-> [j \in 1..Len(caps) |-> 0], left |-> total]
            ELSE ShapeRung(pass[i - 1], i, MulDiv(total, weights[i], BPS), caps[i])
    IN  pass[Len(caps)]

\* And the remainder, into the capacity that is spare.
FillRung(acc, i, cap) == Take(acc, i, Least(cap - acc.stakes[i], acc.left))
LadderAllocate_ShapeOnly(total, caps, weights) ==
    LadderShape(total, caps, weights)
LadderAllocate(total, caps, weights) ==
    LET pass[i \in 0..Len(caps)] ==
            IF i = 0 THEN LadderShape(total, caps, weights)
            ELSE FillRung(pass[i - 1], i, caps[i])
    IN  pass[Len(caps)]

\* previewBet: the best three quotes, the stake cut to what they can fill,
\* split as the router would.  ladderAllocate throws when left is not 0.
PreviewBet(quotes, side, requested) ==
    LET ranked == SubSeq(quotes, 1, Least(Len(quotes), 3))
        caps == [i \in DOMAIN ranked |-> ranked[i].maxStake]
        stake == Least(requested, SumTo(caps, Len(caps)))
        split == LadderAllocate(stake, caps, LadderFor(Len(ranked)))
        payouts == [i \in DOMAIN ranked |->
                       PayoutFor(split.stakes[i], SidePrice(ranked[i], side))]
    IN  IF ranked = <<>> \/ requested = 0
        THEN [fillableStake |-> 0, totalPayout |-> 0, stakes |-> <<>>, left |-> 0]
        ELSE [fillableStake |-> stake, stakes |-> split.stakes, left |-> split.left,
              totalPayout |-> SumTo(payouts, Len(payouts))]

\* cashOutOffer: the cover is a bet on the other side whose payout reaches the
\* held one; each turn of the search keeps a stake that reaches it above one
\* that does not, and as many turns as the held payout are enough.
NoOffer == [coverStake |-> 0]
SearchTurn(at, book, side, held) ==
    LET mid == (at.lo + at.hi) \div 2
    IN  IF at.hi - at.lo <= 1 THEN at
        ELSE IF PreviewBet(book, side, mid).totalPayout >= held
        THEN [lo |-> at.lo, hi |-> mid]
        ELSE [lo |-> mid, hi |-> at.hi]
CoverStake(book, side, held) ==
    LET search[turns \in 0..held] ==
            IF turns = 0 THEN [lo |-> 0, hi |-> held]
            ELSE SearchTurn(search[turns - 1], book, side, held)
    IN  search[held].hi

CoveredBy(stake, payout, held) ==
    IF Least(payout, held) <= stake THEN NoOffer
    ELSE [coverStake |-> stake, coverPayout |-> payout, value |-> Least(payout, held) - stake]

CashOutOffer(book, side, held) ==
    LET Covered(stake) ==
            CoveredBy(stake, PreviewBet(book, side, stake).totalPayout, held)
    IN  IF \/ book = <<>> \/ held = 0
           \/ PreviewBet(book, side, held).fillableStake < held
        THEN NoOffer
        ELSE Covered(CoverStake(book, side, held))

\* placeCashOut: priced again as it is sent, and sent only when it still leaves
\* most of the value shown, with a payout just short of the held one to settle for.
ValueTolerancePct == 97
PlaceCashOut(book, side, held, shownValue) ==
    LET Sent(offer) ==
            IF \/ offer = NoOffer
               \/ offer.value * 100 < shownValue * ValueTolerancePct
               \/ PreviewBet(book, side, offer.coverStake).fillableStake # offer.coverStake
            THEN NoOffer
            ELSE [coverStake |-> offer.coverStake, minPayout |-> (held * 995) \div 1000]
    IN  Sent(CashOutOffer(book, side, held))

\* What is shown of a market's bets (YourBets.tsx): with both sides held, the
\* smaller of what they pay; with one, a cash-out while the market is live and
\* not paused.
CashedOut(position) == position.yes > 0 /\ position.no > 0
LockedIn(position) == Least(position.yes, position.no)
CashOutShown(position, live, paused, book) ==
    LET other == IF position.yes > 0 THEN "no" ELSE "yes"
        held == IF position.yes > 0 THEN position.yes ELSE position.no
    IN  IF CashedOut(position) \/ ~live \/ paused THEN NoOffer
        ELSE CashOutOffer(book, other, held)
=============================================================================
