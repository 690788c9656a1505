----------------------------- MODULE HeldPrices -----------------------------
(***************************************************************************)
(* A fan's slip on a market an agent quotes: betting at the price shown,   *)
(* buying a hold on it, and betting the hold (web/lib/place-bet.ts,        *)
(* odds-lock.ts, components/BetSlip.tsx), with the agent, the relay and    *)
(* the chain it goes through, a second at a time.                          *)
(***************************************************************************)
EXTENDS AgentRunner

CONSTANTS
    Stake,              \* what the fan stakes
    MaxNow,             \* bound: the last second
    MaxDeals,           \* bound: prices the fan takes, as bets or as holds
    MaxBets,            \* bound: bets struck
    HoldsUntil,         \* bound: the last second a hold is tapped
    ClosesFrom,         \* the first second the scheduler may close the market
    AwaitSec,           \* what a sweep or a pass may take
    MineSec             \* what a transaction may take to be mined

VARIABLES
    slip,               \* the slip's state, and what the fan agreed to
    tx,                 \* the account's transaction in flight, or None
    held                \* the hold the page knows of, a lock, or None

fanVars == <<slip, tx, held>>
vars == <<now, lockVars, relayVars, runnerVars, fanVars>>

IdleSlip == [state |-> "idle"]
FreshQuoteWaitSec == 4
WaitSec == 5
MinQuoteLifeSec == 3        \* MIN_QUOTE_LIFE_MS, in whole seconds

FanInit == slip = IdleSlip /\ tx = None /\ held = None

Fresh(x) == x.expiry - now >= MinQuoteLifeSec
FreshQuotes(quotes) == SelectSeq(quotes, LAMBDA s : Fresh(s.quote))
Terms(quotes) == [i \in DOMAIN quotes |-> quotes[i].quote]

Back == slip' = IdleSlip /\ UNCHANGED <<tx, held>>
Send(t) == /\ tx' = t
           /\ slip' = [state |-> "sent"]
           /\ UNCHANGED held

\* The slip shows the hold in place of the price, while it lasts; the page
\* shows a big moment as it comes.
HoldShown == held # None /\ now < locks[held].heldUntil
BigMoment(t) == InDanger(t)

-----------------------------------------------------------------------------
(* A bet at the price shown: confirm, placeBet, freshFills *)

TapBet ==
    LET shown == PreviewBet(Terms(page.shown.quotes), FanSide, Stake)
    IN  /\ slip = IdleSlip /\ ~HoldShown /\ betCount + Len(locks) < MaxDeals
        /\ shown.fillableStake > 0
        /\ slip' = [state |-> "betting", since |-> now, stake |-> shown.fillableStake,
                    minPayout |-> (shown.totalPayout * 99) \div 100]
        /\ UNCHANGED <<tx, held>>

\* Priced as it is sent, from quotes that will outlive the trip.
FreshFills(stake) ==
    PreviewBet(Terms(FreshQuotes(page.shown.quotes)), FanSide, stake)

SendBet ==
    LET quotes == FreshQuotes(page.shown.quotes)
        fills == FreshFills(slip.stake)
    IN  /\ slip.state = "betting"
        /\ fills.fillableStake = slip.stake
        /\ IF fills.totalPayout < slip.minPayout THEN Back
           ELSE Send([kind |-> "bet", signed |-> quotes[1], side |-> FanSide,
                      stake |-> slip.stake, minPayout |-> slip.minPayout, at |-> now])

-----------------------------------------------------------------------------
(* A hold: holdPrice, buyHold *)

TapHold ==
    /\ slip = IdleSlip /\ ~HoldShown /\ ~BigMoment(now)
    /\ betCount + Len(locks) < MaxDeals
    /\ now <= HoldsUntil
    /\ page.shown.offer # None /\ page.shown.offer.maxStake >= Stake
    /\ slip' = [state |-> "holding", since |-> now, shown |-> page.shown.offer]
    /\ UNCHANGED <<tx, held>>

\* The fee agreed to, and half a percent of the stake.
MaxFee == LockFeeFor(Stake, slip.shown.feeBps) + Stake \div 200

Acceptable(o) ==
    /\ o.probBps * 99 <= slip.shown.probBps * 100
    /\ o.maxStake >= Stake
    /\ LockFeeFor(Stake, o.feeBps) <= MaxFee

\* The offer tapped, or failing that the one on the page now.
SendBuy ==
    LET onHand == SelectSeq(<<slip.shown, page.shown.offer>>,
                            LAMBDA o : o # None /\ Fresh(o))
    IN  /\ slip.state = "holding"
        /\ onHand # <<>>
        /\ IF Acceptable(onHand[1])
           THEN Send([kind |-> "buy", offer |-> onHand[1], stake |-> Stake,
                      maxFee |-> MaxFee, at |-> now])
           ELSE Back

-----------------------------------------------------------------------------
(* A bet at the held price: betAtHeldPrice, betHeld, honouringQuote *)

TapHeld ==
    /\ slip = IdleSlip /\ HoldShown /\ ~BigMoment(now) /\ betCount < MaxBets
    /\ slip' = [state |-> "claiming", since |-> now]
    /\ UNCHANGED <<tx, held>>

SendHeld ==
    LET signed == HoldQuote(held)
        lock == locks[held]
    IN  /\ slip.state = "claiming"
        /\ signed # None /\ Fresh(signed.quote)
        /\ IF PreviewBet(<<signed.quote>>, lock.side, lock.stake).fillableStake # lock.stake
           THEN Back
           ELSE Send([kind |-> "held", signed |-> signed, side |-> lock.side,
                      stake |-> lock.stake, at |-> now,
                      minPayout |-> PayoutFor(lock.stake, lock.probBps)])

\* No quote that would outlive the trip, for as long as the slip waits.
WaitOver ==
    \/ slip.state = "betting" /\ now > slip.since + FreshQuoteWaitSec
    \/ slip.state \in {"holding", "claiming"} /\ now > slip.since + WaitSec
GiveUp == WaitOver /\ Back

\* A waiting slip looks several times a second: what would live a second more
\* than it asks for is not left for the next.
Plenty(x) == x # None /\ x.expiry - now > MinQuoteLifeSec
SlipDue ==
    \/ WaitOver
    \/ /\ slip.state = "betting" /\ page.shown.quotes # <<>>
       /\ Plenty(page.shown.quotes[1].quote)
       /\ FreshFills(slip.stake).fillableStake = slip.stake
    \/ /\ slip.state = "holding"
       /\ Plenty(slip.shown) \/ Plenty(page.shown.offer)
    \/ /\ slip.state = "claiming" /\ HoldQuote(held) # None
       /\ Plenty(HoldQuote(held).quote)

-----------------------------------------------------------------------------
(* sendTx: mined within moments, as success or as a revert *)

Mined ==
    CASE tx.kind = "buy" /\ CanBuy(tx) -> Buy(tx)
      [] tx.kind # "buy" /\ CanStrike(tx) -> Strike(tx)
      [] OTHER -> UNCHANGED <<locks, strikeVars>>

Mine ==
    /\ tx # None
    /\ Mined
    /\ tx' = None
    /\ slip' = IdleSlip
    /\ held' = CASE tx.kind = "buy" /\ CanBuy(tx) -> Len(locks) + 1
                 [] tx.kind = "held" /\ CanStrike(tx) -> None
                 [] OTHER -> held
    /\ UNCHANGED incidents

\* Mined, but the wait for its receipt failed: the slip shows an error, and
\* the hold it meant to end stays.
MineReceiptLost ==
    /\ tx # None
    /\ Incident
    /\ Mined
    /\ tx' = None
    /\ slip' = IdleSlip
    /\ UNCHANGED held

FanStep ==
    \/ TapBet \/ SendBet \/ TapHold \/ SendBuy \/ TapHeld \/ SendHeld \/ GiveUp

-----------------------------------------------------------------------------

CloseMarket ==
    /\ market = "Open" /\ now >= ClosesFrom
    /\ market' = "Closed"
    /\ UNCHANGED <<event, locks, strikeVars>>

\* A second goes by, once everything due within it is done: the timers of the
\* agent and of the relay's sweep go off on the next.
Tick ==
    /\ now < MaxNow
    /\ \A s \in Slots : sweeps[s] # Idle => now < sweeps[s].at + AwaitSec
    /\ pass # Idle => now < pass.at + AwaitSec
    /\ tx # None => now < tx.at + MineSec
    /\ ~SlipDue
    /\ page.asked \/ page.rest # None => now < AwaitSec
    /\ now' = now + 1
    /\ Timers(now')
    /\ IF now' % RelaySweepSec = 0 THEN SweepExpired(now')
       ELSE UNCHANGED <<book, offerBook, holdBook>>
    /\ Forget(now')
    /\ UNCHANGED <<page, event, market, heldStake, betCount, fanVars>>

Init == LockInit /\ RelayInit /\ RunnerInit /\ FanInit

Next ==
    \/ Tick
    \/ RunnerStep /\ UNCHANGED <<now, lockVars, fanVars>>
    \/ FanStep /\ UNCHANGED <<now, lockVars, relayVars, runnerVars>>
    \/ /\ Mine \/ MineReceiptLost
       /\ UNCHANGED <<now, event, market, relayVars, sweeps, holds, highestLockIdSeen, pass>>
    \/ CloseMarket /\ UNCHANGED <<now, relayVars, runnerVars, fanVars>>
    \/ /\ RestAnswer(FanSide) \/ RestArrives
       /\ UNCHANGED <<now, lockVars, runnerVars, fanVars>>
    \/ /\ Incident /\ RelayRestart
       /\ UNCHANGED <<now, lockVars, sweeps, holds, highestLockIdSeen, pass, fanVars>>

Spec == Init /\ [][Next]_vars

-----------------------------------------------------------------------------

\* A bet that stands was struck on a quote signed before the warning of the
\* event reached the agent that signed it, unless the agent was pricing blind:
\* a pause and the bet-delay rule together leave no bet on news (server.ts
\* DANGER_LEAD_REAL_SEC, runner.ts quoteMarket and honourHolds).
PricedBeforeWarning ==
    [][betCount' > betCount /\ event.decides /\ ~Voided(now) /\ ~tx.signed.blind
          => tx.signed.at <= event.at - LeadSec + AwaitSec]_vars

\* A hold is never bet more than once over (runner.ts honourHolds): the quotes
\* that honour a lock fill no more than the stake it holds.
HeldBetOnce == \A id \in DOMAIN locks : heldStake[id] <= locks[id].stake

\* A lock the agent has marked as seen it goes on honouring until the lock is
\* bet in full, is over, or its market is (runner.ts discoverHolds marks by
\* count): whatever was sold while the count was read is not passed over.
SeenIsHonoured ==
    \A id \in 1..highestLockIdSeen :
        \/ id \in DOMAIN holds
        \/ heldStake[id] >= locks[id].stake
        \/ now >= locks[id].heldUntil \/ market # "Open"
=============================================================================
