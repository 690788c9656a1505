----------------------------- MODULE Simulator -----------------------------
(***************************************************************************)
(* The offline simulator (packages/simulator): the house agents priced     *)
(* against simulated bettors over whole matches, one after the other, with *)
(* what an agent learned carried along; and every hold an agent would have *)
(* sold, used at its end.  A draw of the random generator is a choice.     *)
(* Stakes are whole nUSD.                                                  *)
(***************************************************************************)
EXTENDS MatchData, Quoting, Totals, FiniteSetsExt

CONSTANTS
    SimMatches,         \* the matches' events, in the order they are run
    SimAgents,          \* the house agents
    InitialVault,       \* INITIAL_VAULT_BALANCE
    MaxExposureBps,     \* MAX_MARKET_EXPOSURE_BPS
    SimCadence, SimConcurrent,      \* cadenceSec and maxConcurrent
    CasualStakes, SharpStakes, SniperStake,
    SniperLeads,
    BuyEvery,           \* seconds between the holds bought
    Moments,            \* bound: seconds at which bettors come
    MaxArrivals         \* bound: bettors of a run

NormalizedEvents == [type : EventTypes, teamId : Int, period : Periods,
                     periodSec : Nat, matchClockSec : Nat]

Strategies == [margin : Nat, lookback : Nat, prior : Nat \ {0}, trust : Nat,
               maxStake : Nat, expirySec : Nat]

ASSUME SimAssumption ==
    /\ SimMatches \in Seq(Seq(NormalizedEvents)) /\ SimMatches # <<>>
    /\ SimAgents \in Seq(Strategies)
    /\ InitialVault \in Nat /\ MaxExposureBps \in Nat /\ SimCadence \in Nat \ {0}
    /\ CasualStakes \cup SharpStakes \cup {SniperStake} \subseteq Nat

VARIABLES
    sim,        \* the match being run
    holds       \* the row of holds being worked out, or NoRow

simVars == <<sim, holds>>

DelaySec == 8
LearnEverySec == 600
SharpEdgeBps == 400
Templated == <<"SHOT_ON_TARGET_NEXT_N", "CORNER_NEXT_N", "CARD_NEXT_N", "GOAL_NEXT_N">>

-----------------------------------------------------------------------------
(* The schedule *)

\* One of the seconds at which a market may open.
ScheduleTick(acc, n, matchEnd) ==
    LET t == (n - 1) * SimCadence
        open == {i \in DOMAIN acc.markets : /\ acc.markets[i].windowStart <= t
                                            /\ acc.markets[i].windowEnd > t}
        template == (acc.turn % Len(TemplateNames)) + 1
        market == [template |-> template, windowStart |-> t,
                   windowEnd |-> t + TemplateWindowSec[template]]
    IN  IF Cardinality(open) >= SimConcurrent THEN acc
        ELSE [turn |-> acc.turn + 1,
              markets |-> IF market.windowEnd > matchEnd THEN acc.markets
                          ELSE Append(acc.markets, market)]

ScheduleMarkets(matchEnd) ==
    LET ticks == (matchEnd + SimCadence - 1) \div SimCadence
        after[n \in 0..ticks] == IF n = 0 THEN [turn |-> 0, markets |-> <<>>]
                                 ELSE ScheduleTick(after[n - 1], n, matchEnd)
    IN  after[ticks].markets

\* The latest match clock of the events.
Latest(x, y) == IF x > y THEN x ELSE y
MatchEnd(events) ==
    LET latest[i \in 0..Len(events)] ==
            IF i = 0 THEN 0
            ELSE Latest(latest[i - 1], events[i].matchClockSec)
    IN  latest[Len(events)]

MarketsOf ==
    [match \in DOMAIN SimMatches |-> ScheduleMarkets(MatchEnd(SimMatches[match]))]

-----------------------------------------------------------------------------
(* A vault *)

SimVault(match) == [assets |-> InitialVault, locked |-> 0,
                    exposure |-> [m \in DOMAIN MarketsOf[match] |-> 0]]

FreeCapital(v) == IF v.assets > v.locked THEN v.assets - v.locked ELSE 0
ExposureCap(v) == (v.assets * MaxExposureBps) \div BPS
QuotableBudget_FreeOnly(v, m) == FreeCapital(v)
QuotableBudget(v, m) ==
    Least(FreeCapital(v),
          IF ExposureCap(v) > v.exposure[m] THEN ExposureCap(v) - v.exposure[m] ELSE 0)

\* What lockLiability throws on.
LockRefused(v, m, liability) ==
    \/ liability > FreeCapital(v)
    \/ v.exposure[m] + liability > ExposureCap(v)
LockLiability(v, m, liability) ==
    [v EXCEPT !.locked = @ + liability, !.exposure[m] = @ + liability]
Release(v, m, liability) ==
    [v EXCEPT !.locked = @ - liability, !.exposure[m] = @ - liability]
SettleWon(v, m, liability, stake) ==
    [Release(v, m, liability) EXCEPT !.assets = @ + stake]
SettleLost(v, m, liability) ==
    [Release(v, m, liability) EXCEPT !.assets = @ - liability]

-----------------------------------------------------------------------------
(* What an agent learns, by market type *)

BlankMemory == [lastBetId |-> 0, adj |-> [t \in DOMAIN TemplateNames |-> 0]]

Learn(memory, settled) ==
    LET fresh == {b \in settled : b.id > memory.lastBetId}
        Of(t) == {b \in fresh : b.template = t}
        pnl(t) == FoldSet(LAMBDA b, sum : sum + b.agentPnl, 0, Of(t))
    IN  IF fresh = {} THEN memory
        ELSE [lastBetId |-> Max({b.id : b \in fresh}),
              adj |-> [t \in DOMAIN TemplateNames |->
                  CASE Cardinality(Of(t)) < 2 \/ pnl(t) = 0 -> memory.adj[t]
                    [] pnl(t) < 0 -> Least(500, memory.adj[t] + 100)
                    [] OTHER -> Clamp(memory.adj[t] - 25, -100, 500)]]

-----------------------------------------------------------------------------
(* The book of a market *)

\* An event that would decide the market is about to come, or just came.
InDanger_JustCame(events, template, at) ==
    \E i \in DOMAIN events :
        /\ events[i].type \in QualifyingEvents[template]
        /\ events[i].matchClockSec > at - DangerCooldownRealSec
        /\ events[i].matchClockSec <= at
InDanger(events, template, at) ==
    \E i \in DOMAIN events :
        /\ events[i].type \in QualifyingEvents[template]
        /\ events[i].matchClockSec > at - DangerCooldownRealSec
        /\ events[i].matchClockSec <= at + DangerLeadRealSec

\* What an agent prices a market at, or NoPrice while it is paused or decided.
NoPrice == [probYesBps |-> 0, probNoBps |-> 0]
PriceAt(events, market, agent, adj, at) ==
    LET window == LiveWindow(events, market.template, market.windowStart,
                             market.windowEnd, at, AnyTeam)
        recent == IF agent.lookback = 0 THEN 0
                  ELSE CountRecentQualifying(events, market.template, at,
                                             agent.lookback, AnyTeam)
    IN  IF \/ InDanger(events, market.template, at)
           \/ window.decided \/ window.remainingSec = 0
        THEN NoPrice
        ELSE Price(agent, [template |-> Templated[market.template], teamFilter |-> AnyTeam,
                           recent |-> recent, left |-> window.remainingSec,
                           reading |-> NoReading, adj |-> adj])

Events(s) == SimMatches[s.match]
Markets(s) == MarketsOf[s.match]

\* priceMarket: every agent's quote of market m in the run's state s, or none.
BookAt(s, m, at) ==
    LET market == Markets(s)[m]
        Quoted(a) ==
            LET price == PriceAt(Events(s), market, SimAgents[a],
                                 s.memories[a].adj[market.template], at)
            IN  [agent |-> a, probYesBps |-> price.probYesBps, probNoBps |-> price.probNoBps,
                 maxStake |-> IF price = NoPrice THEN 0
                              ELSE QuoteMaxStake(QuotableBudget(s.vaults[a], m),
                                                 price.probYesBps, price.probNoBps,
                                                 SimAgents[a].maxStake)]
        quotes == [a \in DOMAIN SimAgents |-> Quoted(a)]
    IN  Among(quotes, {q \in Range(quotes) : q.probYesBps > 0})

\* The lowest with capacity left, or 0.
BestProbBps(book, side) ==
    LET offered == {SidePrice(q, side) : q \in {p \in Range(book) : p.maxStake > 0}}
    IN  IF offered = {} THEN 0 ELSE Min(offered)

-----------------------------------------------------------------------------
(* The bettors of a market *)

Resolution(events, market) ==
    ResolveMarket(events, market.template, market.windowStart, market.windowEnd, AnyTeam)
Seconds(market) == market.windowStart..(market.windowEnd - 1)
Playing(market) == Moments \cap Seconds(market)
Priced(s, m) == BestProbBps(BookAt(s, m, Markets(s)[m].windowStart), "yes") > 0

\* If the market opened with a price: on either side, at any time.
Casuals(s, m) ==
    IF ~Priced(s, m) THEN {}
    ELSE [type : {"casual"}, side : Sides, stake : CasualStakes, at : Playing(Markets(s)[m])]

\* On the side a livelier model finds underpriced when it looks.
SharpEdges(s, m, at) ==
    LET market == Markets(s)[m]
        recent == CountRecentQualifying(Events(s), market.template, at, 45, AnyTeam)
        rate == BlendedRate(BaseRate(Templated[market.template], AnyTeam), recent, 45, 90)
        come == \E e \in Range(Events(s)) :
                    /\ e.matchClockSec \in market.windowStart..(at - 1)
                    /\ e.type \in QualifyingEvents[market.template]
        trueYes == IF come THEN BPS ELSE PoissonProbability(rate, market.windowEnd - at)
        Over(p, best) == IF best = 0 THEN -BPS ELSE p - best
        Edges(p, book) == [yes |-> Over(p, BestProbBps(book, "yes")),
                           no |-> Over(BPS - p, BestProbBps(book, "no"))]
    IN  Edges(trueYes, BookAt(s, m, at))
Sharps(s, m) ==
    LET Bets(at, edges) ==
            LET side == IF edges.yes >= edges.no THEN "yes" ELSE "no"
            IN  IF edges[side] < SharpEdgeBps THEN {}
                ELSE [type : {"sharp"}, side : {side}, stake : SharpStakes, at : {at}]
    IN  UNION {Bets(at, SharpEdges(s, m, at)) : at \in Playing(Markets(s)[m])}

\* So many seconds before the event it knows to be coming.
Snipers(s, m) ==
    LET market == Markets(s)[m]
        known == Resolution(Events(s), market)
        at(lead) == IF known.qualifyingEventTs - lead < market.windowStart
                    THEN market.windowStart ELSE known.qualifyingEventTs - lead
    IN  IF known.outcome # "Yes" \/ ~Priced(s, m) THEN {}
        ELSE {[type |-> "sniper", side |-> "yes", stake |-> SniperStake, at |-> at(lead)] :
              lead \in {l \in SniperLeads : at(l) \in Seconds(market)}}

\* In the order they come; of two that come at once, either is the first.
InOrder(crowd) ==
    {arrivals \in [1..Cardinality(crowd) -> crowd] :
        /\ Range(arrivals) = crowd
        /\ \A i, j \in DOMAIN arrivals : i < j => arrivals[i].at <= arrivals[j].at}

\* Bound: one or two of them come to a market, or nobody.
Crowds(s, m) ==
    LET bettors == Casuals(s, m) \cup Sharps(s, m) \cup Snipers(s, m)
    IN  {crowd \in {{}} \cup {{b, c} : b, c \in bettors} :
            /\ Cardinality(crowd) + s.arrived <= MaxArrivals
            /\ Cardinality({b \in crowd : b.type = "sharp"}) <= 1}

-----------------------------------------------------------------------------
(* A match *)

NewMatch(match, memories, arrived) ==
    [match |-> match, memories |-> memories, arrived |-> arrived,
     market |-> 0, arrivals |-> <<>>, lastLearnAt |-> 0, nextBetId |-> 1,
     vaults |-> [a \in DOMAIN SimAgents |-> SimVault(match)],
     toLearn |-> [a \in DOMAIN SimAgents |-> {}],
     bets |-> <<>>, thrown |-> FALSE]

NoRow == [holds |-> -1]

SimInit ==
    /\ sim = NewMatch(1, [a \in DOMAIN SimAgents |-> BlankMemory], 0)
    /\ holds = NoRow

\* When it is time, the agents learn from the bets whose market has settled.
Taught(s, now) ==
    LET Due(a) == {b \in s.toLearn[a] : b.settlesAt <= now}
    IN  IF now - s.lastLearnAt < LearnEverySec THEN s
        ELSE [s EXCEPT
                !.lastLearnAt = now,
                !.memories = [a \in DOMAIN SimAgents |-> Learn(@[a], Due(a))],
                !.toLearn = [a \in DOMAIN SimAgents |-> @[a] \ Due(a)]]

Ready == sim.arrivals = <<>> /\ ~sim.thrown

OpenMarket ==
    /\ Ready
    /\ \E m \in DOMAIN Markets(sim) \cap {sim.market + 1} :
          \E s \in {Taught(sim, Markets(sim)[m].windowStart)} :
              \E crowd \in Crowds(s, m) :
                  \E arrivals \in InOrder(crowd) :
                      sim' = [s EXCEPT !.market = m, !.arrived = @ + Len(arrivals),
                                       !.arrivals = arrivals]
    /\ UNCHANGED holds

\* The best three quotes for a side: cheapest first, and in the book's order.
Ranked(book, side) ==
    LET price(i) == SidePrice(book[i], side)
        Ahead(i, j) == price(i) < price(j) \/ (price(i) = price(j) /\ i < j)
        order == [r \in DOMAIN book |->
                     CHOOSE i \in DOMAIN book :
                         Cardinality({j \in DOMAIN book : Ahead(j, i)}) = r - 1]
    IN  [r \in 1..Least(3, Len(book)) |-> book[order[r]]]

\* fillArrival: what the agents take of a bet, by rank.  The ladder keeps the
\* weights of three rungs when there are fewer.
FillsFrom(quotes, caps, arrival) ==
    LET stake == Least(arrival.stake, SumTo(caps, Len(caps)))
        split == LadderAllocate(stake, caps, SubSeq(LadderFor(3), 1, Len(quotes))).stakes
        taken == [r \in DOMAIN quotes |->
                    [agent |-> quotes[r].agent, stake |-> split[r],
                     liability |-> LiabilityFor(split[r], SidePrice(quotes[r], arrival.side))]]
    IN  Among(taken, {f \in Range(taken) : f.stake > 0})
FillsOf(s, quotes, arrival) ==
    FillsFrom(quotes,
              [r \in DOMAIN quotes |->
                  Least(quotes[r].maxStake,
                        MaxStakeOf(QuotableBudget(s.vaults[quotes[r].agent], s.market),
                                   SidePrice(quotes[r], arrival.side)))],
              arrival)
Fills(s, arrival) ==
    FillsOf(s, Ranked(BookAt(s, s.market, arrival.at), arrival.side), arrival)

\* A bet that the settlement delay catches; a bet of a run is voided for it
\* unless the event has no time.
TooLate(resolution, at) ==
    resolution.outcome = "Yes" /\ at + DelaySec > resolution.qualifyingEventTs
Voids(resolution, at) ==
    resolution.qualifyingEventTs # 0 /\ TooLate(resolution, at)

OutcomeOf(resolution, side, voided) ==
    CASE voided -> "voided"
      [] ~voided /\ (side = "yes") = (resolution.outcome = "Yes") -> "won"
      [] OTHER -> "lost"

\* A lock, and at once its settlement: no liability outlasts the bet's arrival.
Settled(v, m, fill, outcome) ==
    LET locked == LockLiability(v, m, fill.liability)
    IN  CASE outcome = "voided" -> Release(locked, m, fill.liability)
          [] outcome = "won" -> SettleLost(locked, m, fill.liability)
          [] OTHER -> SettleWon(locked, m, fill.liability, fill.stake)

PnlOf(fill, outcome) == CASE outcome = "lost" -> fill.stake
                          [] outcome = "won" -> -fill.liability
                          [] OTHER -> 0

\* What the vaults come to by the fills of a bet, one after the other.
Booked(vaults, m, fills, outcome) ==
    LET after[i \in 0..Len(fills)] ==
            IF i = 0 THEN vaults
            ELSE [after[i - 1] EXCEPT
                    ![fills[i].agent] = Settled(@, m, fills[i], outcome)]
    IN  after[Len(fills)]

Struck(market, fills, outcome) ==
    LET Mine(a) == {i \in DOMAIN fills : fills[i].agent = a}
        bets == [i \in DOMAIN fills |->
                    [agent |-> fills[i].agent, stake |-> fills[i].stake, outcome |-> outcome,
                     payout |-> CASE outcome = "voided" -> fills[i].stake
                                  [] outcome = "won" -> fills[i].stake + fills[i].liability
                                  [] OTHER -> 0]]
        lessons(a) == {[id |-> sim.nextBetId + i - 1, template |-> market.template,
                        agentPnl |-> PnlOf(fills[i], outcome), settlesAt |-> market.windowEnd] :
                       i \in Mine(a)}
    IN  IF \E i \in DOMAIN fills :
               LockRefused(sim.vaults[fills[i].agent], sim.market, fills[i].liability)
        THEN sim' = [sim EXCEPT !.thrown = TRUE, !.arrivals = <<>>]
        ELSE sim' = [sim EXCEPT
                !.arrivals = Tail(@),
                !.vaults = Booked(@, sim.market, fills, outcome),
                !.toLearn = [a \in DOMAIN SimAgents |-> @[a] \cup lessons(a)],
                !.nextBetId = @ + Len(fills),
                !.bets = @ \o bets]

Arrive ==
    /\ sim.arrivals # <<>>
    /\ \E arrival \in {Head(sim.arrivals)}, market \in {Markets(sim)[sim.market]} :
          \E resolution \in {Resolution(Events(sim), market)} :
              Struck(market, Fills(sim, arrival),
                     OutcomeOf(resolution, arrival.side, Voids(resolution, arrival.at)))
    /\ UNCHANGED holds

\* The next match: new vaults and bets numbered anew, the memories carried.
NextMatch ==
    /\ Ready /\ sim.market = Len(Markets(sim)) /\ sim.match < Len(SimMatches)
    /\ sim' = NewMatch(sim.match + 1, sim.memories, sim.arrived)
    /\ UNCHANGED holds

-----------------------------------------------------------------------------
(* Holds *)

\* sellHold: the price and fee of the hold an agent would sell, or NoPrice.
HoldSold(match, market, agent, side, at) ==
    LET quote == PriceAt(SimMatches[match], market, agent, 0, at)
        left == market.windowEnd - at
        fee == LockFeeBps(side, quote, left, LockHoldSec)
    IN  IF \/ quote = NoPrice
           \/ ~HoldOffered(side, quote, left, LockHoldSec) \/ fee > LockFeeCeilingBps
        THEN NoPrice
        ELSE [probBps |-> SidePrice(quote, side), feeBps |-> fee]

\* At its end a hold is honoured unless the market is paused or decided; a
\* patient fan does not use one on yes.
UsesHold(match, market, population, side, at) ==
    /\ ~InDanger(SimMatches[match], market.template, at)
    /\ ~LiveWindow(SimMatches[match], market.template, market.windowStart,
                   market.windowEnd, at, AnyTeam).decided
    /\ ~(population = "Patient" /\ side = "yes")

\* What the agent makes of the bet, in basis points of its stake.
BetPnlBps(match, market, side, at, probBps) ==
    LET resolution == Resolution(SimMatches[match], market)
        outcome == OutcomeOf(resolution, side, TooLate(resolution, at))
    IN  CASE outcome = "voided" -> 0
          [] outcome = "won" -> BPS - (BPS * BPS) \div probBps
          [] OTHER -> BPS

\* The holds an agent would sell on a side, over the markets of a match.
HoldsSold(match, agent, side) ==
    LET offered == UNION {
            {[market |-> m, at |-> t,
              hold |-> HoldSold(match, MarketsOf[match][m], agent, side, t)] :
             t \in {u \in Seconds(MarketsOf[match][m]) :
                       (u - MarketsOf[match][m].windowStart) % BuyEvery = 0}} :
            m \in DOMAIN MarketsOf[match]}
    IN  {x \in offered : x.hold # NoPrice}
HoldsUsed(match, population, side, sold) ==
    {x \in sold : UsesHold(match, MarketsOf[match][x.market], population, side,
                           x.at + LockHoldSec)}

FeesBps(sold) == MapThenSumSet(LAMBDA x : x.hold.feeBps, sold)
BetsPnlBps(match, side, used) ==
    MapThenSumSet(LAMBDA x : BetPnlBps(match, MarketsOf[match][x.market], side,
                                       x.at + LockHoldSec, x.hold.probBps), used)

SimulateHolds ==
    \E match \in DOMAIN SimMatches, agent \in Range(SimAgents),
      population \in {"Patient", "Casual"}, side \in Sides :
        LET sold == HoldsSold(match, agent, side)
            used == HoldsUsed(match, population, side, sold)
        IN  /\ holds = NoRow /\ sim.market = 0
            /\ holds' = [match |-> match, side |-> side, population |-> population,
                         holds |-> Cardinality(sold), feesBps |-> FeesBps(sold),
                         betPnlBps |-> BetsPnlBps(match, side, used), used |-> used]
            /\ UNCHANGED sim

\* A run of the matches, or a row of the table of holds.
SimNext == \/ holds = NoRow /\ (OpenMarket \/ Arrive \/ NextMatch)
           \/ SimulateHolds

SimSpec == SimInit /\ [][SimNext]_simVars

-----------------------------------------------------------------------------

\* An agent's pause before an event covers the delay after a bet: whoever bets
\* whenever, sharp or knowing what comes, and whenever a hold is used, no bet
\* that is filled is one that settlement would void (inDanger, runMatch,
\* simulateHolds).
PauseCoversDelay ==
    /\ \A b \in Range(sim.bets) : b.outcome # "voided"
    /\ holds # NoRow =>
          \A x \in holds.used :
              ~TooLate(Resolution(SimMatches[holds.match], MarketsOf[holds.match][x.market]),
                       x.at + LockHoldSec)

\* No vault refuses a lock sized for it, which would end the run with an
\* error; and what each vault has gained is what its bettors have lost, with
\* nothing left locked, fill by fill over every market (runMatch, SimVault).
SimulatedBooksBalance ==
    /\ ~sim.thrown
    /\ \A a \in DOMAIN SimAgents :
          LET won == [i \in DOMAIN sim.bets |->
                         IF sim.bets[i].agent = a
                         THEN sim.bets[i].stake - sim.bets[i].payout ELSE 0]
          IN  /\ sim.vaults[a].assets = InitialVault + SumTo(won, Len(sim.bets))
              /\ sim.vaults[a].locked = 0
              /\ \A m \in DOMAIN Markets(sim) : sim.vaults[a].exposure[m] = 0
=============================================================================
