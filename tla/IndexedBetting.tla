--------------------------- MODULE IndexedBetting ---------------------------
(***************************************************************************)
(* The betting core with the rows the indexer keeps of it                  *)
(* (indexer/src/EventHandlers.ts), which the leaderboard, the vault and    *)
(* the bets of every screen are read from.  A transaction logs its events; *)
(* here the indexer has handled them by the next one, so the rows are what *)
(* it shows once it has caught up (how far it trails is Indexer's and      *)
(* SettlementWatcher's).  Times, block numbers and what only ever adds up  *)
(* (deposited, withdrawn, fees charged) are left out.                      *)
(***************************************************************************)
EXTENDS Betting, SequencesExt, FiniteSetsExt

CONSTANTS
    HoldFees,       \* fees OddsLock may pay into a vault
    MaxGifts        \* bound: plain transfers into vaults, announced or not

ASSUME HoldFeesAssumption == HoldFees \subseteq Nat

VARIABLES
    row,            \* the tables: agent, vault, position, market, bet
    fees, gifts     \* paid into each vault, with and without an event

indexVars == <<row, fees, gifts>>
allVars == <<vars, indexVars>>

AgentRow(op, signer) ==
    [operator |-> op, quoteSigner |-> signer, enabled |-> TRUE, volume |-> 0,
     betsWon |-> 0, betsLost |-> 0, betsVoided |-> 0, holdFees |-> 0]
VaultRow == [totalAssets |-> 0, totalSupply |-> 0, lockedLiability |-> 0,
             realizedPnl |-> 0, pnlDeltas |-> <<>>]    \* its snapshots, in turn
NoRows == [agent |-> <<>>, vault |-> <<>>, position |-> <<>>, match |-> {},
           market |-> <<>>, bet |-> <<>>]

-----------------------------------------------------------------------------
(* The handlers.  An event about something without a row is passed over.   *)

HasRow(table, id) == id \in DOMAIN table
\* set: a new row, or one that replaces the row of that id.
Set(table, id, r) == (id :> r) @@ table

VaultHandled(v, e) ==
    CASE e.event = "LiabilityLocked" -> [v EXCEPT !.lockedLiability = e.lockedTotal]
      [] e.event = "LiabilitySettled" ->
           [v EXCEPT !.lockedLiability = e.lockedTotal, !.totalAssets = @ + e.pnl,
                     !.realizedPnl = @ + e.pnl, !.pnlDeltas = Append(@, e.pnl)]
      [] e.event = "LockBought" ->
           [v EXCEPT !.totalAssets = @ + e.fee, !.realizedPnl = @ + e.fee,
                     !.pnlDeltas = Append(@, e.fee)]
      [] e.event = "Deposit" -> [v EXCEPT !.totalAssets = @ + e.assets]
      [] e.event = "Withdraw" -> [v EXCEPT !.totalAssets = @ - e.assets]
      [] e.event = "Transfer" /\ e.from = None -> [v EXCEPT !.totalSupply = @ + e.value]
      [] e.event = "Transfer" /\ e.to = None -> [v EXCEPT !.totalSupply = @ - e.value]
      [] OTHER -> v

\* A share Transfer: from's position is written before to's is read.
Shares(positions, a, u) ==
    IF HasRow(positions, <<a, u>>) THEN positions[<<a, u>>] ELSE 0
Moved(positions, a, u, change) ==
    IF u = None THEN positions
    ELSE Set(positions, <<a, u>>, Shares(positions, a, u) + change)
PositionsHandled_ReadTogether(positions, e) ==
    Moved(positions, e.agent, e.from, -e.value)
        @@ Moved(positions, e.agent, e.to, e.value)
PositionsHandled(positions, e) ==
    Moved(Moved(positions, e.agent, e.from, -e.value), e.agent, e.to, e.value)

\* An agent wins what its fan loses.
AgentHandled(a, e) ==
    CASE e.event = "QuoteSignerUpdated" -> [a EXCEPT !.quoteSigner = e.signer]
      [] e.event = "AgentEnabledSet" -> [a EXCEPT !.enabled = e.enabled]
      [] e.event = "BetPlaced" -> [a EXCEPT !.volume = @ + e.stake]
      [] e.event = "BetSettled" /\ e.status = "Won" -> [a EXCEPT !.betsLost = @ + 1]
      [] e.event = "BetSettled" /\ e.status = "Lost" -> [a EXCEPT !.betsWon = @ + 1]
      [] e.event = "BetSettled" /\ e.status = "Voided" -> [a EXCEPT !.betsVoided = @ + 1]
      [] e.event = "LockBought" -> [a EXCEPT !.holdFees = @ + e.fee]
      [] OTHER -> a

MatchHandled(ids, e) == ids \cup {e.match}

MarketHandled(m, e) ==
    CASE e.event = "MarketSuspended" -> [m EXCEPT !.state = "Suspended"]
      [] e.event = "MarketResumed" -> [m EXCEPT !.state = "Open"]
      [] e.event = "MarketClosed" -> [m EXCEPT !.state = "Closed"]
      [] e.event = "MarketResolved" ->
           [m EXCEPT !.state = "Resolved", !.outcome = e.outcome,
                     !.qualifyingEventTs = e.qualifyingEventTs]
      [] e.event = "MarketVoided" -> [m EXCEPT !.state = "Voided", !.outcome = "Void"]
      [] OTHER -> m

BetHandled(b, e) ==
    CASE e.event = "BetSettled" -> [b EXCEPT !.status = e.status]
      [] e.event = "BetVoidedBySniperRule" -> [b EXCEPT !.voidedBySniperRule = TRUE]
      [] e.event = "BetClaimed" -> [b EXCEPT !.claimedAmount = e.amount]
      [] OTHER -> b

OpenedRow(e) == [match |-> e.match, closesAt |-> e.closesAt, state |-> "Open",
                 outcome |-> "Unresolved", qualifyingEventTs |-> 0]
PlacedRow(e) == [market |-> e.market, bettor |-> e.bettor, agent |-> e.agent,
                 side |-> e.side, stake |-> e.stake, payout |-> e.payout,
                 status |-> "Open", voidedBySniperRule |-> FALSE, claimedAmount |-> None]

\* BetSettled names no agent: it is the bet's row that does.
AgentOf(r, e) ==
    IF e.event = "BetSettled" /\ HasRow(r.bet, e.bet) THEN r.bet[e.bet].agent
    ELSE IF "agent" \in DOMAIN e THEN e.agent ELSE None

Updated(table, id, Handler(_)) ==
    IF HasRow(table, id) THEN [table EXCEPT ![id] = Handler(@)] ELSE table

Handled(r, e) ==
    LET a == AgentOf(r, e)
    IN  CASE e.event = "AgentRegistered" ->
               [r EXCEPT !.agent = Set(@, a, AgentRow(e.operator, e.signer)),
                         !.vault = Set(@, a, VaultRow)]
          [] e.event = "MatchCreated" -> [r EXCEPT !.match = MatchHandled(@, e)]
          [] e.event = "MarketOpened" -> [r EXCEPT !.market = Set(@, e.market, OpenedRow(e))]
          [] e.event = "BetPlaced" ->
               [r EXCEPT !.bet = Set(@, e.bet, PlacedRow(e)),
                         !.agent = Updated(@, a, LAMBDA x : AgentHandled(x, e))]
          [] e.event = "Transfer" ->
               [r EXCEPT !.vault = Updated(@, a, LAMBDA v : VaultHandled(v, e)),
                         !.position = PositionsHandled(@, e)]
          [] "market" \in DOMAIN e ->
               [r EXCEPT !.market = Updated(@, e.market, LAMBDA m : MarketHandled(m, e))]
          [] OTHER ->
               [r EXCEPT !.agent = Updated(@, a, LAMBDA x : AgentHandled(x, e)),
                         !.vault = Updated(@, a, LAMBDA v : VaultHandled(v, e)),
                         !.bet = IF "bet" \in DOMAIN e
                                 THEN Updated(@, e.bet, LAMBDA b : BetHandled(b, e))
                                 ELSE @]

\* The events of one transaction, in the order it logged them.
Indexed(events) == row' = FoldLeft(Handled, row, events)

-----------------------------------------------------------------------------
(* What each transaction logs *)

TransferOf(a, from, to, value) ==
    [event |-> "Transfer", agent |-> a, from |-> from, to |-> to, value |-> value]

Entered(a, r, assets, minted) ==
    <<TransferOf(a, None, r, minted),
      [event |-> "Deposit", agent |-> a, assets |-> assets]>>
Left(a, u, assets, burned) ==
    <<TransferOf(a, u, None, burned),
      [event |-> "Withdraw", agent |-> a, assets |-> assets]>>

\* One rung of a ladder: _writeFill, in the state placeBet leaves.
RungEvents(b, bet, lockedTotal) ==
    <<[event |-> "LiabilityLocked", agent |-> bet.agentId, lockedTotal |-> lockedTotal],
      [event |-> "BetPlaced", bet |-> b, market |-> bet.marketId, bettor |-> bet.bettor,
       agent |-> bet.agentId, side |-> bet.side, stake |-> bet.stake,
       payout |-> bet.payout]>>
PlacedEvents ==
    FlattenSeq([i \in 1..(betCount' - betCount) |->
                   LET bet == bets'[betCount + i]
                   IN  RungEvents(betCount + i, bet, lockedLiability'[bet.agentId])])

\* The pnl the vault's call reports, then the router's own events.
SettledEvents(b) ==
    LET a == bets[b].agentId
        status == bets'[b].status
    IN  <<[event |-> "LiabilitySettled", agent |-> a,
           lockedTotal |-> lockedLiability'[a],
           pnl |-> CASE status = "Lost" -> bets[b].stake
                     [] status = "Won" -> -Liability(b)
                     [] OTHER -> 0]>>
        \o (IF status = "Voided" /\ Sniped(b)
            THEN <<[event |-> "BetVoidedBySniperRule", bet |-> b]>> ELSE <<>>)
        \o <<[event |-> "BetSettled", bet |-> b, status |-> status]>>

\* A fee that has nothing to mint moves the mark and logs nothing.
HarvestEvents(a) ==
    IF FeeShares(a) = 0 THEN <<>>
    ELSE <<TransferOf(a, None, operator[a], FeeShares(a))>>

OnMarket(event, m) == <<[event |-> event, market |-> m]>>
ResolvedEvents(m, outcome, ts) ==
    (IF Running(m) THEN OnMarket("MarketClosed", m) ELSE <<>>)
    \o <<[event |-> "MarketResolved", market |-> m, outcome |-> outcome,
          qualifyingEventTs |-> ts]>>

-----------------------------------------------------------------------------
(* The transactions *)

MarketFrame == UNCHANGED <<now, balanceOf, vaultVars, registryVars, routerVars, fees, gifts>>
BackerFrame == UNCHANGED <<now, marketVars, registryVars, routerVars>>
FanFrame == UNCHANGED <<now, marketVars, registryVars, fees, gifts>>
KeyFrame == UNCHANGED <<now, balanceOf, marketVars, vaultVars, routerVars, fees, gifts>>

SchedulerIndexed ==
    \/ /\ CreateMatch /\ MarketFrame
       /\ Indexed(<<[event |-> "MatchCreated", match |-> matchCount + 1]>>)
    \/ \E id \in Matches, t \in Templates, d \in BettingTimes :
          /\ OpenMarket(id, t, now + d) /\ MarketFrame
          /\ Indexed(<<[event |-> "MarketOpened", market |-> marketCount + 1,
                        match |-> id, closesAt |-> now + d]>>)
    \/ \E m \in Markets :
          /\ \/ Suspend(m) /\ Indexed(OnMarket("MarketSuspended", m))
             \/ Resume(m) /\ Indexed(OnMarket("MarketResumed", m))
             \/ Close(m, TRUE) /\ Indexed(OnMarket("MarketClosed", m))
          /\ MarketFrame

SettlerIndexed ==
    \E m \in Markets :
        /\ \/ \E ts \in EventTimes \cup {0} :
                 Resolve(m, "Yes", ts) /\ Indexed(ResolvedEvents(m, "Yes", ts))
           \/ Resolve(m, "No", 0) /\ Indexed(ResolvedEvents(m, "No", 0))
           \/ VoidMarket(m) /\ Indexed(OnMarket("MarketVoided", m))
        /\ MarketFrame

BackerIndexed ==
    \E a \in Agents, u \in Backers :
        /\ \/ \E assets \in DepositAmounts, r \in Backers :
                 /\ Deposit(a, u, r, assets)
                 /\ Indexed(Entered(a, r, assets,
                                    SharesFor(assets, totalSupply[a], totalAssets[a])))
           \/ \E assets \in DepositAmounts :
                 /\ Withdraw(a, u, assets)
                 /\ Indexed(Left(a, u, assets,
                                 SharesForUp(assets, totalSupply[a], totalAssets[a])))
           \/ \E amount \in ShareAmounts, r \in Backers :
                 /\ Mint(a, u, r, amount)
                 /\ Indexed(Entered(a, r, AssetsForUp(amount, totalSupply[a],
                                                      totalAssets[a]), amount))
           \/ \E amount \in ShareAmounts :
                 /\ Redeem(a, u, amount)
                 /\ Indexed(Left(a, u, AssetsFor(amount, totalSupply[a],
                                                 totalAssets[a]), amount))
           \/ \E amount \in ShareAmounts, to \in Backers :
                 /\ TransferShares(a, u, to, amount)
                 /\ Indexed(<<TransferOf(a, u, to, amount)>>)
        /\ BackerFrame /\ UNCHANGED <<fees, gifts>>

\* What reaches a vault as a plain transfer: OddsLock's fee, which it
\* announces itself, and anybody's gift, which nothing announces.
PaidIn(a) == fees[a] + gifts[a]
HoldFeePaid(a, u, fee) ==
    /\ Donate(a, u, fee) /\ BackerFrame
    /\ PaidIn(a) + fee <= MaxGifts
    /\ fees' = [fees EXCEPT ![a] = @ + fee]
    /\ Indexed(<<[event |-> "LockBought", agent |-> a, fee |-> fee]>>)
    /\ UNCHANGED gifts
GiftPaid(a, u, assets) ==
    /\ Donate(a, u, assets) /\ BackerFrame
    /\ PaidIn(a) + assets <= MaxGifts
    /\ gifts' = [gifts EXCEPT ![a] = @ + assets]
    /\ UNCHANGED <<row, fees>>

PaidInStep ==
    \E a \in Agents, u \in Backers :
        \/ \E fee \in HoldFees : HoldFeePaid(a, u, fee)
        \/ \E assets \in DepositAmounts : GiftPaid(a, u, assets)

FanIndexed ==
    \E u \in Fans :
        /\ \/ \E m \in Markets, side \in Side, total \in StakeAmounts,
                 minPayout \in MinPayouts, ladder \in Ladders :
                 /\ PlaceBet(u, m, side, total, minPayout, ladder)
                 /\ Indexed(PlacedEvents)
           \/ \E b \in BetIds :
                 /\ Claim(u, b)
                 /\ Indexed(<<[event |-> "BetClaimed", bet |-> b,
                               amount |-> Owed(bets[b])]>>)
        /\ FanFrame

SettleIndexed ==
    \E b \in BetIds : SettleBatch(b) /\ FanFrame /\ Indexed(SettledEvents(b))

HarvestIndexed ==
    \E a \in Agents :
        /\ Harvest(a) /\ Indexed(HarvestEvents(a))
        /\ UNCHANGED <<now, marketVars, registryVars, routerVars, fees, gifts>>

RegistryIndexed ==
    \/ \E u \in Users, s \in Signers :
          /\ Register(u, s)
          /\ Indexed(<<[event |-> "AgentRegistered", agent |-> agentCount + 1,
                        operator |-> u, signer |-> s],
                       [event |-> "AgentEnabledSet", agent |-> agentCount + 1,
                        enabled |-> TRUE]>>)
          /\ UNCHANGED <<now, balanceOf, marketVars, totalAssets, lockedLiability,
                         marketExposure, totalSupply, shares, highWaterMark,
                         lastDepositAt, routerVars, fees, gifts>>
    \/ \E a \in Agents, u \in Users \cup {Owner} :
          /\ \/ \E s \in Signers :
                   /\ SetQuoteSigner(a, u, s)
                   /\ Indexed(<<[event |-> "QuoteSignerUpdated", agent |-> a, signer |-> s]>>)
             \/ \E enabled \in BOOLEAN :
                   /\ SetEnabled(a, u, enabled)
                   /\ Indexed(<<[event |-> "AgentEnabledSet", agent |-> a,
                                 enabled |-> enabled]>>)
          /\ KeyFrame

\* Steps that log nothing an indexer reads.
QuietStep ==
    /\ \/ SetBetRouter /\ KeyFrame
       \/ \E t \in Templates, enabled \in BOOLEAN : SetTemplate(t, enabled) /\ MarketFrame
    /\ UNCHANGED row

TickIndexed == Tick /\ UNCHANGED indexVars

IndexInit ==
    /\ row = NoRows
    /\ fees = [a \in Agents |-> 0]
    /\ gifts = [a \in Agents |-> 0]

IndexedNext ==
    \/ SchedulerIndexed \/ SettlerIndexed \/ BackerIndexed \/ FanIndexed
    \/ SettleIndexed \/ HarvestIndexed \/ RegistryIndexed \/ QuietStep
    \/ TickIndexed \/ PaidInStep

-----------------------------------------------------------------------------
BetsOf(a) == {b \in BetIds : bets[b].status # "None" /\ bets[b].agentId = a}
SumOver(ids, Value(_)) == SumTo([b \in BetIds |-> IF b \in ids THEN Value(b) ELSE 0], MaxBets)

\* A vault's row is the vault (schema.graphql: "running balances that mirror
\* the contract's own state transitions bet for bet"), but for gifts that no
\* event announces; a backer's position is the shares held, through transfers
\* to oneself too.
VaultsMirrored ==
    \A a \in Agents : Deployed(a) =>
        LET v == row.vault[a]
        IN  /\ v.totalAssets + gifts[a] = totalAssets[a]
            /\ v.totalSupply = totalSupply[a]
            /\ v.lockedLiability = lockedLiability[a]
            /\ \A u \in Users : Shares(row.position, a, u) = shares[a][u]

\* The agents page's account of an agent: its rows, and the curve and the
\* deepest fall that are drawn from its vault's snapshots (useAgentStats).
PnlSeries(deltas) == [i \in DOMAIN deltas |-> FoldLeft(LAMBDA x, y : x + y, 0, SubSeq(deltas, 1, i))]
Peak(series, i) == Max({0} \cup {series[j] : j \in 1..i})
MaxDrawdown(series) == Max({0} \cup {Peak(series, i) - series[i] : i \in DOMAIN series})
Stats(a) ==
    LET r == row.agent[a]
        series == PnlSeries(row.vault[a].pnlDeltas)
    IN  [volume |-> r.volume, betsWon |-> r.betsWon, betsLost |-> r.betsLost,
         betsVoided |-> r.betsVoided, holdFees |-> r.holdFees,
         realizedPnl |-> row.vault[a].realizedPnl,
         pnlSeries |-> series, maxDrawdown |-> MaxDrawdown(series)]

\* The page ranks the agents that may be bet against by what they have made,
\* then by what their vaults hold (useAgents), then as they were registered.
AgentSummary(a) ==
    [operator |-> agents[a].operator, quoteSigner |-> agents[a].quoteSigner,
     enabled |-> agents[a].enabled, totalAssets |-> totalAssets[a],
     freeCapital |-> FreeCapital(a), lockedLiability |-> lockedLiability[a],
     pricePerShare |-> PricePerShare(a)]
Listed == {a \in 1..agentCount : AgentSummary(a).enabled}
Ahead(a, b) ==
    LET pnl(x) == Stats(x).realizedPnl
        tvl(x) == AgentSummary(x).totalAssets
    IN  \/ pnl(a) > pnl(b)
        \/ pnl(a) = pnl(b) /\ tvl(a) > tvl(b)
        \/ pnl(a) = pnl(b) /\ tvl(a) = tvl(b) /\ a < b
AgentsRanked == SetToSortSeq(Listed, Ahead)

\* The leaderboard's account of an agent is the sum of its bets: what its
\* vault made of them and of held prices, what was staked on it, and who won,
\* from the agent's side; it names the key that may sign for it, and the curve
\* ends at the profit shown beside it, having fallen at least as far as a loss.
StatusesOf(a, status) == Cardinality({b \in BetsOf(a) : bets[b].status = status})
MadeBy(a) ==
    fees[a] + SumOver(BetsOf(a), LAMBDA b : IF bets[b].status = "Lost" THEN bets[b].stake
                                           ELSE IF bets[b].status = "Won" THEN -Liability(b)
                                           ELSE 0)

LeaderboardAddsUp ==
    \A a \in Agents : Exists(a) =>
        LET r == row.agent[a]
            s == Stats(a)
        IN  /\ r.operator = agents[a].operator
            /\ r.quoteSigner = agents[a].quoteSigner /\ r.enabled = agents[a].enabled
            /\ s.volume = SumOver(BetsOf(a), LAMBDA b : bets[b].stake)
            /\ s.betsWon = StatusesOf(a, "Lost") /\ s.betsLost = StatusesOf(a, "Won")
            /\ s.betsVoided = StatusesOf(a, "Voided")
            /\ s.holdFees = fees[a] /\ s.realizedPnl = MadeBy(a)
            /\ s.pnlSeries # <<>> => Last(s.pnlSeries) = s.realizedPnl
            /\ s.maxDrawdown >= -s.realizedPnl

\* No agent is ranked above one that has made more for its backers.
RankedByEarnings ==
    \A i, j \in DOMAIN AgentsRanked :
        i < j => MadeBy(AgentsRanked[i]) >= MadeBy(AgentsRanked[j])

\* A market's and a bet's rows are the chain's, so that a screen never offers
\* what is closed nor counts what was collected.
RowsAreTheChain ==
    /\ row.match = 1..matchCount
    /\ \A m \in 1..marketCount :
          /\ row.market[m].match = markets[m].matchId
          /\ row.market[m].state = markets[m].state
          /\ row.market[m].outcome = markets[m].outcome
          /\ row.market[m].qualifyingEventTs = markets[m].qualifyingEventTs
    /\ \A b \in 1..betCount :
          /\ row.bet[b].status = bets[b].status /\ row.bet[b].bettor = bets[b].bettor
          /\ row.bet[b].claimedAmount # None <=> claimed[b]
          /\ row.bet[b].claimedAmount # None => row.bet[b].claimedAmount = Owed(bets[b])
          /\ row.bet[b].voidedBySniperRule <=> bets[b].status = "Voided" /\ Sniped(b)

\* The rows add up changes that nobody compares with the chain again
\* (EventHandlers.ts), so one event booked wrongly, twice, in the wrong order
\* or not at all would show for good: vaults, leaderboard, markets and bets of
\* the tables are those of the contracts after every transaction.
IndexMirrorsChain == VaultsMirrored /\ LeaderboardAddsUp /\ RowsAreTheChain
=============================================================================
