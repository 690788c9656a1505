----------------------------- MODULE BetRouter -----------------------------
(***************************************************************************)
(* Striking, settling and paying bets: contracts/src/BetRouter.sol,        *)
(* composed with the markets, the vaults and the registry it calls.  A     *)
(* transaction is one step.  A revert is a disabled step.                  *)
(***************************************************************************)
EXTENDS AgentRegistry, Totals, Sequences, FiniteSets

CONSTANTS
    MaxBets,            \* bound: ids _writeFill may hand out are 1..MaxBets
    SignedQuotes,       \* what agents have signed: [quote, signer] records
    MaxFills,           \* MAX_FILLS
    DelaySeconds,       \* DELAY_SECONDS
    MinProbBps, MaxProbBps, MinMarginBps

BetIds == 1..MaxBets
Side == {"Yes", "No"}
BetStatus == {"None", "Open", "Won", "Lost", "Voided"}

\* A quote's EIP-712 hash is the quote itself: equal quotes, equal hashes.
\* The salt only tells quotes apart.
Quote == [marketId : Markets, agentId : Agents, probYesBps : Nat,
          probNoBps : Nat, maxStake : Nat, expiry : Nat, salt : Nat]
Quotes == {sq.quote : sq \in SignedQuotes}

ASSUME RouterConstants ==
    /\ MaxBets \in Nat
    /\ SignedQuotes \subseteq [quote : Quote, signer : Signers]
    /\ MaxFills \in 1..3
    /\ DelaySeconds \in Nat
    /\ MinProbBps \in 1..BPS /\ MaxProbBps \in 1..BPS - 1
    /\ MinMarginBps \in Nat

VARIABLES
    betCount,
    bets,               \* _bets
    quoteFilled,        \* by quote hash
    claimed,
    escrow              \* nUSD held by the router

routerVars == <<betCount, bets, quoteFilled, claimed, escrow>>

vars == <<now, balanceOf, marketVars, vaultVars, registryVars, routerVars>>

Bet == [marketId : Markets \cup {0},
        bettor : Users \cup {None},
        agentId : Agents \cup {0},
        side : Side,
        stake : Nat,
        payout : Nat,
        placedAt : Nat,
        status : BetStatus]

NoBet == [marketId |-> 0, bettor |-> None, agentId |-> 0, side |-> "Yes",
          stake |-> 0, payout |-> 0, placedAt |-> 0, status |-> "None"]

RouterTypeOK ==
    /\ betCount \in Nat
    /\ bets \in [BetIds -> Bet]
    /\ quoteFilled \in [Quotes -> Nat]
    /\ claimed \in [BetIds -> BOOLEAN]
    /\ escrow \in Nat

RouterInit ==
    /\ betCount = 0
    /\ bets = [b \in BetIds |-> NoBet]
    /\ quoteFilled = [q \in Quotes |-> 0]
    /\ claimed = [b \in BetIds |-> FALSE]
    /\ escrow = 0

TypeOK == /\ ChainTypeOK /\ MarketTypeOK /\ VaultTypeOK
          /\ RegistryTypeOK /\ RouterTypeOK

-----------------------------------------------------------------------------
(* Pricing a ladder of quotes: _validateAndSize *)

\* Ladder weights by number of fills: _ladderFor.
LadderFor(n) == CASE n = 1 -> <<10000>>
                  [] n = 2 -> <<6000, 4000>>
                  [] n = 3 -> <<5000, 3000, 2000>>

Price(q, side) == IF side = "Yes" THEN q.probYesBps ELSE q.probNoBps

\* A quote is good up to and including the second of its expiry.
Acceptable(sq, m) ==
    /\ sq.quote.marketId = m
    /\ now <= sq.quote.expiry
    /\ ValidQuote(sq.quote.probYesBps, sq.quote.probNoBps,
                  MinProbBps, MaxProbBps, MinMarginBps)
    /\ IsQuotable(sq.quote.agentId, sq.signer)
    /\ quoteFilled[sq.quote] < sq.quote.maxStake

\* No agent twice, best price first.
Ranked(ladder, side) ==
    \A i, j \in DOMAIN ladder : i < j =>
        /\ ladder[i].quote.agentId # ladder[j].quote.agentId
        /\ Price(ladder[i].quote, side) <= Price(ladder[j].quote, side)

\* What one quote can absorb: its unfilled size, and the stake whose
\* liability fits its vault's budget on this market.
Capacity_ForgetsFills(q, side) ==
    Lesser(q.maxStake,
           MaxStakeForLiability(QuotableBudget(q.agentId, q.marketId),
                                Price(q, side)))
Capacity(q, side) ==
    Lesser(q.maxStake - quoteFilled[q],
           MaxStakeForLiability(QuotableBudget(q.agentId, q.marketId),
                                Price(q, side)))

Stakes(total, ladder, side) ==
    LadderStakes(total,
                 [i \in DOMAIN ladder |-> Capacity(ladder[i].quote, side)],
                 LadderFor(Len(ladder)), Len(ladder))

Fillable(total, ladder, side) ==
    LadderPlaces(total,
                 [i \in DOMAIN ladder |-> Capacity(ladder[i].quote, side)],
                 LadderFor(Len(ladder)), Len(ladder))

-----------------------------------------------------------------------------
(* placeBet.  The zero rungs are skipped; the others get consecutive ids.  *)

Filled(stakes) == {i \in DOMAIN stakes : stakes[i] > 0}

BetIdOf(i, stakes) == betCount + Cardinality({j \in Filled(stakes) : j <= i})

PayoutOf(i, stakes, ladder, side) ==
    PayoutFor(stakes[i], Price(ladder[i].quote, side))

\* The liability each filled agent has to lock.
Liabilities(stakes, ladder, side) ==
    [a \in {ladder[i].quote.agentId : i \in Filled(stakes)} |->
        LET i == CHOOSE i \in Filled(stakes) : ladder[i].quote.agentId = a
        IN  PayoutOf(i, stakes, ladder, side) - stakes[i]]

NewBet(u, m, side, i, stakes, ladder) ==
    [marketId |-> m, bettor |-> u, agentId |-> ladder[i].quote.agentId,
     side |-> side, stake |-> stakes[i],
     payout |-> PayoutOf(i, stakes, ladder, side),
     placedAt |-> now, status |-> "Open"]

TotalPayout(stakes, ladder, side) ==
    SumTo([i \in DOMAIN stakes |->
              IF stakes[i] = 0 THEN 0 ELSE PayoutOf(i, stakes, ladder, side)],
          Len(ladder))

\* Every check up to the first write.
CanPlace(m, side, total, ladder) ==
    /\ IsBettable(m)
    /\ total > 0
    /\ Len(ladder) \in 1..MaxFills
    /\ \A i \in DOMAIN ladder : Acceptable(ladder[i], m)
    /\ Ranked(ladder, side)
    /\ Fillable(total, ladder, side)

PlaceBet(u, m, side, total, minPayout, ladder) ==
    /\ CanPlace(m, side, total, ladder)
    /\ LET stakes == Stakes(total, ladder, side)
           filled == Filled(stakes)
           written == {BetIdOf(i, stakes) : i \in filled}
       IN  /\ written \subseteq BetIds
           /\ TotalPayout(stakes, ladder, side) >= minPayout
           /\ betRouterSet
           /\ LockLiability(m, Liabilities(stakes, ladder, side))
           /\ betCount' = betCount + Cardinality(filled)
           /\ bets' = [b \in BetIds |->
                 IF b \in written
                 THEN NewBet(u, m, side,
                             CHOOSE i \in filled : BetIdOf(i, stakes) = b,
                             stakes, ladder)
                 ELSE bets[b]]
           /\ quoteFilled' = [q \in Quotes |->
                 IF \E i \in filled : ladder[i].quote = q
                 THEN quoteFilled[q]
                        + stakes[CHOOSE i \in filled : ladder[i].quote = q]
                 ELSE quoteFilled[q]]
    /\ balanceOf[u] >= total
    /\ balanceOf' = [balanceOf EXCEPT ![u] = @ - total]
    /\ escrow' = escrow + total
    /\ UNCHANGED <<operator, totalAssets, totalSupply, shares, highWaterMark,
                   lastDepositAt, claimed>>

-----------------------------------------------------------------------------
(* settleBatch, one bet of the batch.  Bets of a batch that are not open   *)
(* are skipped, and settling is atomic per bet: a batch does what its bets *)
(* do one after the other, or nothing.                                     *)

Liability(b) == bets[b].payout - bets[b].stake

\* The anti-sniping rule: struck less than DelaySeconds before the event.
Sniped_Exclusive(b) ==
    LET ts == markets[bets[b].marketId].qualifyingEventTs
    IN  ts # 0 /\ bets[b].placedAt + DelaySeconds > ts + 1
Sniped(b) ==
    LET ts == markets[bets[b].marketId].qualifyingEventTs
    IN  ts # 0 /\ bets[b].placedAt + DelaySeconds > ts

Settleable_Again(b) == bets[b].status # "None" /\ Settled(bets[b].marketId)
Settleable(b) == bets[b].status = "Open" /\ Settled(bets[b].marketId)

Refunded(b) == markets[bets[b].marketId].state = "Voided" \/ Sniped(b)

BackedWinner(b) == markets[bets[b].marketId].outcome = bets[b].side

SetStatus(b, status) == bets' = [bets EXCEPT ![b].status = status]

SettleVoided(b) ==
    /\ Settleable(b) /\ Refunded(b)
    /\ SetStatus(b, "Voided")
    /\ ReleaseVoided(bets[b].agentId, bets[b].marketId, Liability(b))
    /\ UNCHANGED escrow

SettleWon(b) ==
    /\ Settleable(b) /\ ~Refunded(b) /\ BackedWinner(b)
    /\ SetStatus(b, "Won")
    /\ SettleAgentLost(bets[b].agentId, bets[b].marketId, Liability(b))
    /\ escrow' = escrow + Liability(b)

SettleLost(b) ==
    /\ Settleable(b) /\ ~Refunded(b) /\ ~BackedWinner(b)
    /\ SetStatus(b, "Lost")
    /\ escrow >= bets[b].stake
    /\ escrow' = escrow - bets[b].stake
    /\ SettleAgentWon(bets[b].agentId, bets[b].marketId, Liability(b),
                      bets[b].stake)

SettleBatch(b) ==
    /\ SettleVoided(b) \/ SettleWon(b) \/ SettleLost(b)
    /\ UNCHANGED <<balanceOf, operator, totalSupply, shares, highWaterMark,
                   lastDepositAt, betCount, quoteFilled, claimed>>

-----------------------------------------------------------------------------
(* claim, one bet of the batch *)

Owed(bet) == CASE bet.status = "Won" -> bet.payout
               [] bet.status = "Voided" -> bet.stake
               [] OTHER -> 0

Claim_Again(u, b) ==
    /\ bets[b].status # "None" /\ bets[b].bettor = u
    /\ Owed(bets[b]) > 0
    /\ escrow >= Owed(bets[b])
    /\ claimed' = [claimed EXCEPT ![b] = TRUE]
    /\ escrow' = escrow - Owed(bets[b])
    /\ balanceOf' = [balanceOf EXCEPT ![u] = @ + Owed(bets[b])]
    /\ UNCHANGED <<vaultVars, betCount, bets, quoteFilled>>
Claim(u, b) ==
    /\ bets[b].status # "None" /\ bets[b].bettor = u
    /\ ~claimed[b] /\ Owed(bets[b]) > 0
    /\ escrow >= Owed(bets[b])
    /\ claimed' = [claimed EXCEPT ![b] = TRUE]
    /\ escrow' = escrow - Owed(bets[b])
    /\ balanceOf' = [balanceOf EXCEPT ![u] = @ + Owed(bets[b])]
    /\ UNCHANGED <<vaultVars, betCount, bets, quoteFilled>>
=============================================================================
