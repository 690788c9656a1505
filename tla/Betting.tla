------------------------------ MODULE Betting ------------------------------
(***************************************************************************)
(* The betting core as a whole: fans, backers, operators, the scheduler,   *)
(* the settler and anybody who settles or harvests, acting on the four     *)
(* contracts in any order.                                                 *)
(***************************************************************************)
EXTENDS BetRouter

CONSTANTS
    Fans,               \* the users who bet
    Backers,            \* the users who back agents
    StakeAmounts,       \* totalStake of a bet
    MinPayouts,         \* minPayout of a bet
    DepositAmounts,     \* assets of deposit, withdraw and donations
    ShareAmounts,       \* shares of mint, redeem and transfers
    BettingTimes,       \* how far ahead of now closesAt is set
    EventTimes          \* wall-clock seconds a qualifying event may have

ASSUME BettingConstants ==
    /\ IsFiniteSet(Users)
    /\ Fans \subseteq Users /\ Backers \subseteq Users
    /\ StakeAmounts \subseteq Nat /\ MinPayouts \subseteq Nat
    /\ DepositAmounts \subseteq Nat /\ ShareAmounts \subseteq Nat
    /\ BettingTimes \subseteq Nat /\ EventTimes \subseteq Nat

Ladders == UNION {[1..n -> SignedQuotes] : n \in 1..MaxFills}

Init == /\ now = StartTime
        /\ balanceOf \in [Users -> Nat]
        /\ MarketInit /\ VaultInit /\ RegistryInit /\ RouterInit

-----------------------------------------------------------------------------
(* Who may do what *)

AdminStep ==
    /\ \/ SetBetRouter
       \/ \E a \in Agents, enabled \in BOOLEAN : SetEnabled(a, Owner, enabled)
    /\ UNCHANGED <<now, balanceOf, marketVars, vaultVars, routerVars>>

OperatorStep ==
    \E u \in Users :
        /\ \/ \E s \in Signers : Register(u, s)
           \/ /\ \/ \E a \in Agents, s \in Signers : SetQuoteSigner(a, u, s)
                 \/ \E a \in Agents, enabled \in BOOLEAN : SetEnabled(a, u, enabled)
              /\ UNCHANGED operator
        /\ UNCHANGED <<now, balanceOf, marketVars, totalAssets, lockedLiability,
                       marketExposure, totalSupply, shares, highWaterMark,
                       lastDepositAt, routerVars>>

SchedulerStep ==
    /\ \/ \E t \in Templates, enabled \in BOOLEAN : SetTemplate(t, enabled)
       \/ CreateMatch
       \/ \E id \in Matches, t \in Templates, d \in BettingTimes :
              OpenMarket(id, t, now + d)
       \/ \E m \in Markets : Suspend(m) \/ Resume(m) \/ Close(m, TRUE)
    /\ UNCHANGED <<now, balanceOf, vaultVars, registryVars, routerVars>>

\* Only a Yes carries the time of its event.
SettlerStep ==
    /\ \E m \in Markets :
          \/ \E ts \in EventTimes \cup {0} : Resolve(m, "Yes", ts)
          \/ Resolve(m, "No", 0)
          \/ VoidMarket(m)
    /\ UNCHANGED <<now, balanceOf, vaultVars, registryVars, routerVars>>

BackerStep ==
    /\ \E a \in Agents, u \in Backers :
          \/ \E assets \in DepositAmounts :
                \/ \E r \in Backers : Deposit(a, u, r, assets)
                \/ Withdraw(a, u, assets)
                \/ Donate(a, u, assets)
          \/ \E amount \in ShareAmounts :
                \/ \E r \in Backers : Mint(a, u, r, amount)
                \/ Redeem(a, u, amount)
                \/ \E to \in Backers : TransferShares(a, u, to, amount)
    /\ UNCHANGED <<now, marketVars, registryVars, routerVars>>

FanStep ==
    /\ \E u \in Fans :
          \/ \E m \in Markets, side \in Side, total \in StakeAmounts,
                minPayout \in MinPayouts, ladder \in Ladders :
                PlaceBet(u, m, side, total, minPayout, ladder)
          \/ \E b \in BetIds : Claim(u, b)
    /\ UNCHANGED <<now, marketVars, registryVars>>

\* settleBatch and harvest are open to anybody.
SettleStep ==
    /\ \E b \in BetIds : SettleBatch(b)
    /\ UNCHANGED <<now, marketVars, registryVars>>

HarvestStep ==
    /\ \E a \in Agents : Harvest(a)
    /\ UNCHANGED <<now, marketVars, registryVars, routerVars>>

Tick ==
    /\ TickBlock
    /\ UNCHANGED <<balanceOf, marketVars, vaultVars, registryVars, routerVars>>

Next == \/ AdminStep \/ OperatorStep \/ SchedulerStep \/ SettlerStep
        \/ BackerStep \/ FanStep \/ SettleStep \/ HarvestStep \/ Tick

Spec == Init /\ [][Next]_vars

-----------------------------------------------------------------------------
(* Money *)

\* Every vault can pay everything it has booked: the invariant the head of
\* AgentVault.sol states.
Solvent == \A a \in Agents : totalAssets[a] >= lockedLiability[a]

\* What the router still has to hand out on a bet.
Outstanding(b) ==
    CASE bets[b].status = "Open" -> bets[b].stake
      [] bets[b].status \in {"Won", "Voided"} /\ ~claimed[b] -> Owed(bets[b])
      [] OTHER -> 0

\* The router holds exactly what open and uncollected bets are owed, over
\* every order of fills, settlements and claims: BetRouter's placeBet,
\* settleBatch and claim move neither more nor less.
EscrowBacksBets == escrow = SumTo([b \in BetIds |-> Outstanding(b)], MaxBets)

\* The liability of the open bets of agent a, on the markets in ms.
OpenLiability(a, ms) ==
    SumTo([b \in BetIds |->
              IF /\ bets[b].status = "Open" /\ bets[b].agentId = a
                 /\ bets[b].marketId \in ms
              THEN Liability(b) ELSE 0], MaxBets)

\* What a vault has booked is what its open bets need, in total and on each
\* market.  So the checked subtractions of AgentVault._release never revert,
\* and a settled market's bets can always be settled.
LiabilityBooked ==
    \A a \in Agents :
        /\ lockedLiability[a] = OpenLiability(a, Markets)
        /\ \A m \in Markets : marketExposure[a][m] = OpenLiability(a, {m})

\* A quote is never filled beyond the size it was signed for, however many
\* bets share it (IBetRouter's maxStake).
QuotesWithinSize == \A q \in Quotes : quoteFilled[q] <= q.maxStake

\* Sizing a ladder against quotableBudget is enough: once the quotes pass
\* and the ladder places the stake, no vault refuses its lock, whatever the
\* backers and other bets did to it ("routes around a stretched vault
\* instead of reverting on it", OddsMath.sol).
SizedFillsLock ==
    \A m \in Markets, side \in Side, total \in StakeAmounts, ladder \in Ladders :
        CanPlace(m, side, total, ladder) =>
            LET fills == Liabilities(Stakes(total, ladder, side), ladder, side)
            IN  \A a \in DOMAIN fills : CanLock(a, m, fills[a])

-----------------------------------------------------------------------------
(* Time *)

\* A bet that was paid out or forfeited was struck before its market closed
\* and at least DelaySeconds before the event it was decided by: later bets
\* are refunded, on both sides.
LateBetsRefunded ==
    \A b \in BetIds :
        LET market == markets[bets[b].marketId]
        IN  bets[b].status \in {"Won", "Lost"} =>
                /\ bets[b].placedAt < market.closesAt
                /\ \/ market.qualifyingEventTs = 0
                   \/ bets[b].placedAt + DelaySeconds <= market.qualifyingEventTs

-----------------------------------------------------------------------------
(* Backers *)

\* The users in some fixed order, each with one place, to add up what they hold.
UserCount == Cardinality(Users)
UserOrder == CHOOSE order \in [1..UserCount -> Users] :
                \A u \in Users : \E k \in 1..UserCount :
                    {j \in 1..UserCount : order[j] = u} = {k}

\* The shares handed out are the shares that exist, whoever minted, burned
\* or moved them: so a burn never takes more than the supply, which ERC20
\* subtracts unchecked, and every conversion divides by what is really held.
SharesAddUp ==
    \A a \in Agents :
        totalSupply[a] = SumTo([k \in 1..UserCount |-> shares[a][UserOrder[k]]],
                               UserCount)

\* Entering and leaving, at any amount and in any order, never lowers what
\* a share is worth to the others: only a lost bet, by no more than the
\* liability it had locked, and a harvested fee do.  All four ERC-4626
\* roundings favour the pool.
BackersNeverDiluted ==
    [][\A a \in Agents :
          \/ (totalAssets'[a] + 1) * (totalSupply[a] + VirtualShares) >=
                (totalAssets[a] + 1) * (totalSupply'[a] + VirtualShares)
          \/ /\ totalSupply'[a] = totalSupply[a]
             /\ totalAssets[a] - totalAssets'[a] <=
                   lockedLiability[a] - lockedLiability'[a]
          \/ Harvest(a)]_vars

\* The mark never falls and only a harvest moves it; and a harvest leaves each
\* share at least (1 - fee) of its gain above the mark, to one unit of
\* rounding: the dilution, solved after minting, takes no more than the fee's
\* part (AgentVault.harvest).  It may take its part and leave the mark where it
\* was, when the price after dilution rounds down to it.
FeeWithinGain ==
    [][\A a \in Agents :
          Harvest(a) \/ highWaterMark'[a] # highWaterMark[a] =>
              /\ highWaterMark'[a] = PricePerShare(a)'
              /\ highWaterMark'[a] >= highWaterMark[a]
              /\ (PricePerShare(a)' - highWaterMark[a]) * BPS + BPS >
                    (PricePerShare(a) - highWaterMark[a]) * (BPS - PerformanceFeeBps)]_vars

-----------------------------------------------------------------------------
(* What the fan was promised *)

Book == INSTANCE WagerBook WITH
            MaxWagers <- MaxBets,
            Fans <- Fans,
            Nobody <- None,
            struck <- betCount,
            wagers <- [b \in BetIds |->
                          [fan |-> bets[b].bettor, stake |-> bets[b].stake,
                           payout |-> bets[b].payout,
                           state |-> IF claimed[b] THEN "Paid"
                                     ELSE bets[b].status]],
            custody <- escrow

\* The contracts keep the fan's book: terms never change once struck, a bet
\* ends once and is collected once, and custody follows.
KeepsBook == Book!BookSpec

-----------------------------------------------------------------------------
(* Progress.  settleBatch is open to anybody and the watcher calls it;     *)
(* the fan's client claims as soon as it can.                              *)

Fairness ==
    \A b \in BetIds :
        /\ WF_vars(SettleBatch(b) /\ UNCHANGED <<now, marketVars, registryVars>>)
        /\ \A u \in Fans :
              WF_vars(Claim(u, b) /\ UNCHANGED <<now, marketVars, registryVars>>)

FairSpec == Spec /\ Fairness

\* A bet on a settled market reaches its fan: settled, and what it is owed
\* collected.  Nothing else that happens on chain can block it for good.
SettledBetsPaid ==
    \A b \in BetIds :
        Settleable(b) ~> bets[b].status # "Open" /\ Outstanding(b) = 0
=============================================================================
