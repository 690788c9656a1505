------------------------------ MODULE Screens ------------------------------
(***************************************************************************)
(* The screens and commands a person moves money by, over the contracts    *)
(* and the indexer's rows: the sheet of a vault (web VaultSheet.tsx,       *)
(* useVaultPosition.ts), the market-maker plugin's back and withdraw       *)
(* (mm-plugin), and the list of a fan's bets, one entry a market           *)
(* (bet-groups.ts, useMyBets.ts, YourBets.tsx); and the keeper's harvest.  *)
(* What a screen or command reads is taken to be so still when its         *)
(* transaction is executed.                                                *)
(***************************************************************************)
EXTENDS IndexedBetting

CONSTANT MinHarvestFee      \* below it, the keeper leaves a fee for later

\* The chain counts seconds since 1970: more of them than any cooldown, so who
\* has shares and never deposited, whose last deposit reads 0, has none left.
ASSUME CooldownAssumption == WithdrawalCooldownSeconds <= StartTime

-----------------------------------------------------------------------------
(* A backer's position.  The sheet has the first four of these numbers,    *)
(* the command all of them.                                                *)

Worth(a, u) == AssetsFor(shares[a][u], totalSupply[a], totalAssets[a])
Position(a, u) ==
    [shares |-> shares[a][u],
     assetsValue |-> Worth(a, u),
     maxWithdraw |-> MaxWithdraw(a, u),
     cooldownEndsAt |-> IF lastDepositAt[a][u] > 0
                        THEN lastDepositAt[a][u] + WithdrawalCooldownSeconds ELSE 0,
     maxRedeem |-> MaxRedeem(a, u),
     freeCapital |-> FreeCapital(a)]

\* What the sheet says when there is nothing to take out, and the command.
CooldownActive(p) == p.cooldownEndsAt > now
CapitalLocked(p) == ~CooldownActive(p) /\ p.shares > 0 /\ p.maxWithdraw = 0

\* The agents page lists, and so opens the sheets of, enabled agents only;
\* a command names any agent.
Offered(a) == a \in Listed
Named(a) == Deployed(a)

\* The sheet's presets are deposited for oneself, as `back` does, with an
\* allowance seen to before it.
Affordable(u, assets) == assets <= balanceOf[u]
SheetDeposit(a, u) ==
    \E assets \in DepositAmounts :
        /\ Offered(a) /\ Affordable(u, assets)
        /\ Deposit(a, u, u, assets)
        /\ Indexed(Entered(a, u, assets, SharesFor(assets, totalSupply[a], totalAssets[a])))
Back(a, u) ==
    \E assets \in DepositAmounts :
        /\ Named(a) /\ Affordable(u, assets)
        /\ Deposit(a, u, u, assets)
        /\ Indexed(Entered(a, u, assets, SharesFor(assets, totalSupply[a], totalAssets[a])))

\* "Withdraw all" on the sheet asks for an amount of nUSD ...
WithdrawAssets(a, u, assets) ==
    /\ Withdraw(a, u, assets)
    /\ Indexed(Left(a, u, assets, SharesForUp(assets, totalSupply[a], totalAssets[a])))
SheetWithdraw(a, u) ==
    /\ Offered(a) /\ Position(a, u).maxWithdraw > 0
    /\ WithdrawAssets(a, u, Position(a, u).maxWithdraw)

\* ... and the command for shares; for less than all it asks for nUSD too.
CanTakeOut(p) == p.shares > 0 /\ p.maxWithdraw > 0
RedeemAll(a, u) ==
    LET amount == Position(a, u).maxRedeem
    IN  /\ Redeem(a, u, amount)
        /\ Indexed(Left(a, u, AssetsFor(amount, totalSupply[a], totalAssets[a]), amount))
WithdrawCommandAll(a, u) ==
    /\ Named(a) /\ CanTakeOut(Position(a, u))
    /\ RedeemAll(a, u)
WithdrawCommand(a, u) ==
    \E assets \in DepositAmounts :
        /\ Named(a) /\ CanTakeOut(Position(a, u)) /\ assets <= Position(a, u).maxWithdraw
        /\ WithdrawAssets(a, u, assets)

AmountStep ==
    \E a \in Agents, u \in Backers :
        /\ SheetDeposit(a, u) \/ Back(a, u) \/ WithdrawCommand(a, u)
        /\ BackerFrame /\ UNCHANGED <<fees, gifts>>
AllStep ==
    \E a \in Agents, u \in Backers :
        /\ SheetWithdraw(a, u) \/ WithdrawCommandAll(a, u)
        /\ BackerFrame /\ UNCHANGED <<fees, gifts>>

\* The settlement watcher, between closes, harvests the vaults it reckons owe
\* their operator enough.
KeeperFee(a) ==
    ((PricePerShare(a) - highWaterMark[a]) * totalSupply[a] * PerformanceFeeBps)
        \div (Wad * BPS)
Owing(a) == PricePerShare(a) > highWaterMark[a] /\ KeeperFee(a) >= MinHarvestFee
HarvestFees ==
    \E a \in Agents :
        /\ HasRow(row.vault, a) /\ Owing(a)
        /\ Harvest(a) /\ Indexed(HarvestEvents(a))
        /\ UNCHANGED <<now, marketVars, registryVars, routerVars, fees, gifts>>

\* The contracts, their rows and whoever moves money by a screen or a command.
ScreensNext == IndexedNext \/ AmountStep \/ AllStep \/ HarvestFees
ScreensSpec == Init /\ IndexInit /\ [][ScreensNext]_allVars

\* Taking out "all" where nothing of the vault is lent to open bets leaves
\* nothing of value behind on the sheet, and no more than one base unit by the
\* command (withdraw.ts: "so not a dust of value is left behind to rounding"),
\* whatever the vault has won, lost, been given or paid in fees; and a backer
\* who may take nothing out although the cooldown is over is told rightly that
\* bets are open, unless the shares are worth nothing.
AllMeansAll ==
    [][\A a \in Agents, u \in Backers :
          /\ lockedLiability[a] = 0 =>
                /\ Worth(a, u)' > 0 => ~SheetWithdraw(a, u)
                /\ Worth(a, u)' > 1 => ~WithdrawCommandAll(a, u)
          /\ CapitalLocked(Position(a, u)) /\ Worth(a, u) > 0 => lockedLiability[a] > 0]_allVars

-----------------------------------------------------------------------------
(* A fan's bets on one market, as the list adds them up *)

MyBets(u) == {b \in DOMAIN row.bet : row.bet[b].bettor = u}
BetMarkets(u) == {row.bet[b].market : b \in MyBets(u)}

Payouts(ids) == SumOver(ids, LAMBDA b : row.bet[b].payout)
Staked(ids) == SumOver(ids, LAMBDA b : row.bet[b].stake)

\* What came back: the payouts of bets won, the stakes of bets refunded.
Received_AnyPayout(group) ==
    Payouts({b \in group : row.bet[b].status \in {"Won", "Voided"}})
Received(group) ==
    Payouts({b \in group : row.bet[b].status = "Won"})
        + Staked({b \in group : row.bet[b].status = "Voided"})

SideStatus(statuses) ==
    IF "Won" \in statuses THEN "Won"
    ELSE IF statuses = {"Voided"} THEN "Voided" ELSE "Lost"

\* Bets on both sides are a cash-out, which pays the lesser side.
BetGroup(u, m) ==
    LET group == {b \in MyBets(u) : row.bet[b].market = m}
        On(side) == {b \in group : row.bet[b].side = side}
        statuses == {row.bet[b].status : b \in group}
        cashedOut == On("Yes") # {} /\ On("No") # {}
    IN  [side |-> IF cashedOut THEN None ELSE IF On("Yes") # {} THEN "Yes" ELSE "No",
         status |-> IF "Open" \in statuses THEN "Open"
                    ELSE IF cashedOut THEN "CashedOut" ELSE SideStatus(statuses),
         stake |-> Staked(group),
         payout |-> IF cashedOut THEN Lesser(Payouts(On("Yes")), Payouts(On("No")))
                    ELSE Payouts(group),
         received |-> Received(group)]

\* The list of a fan's bets is the fan's account of them: what it says came
\* back is what the router owes or has paid for them, whichever of a market's
\* bets were settled and refunded so far; a market shown as lost paid back no
\* more than bets refunded for coming too late; one shown as refunded paid its
\* whole stake; and a cash-out, whose amount is promised "whatever happens",
\* paid at least that, unless a bet of it was refunded (groupBets).
ListIsTheAccount ==
    \A u \in Fans : \A m \in BetMarkets(u) :
        LET g == BetGroup(u, m)
            mine == {b \in 1..betCount : bets[b].bettor = u /\ bets[b].marketId = m}
            late == {b \in mine : bets[b].status = "Voided"}
        IN  /\ g.received = SumOver(mine, LAMBDA b : Owed(bets[b]))
            /\ g.status = "Lost" => g.received = SumOver(late, LAMBDA b : bets[b].stake)
            /\ g.status = "Voided" => g.received = g.stake
            /\ g.status = "CashedOut" /\ late = {} => g.received >= g.payout

\* What the screens say of bets is what was settled: to the fans, bet by bet,
\* and to backers, in the order the agents are ranked in.
ShownAsSettled == ListIsTheAccount /\ RankedByEarnings
=============================================================================
