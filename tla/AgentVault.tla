----------------------------- MODULE AgentVault -----------------------------
(***************************************************************************)
(* The vaults that back the agents: contracts/src/AgentVault.sol, an       *)
(* ERC-4626 vault whose shares carry VirtualShares virtual units.  Every   *)
(* variable is a function of the agent.  Placing a bet only books          *)
(* lockedLiability and marketExposure; assets move at settlement.  The     *)
(* ERC-4626 and ERC-20 parts are OpenZeppelin 5.1, modelled from the hooks *)
(* the vault overrides; an exit pays the shares' owner, and allowances     *)
(* are left out.                                                           *)
(***************************************************************************)
EXTENDS OddsMath, MarketManager

CONSTANTS
    Agents,                     \* agent ids, one vault each
    PerformanceFeeBps,
    MaxMarketExposureBps,
    WithdrawalCooldownSeconds,
    VirtualShares,              \* 10 ** _decimalsOffset()
    Wad                         \* the share amount a price is quoted for

ASSUME VaultConstants ==
    /\ PerformanceFeeBps \in 0..5000
    /\ MaxMarketExposureBps \in 0..BPS
    /\ WithdrawalCooldownSeconds \in Nat
    /\ VirtualShares \in Nat \ {0}
    /\ Wad \in Nat \ {0}

VARIABLES
    operator,           \* set at deployment; None until the vault exists
    totalAssets,        \* nUSD held by the vault
    lockedLiability,
    marketExposure,
    totalSupply,        \* shares in existence
    shares,             \* who holds them
    highWaterMark,
    lastDepositAt

vaultVars == <<operator, totalAssets, lockedLiability, marketExposure, totalSupply,
               shares, highWaterMark, lastDepositAt>>

VaultTypeOK ==
    /\ operator \in [Agents -> Users \cup {None}]
    /\ totalAssets \in [Agents -> Nat]
    /\ lockedLiability \in [Agents -> Nat]
    /\ marketExposure \in [Agents -> [Markets -> Nat]]
    /\ totalSupply \in [Agents -> Nat]
    /\ shares \in [Agents -> [Users -> Nat]]
    /\ highWaterMark \in [Agents -> Nat]
    /\ lastDepositAt \in [Agents -> [Users -> Nat]]

VaultInit ==
    /\ operator = [a \in Agents |-> None]
    /\ totalAssets = [a \in Agents |-> 0]
    /\ lockedLiability = [a \in Agents |-> 0]
    /\ marketExposure = [a \in Agents |-> [m \in Markets |-> 0]]
    /\ totalSupply = [a \in Agents |-> 0]
    /\ shares = [a \in Agents |-> [u \in Users |-> 0]]
    /\ highWaterMark = [a \in Agents |-> MulDiv(Wad, 1, VirtualShares)]
    /\ lastDepositAt = [a \in Agents |-> [u \in Users |-> 0]]

-----------------------------------------------------------------------------
(* Views *)

Deployed(a) == operator[a] # None

FreeCapital_IgnoresLocked(a) == totalAssets[a]
FreeCapital(a) ==
    IF totalAssets[a] > lockedLiability[a]
    THEN totalAssets[a] - lockedLiability[a]
    ELSE 0

ExposureCap(a) == MulDiv(totalAssets[a], MaxMarketExposureBps, BPS)

\* The smaller of free capital and the market's headroom under its cap.
QuotableBudget_NoHeadroom(a, m) == FreeCapital(a)
QuotableBudget(a, m) ==
    LET cap == ExposureCap(a)
        used == marketExposure[a][m]
    IN  Lesser(FreeCapital(a), IF cap > used THEN cap - used ELSE 0)

\* The conversions between shares and assets at given totals.
SharesFor(assets, supply, pool) ==
    MulDiv(assets, supply + VirtualShares, pool + 1)
SharesForUp(assets, supply, pool) ==
    MulDivUp(assets, supply + VirtualShares, pool + 1)
AssetsFor(amount, supply, pool) ==
    MulDiv(amount, pool + 1, supply + VirtualShares)
AssetsForUp(amount, supply, pool) ==
    MulDivUp(amount, pool + 1, supply + VirtualShares)

PricePerShare(a) == AssetsFor(Wad, totalSupply[a], totalAssets[a])

CooldownElapsed(a, u) ==
    now >= lastDepositAt[a][u] + WithdrawalCooldownSeconds

MaxWithdraw(a, u) ==
    IF CooldownElapsed(a, u)
    THEN Lesser(AssetsFor(shares[a][u], totalSupply[a], totalAssets[a]),
                FreeCapital(a))
    ELSE 0

MaxRedeem(a, u) ==
    IF CooldownElapsed(a, u)
    THEN Lesser(shares[a][u],
                SharesFor(FreeCapital(a), totalSupply[a], totalAssets[a]))
    ELSE 0

-----------------------------------------------------------------------------
(* Backers.  Entering moves assets in and mints to the receiver, whose     *)
(* whole position starts its cooldown again; leaving burns and pays out.   *)

Enter(a, caller, receiver, assets, minted) ==
    /\ Deployed(a)
    /\ balanceOf[caller] >= assets
    /\ balanceOf' = [balanceOf EXCEPT ![caller] = @ - assets]
    /\ totalAssets' = [totalAssets EXCEPT ![a] = @ + assets]
    /\ totalSupply' = [totalSupply EXCEPT ![a] = @ + minted]
    /\ shares' = [shares EXCEPT ![a][receiver] = @ + minted]
    /\ lastDepositAt' = [lastDepositAt EXCEPT ![a][receiver] = now]
    /\ UNCHANGED <<operator, lockedLiability, marketExposure, highWaterMark>>

Leave(a, owner, assets, burned) ==
    /\ Deployed(a)
    /\ shares[a][owner] >= burned
    /\ totalAssets[a] >= assets
    /\ balanceOf' = [balanceOf EXCEPT ![owner] = @ + assets]
    /\ totalAssets' = [totalAssets EXCEPT ![a] = @ - assets]
    /\ totalSupply' = [totalSupply EXCEPT ![a] = @ - burned]
    /\ shares' = [shares EXCEPT ![a][owner] = @ - burned]
    /\ UNCHANGED <<operator, lockedLiability, marketExposure, highWaterMark,
                   lastDepositAt>>

Deposit(a, caller, receiver, assets) ==
    Enter(a, caller, receiver, assets,
          SharesFor(assets, totalSupply[a], totalAssets[a]))

Mint(a, caller, receiver, amount) ==
    Enter(a, caller, receiver,
          AssetsForUp(amount, totalSupply[a], totalAssets[a]), amount)

Withdraw_RoundsDown(a, owner, assets) ==
    /\ assets <= MaxWithdraw(a, owner)
    /\ Leave(a, owner, assets, SharesFor(assets, totalSupply[a], totalAssets[a]))
Withdraw(a, owner, assets) ==
    /\ assets <= MaxWithdraw(a, owner)
    /\ Leave(a, owner, assets, SharesForUp(assets, totalSupply[a], totalAssets[a]))

Redeem(a, owner, amount) ==
    /\ amount <= MaxRedeem(a, owner)
    /\ Leave(a, owner, AssetsFor(amount, totalSupply[a], totalAssets[a]), amount)

\* Shares are an ERC-20 and move without a hook: neither side's cooldown changes.
TransferShares_Unchecked(a, from, to, amount) ==
    /\ Deployed(a)
    /\ shares' = [shares EXCEPT ![a] =
                    [u \in Users |-> @[u] - (IF u = from THEN amount ELSE 0)
                                          + (IF u = to THEN amount ELSE 0)]]
    /\ UNCHANGED <<balanceOf, operator, totalAssets, lockedLiability,
                   marketExposure, totalSupply, highWaterMark, lastDepositAt>>
TransferShares_StaleBalance(a, from, to, amount) ==
    /\ Deployed(a)
    /\ shares[a][from] >= amount
    /\ shares' = [shares EXCEPT ![a] =
                    [@ EXCEPT ![from] = shares[a][from] - amount,
                              ![to] = shares[a][to] + amount]]
    /\ UNCHANGED <<balanceOf, operator, totalAssets, lockedLiability,
                   marketExposure, totalSupply, highWaterMark, lastDepositAt>>
TransferShares(a, from, to, amount) ==
    /\ Deployed(a)
    /\ shares[a][from] >= amount
    /\ shares' = [shares EXCEPT ![a] =
                    [u \in Users |-> @[u] - (IF u = from THEN amount ELSE 0)
                                          + (IF u = to THEN amount ELSE 0)]]
    /\ UNCHANGED <<balanceOf, operator, totalAssets, lockedLiability,
                   marketExposure, totalSupply, highWaterMark, lastDepositAt>>

\* A plain nUSD transfer to the vault's address mints nothing.
Donate(a, from, assets) ==
    /\ Deployed(a)
    /\ balanceOf[from] >= assets
    /\ balanceOf' = [balanceOf EXCEPT ![from] = @ - assets]
    /\ totalAssets' = [totalAssets EXCEPT ![a] = @ + assets]
    /\ UNCHANGED <<operator, lockedLiability, marketExposure, totalSupply, shares,
                   highWaterMark, lastDepositAt>>

-----------------------------------------------------------------------------
(* Liability, driven by BetRouter *)

CanLock(a, m, liability) ==
    /\ liability <= FreeCapital(a)
    /\ marketExposure[a][m] + liability <= ExposureCap(a)

\* lockLiability, called once for every agent in DOMAIN fills.
LockLiability(m, fills) ==
    /\ \A a \in DOMAIN fills : CanLock(a, m, fills[a])
    /\ lockedLiability' =
         [a \in Agents |-> IF a \in DOMAIN fills
                           THEN lockedLiability[a] + fills[a]
                           ELSE lockedLiability[a]]
    /\ marketExposure' =
         [a \in Agents |-> IF a \in DOMAIN fills
                           THEN [marketExposure[a] EXCEPT ![m] = @ + fills[a]]
                           ELSE marketExposure[a]]

\* Solidity's checked subtraction: releasing more than is booked reverts.
Release(a, m, liability) ==
    /\ lockedLiability[a] >= liability
    /\ marketExposure[a][m] >= liability
    /\ lockedLiability' = [lockedLiability EXCEPT ![a] = @ - liability]
    /\ marketExposure' = [marketExposure EXCEPT ![a][m] = @ - liability]

\* The router has transferred the forfeited stake in just before the call.
SettleAgentWon(a, m, liability, stake) ==
    /\ Release(a, m, liability)
    /\ totalAssets' = [totalAssets EXCEPT ![a] = @ + stake]

\* The vault pays the liability to the router.
SettleAgentLost_KeepsLock(a, m, liability) ==
    /\ totalAssets[a] >= liability
    /\ totalAssets' = [totalAssets EXCEPT ![a] = @ - liability]
    /\ UNCHANGED <<lockedLiability, marketExposure>>
SettleAgentLost(a, m, liability) ==
    /\ Release(a, m, liability)
    /\ totalAssets[a] >= liability
    /\ totalAssets' = [totalAssets EXCEPT ![a] = @ - liability]

ReleaseVoided(a, m, liability) ==
    /\ Release(a, m, liability)
    /\ UNCHANGED totalAssets

-----------------------------------------------------------------------------
(* The performance fee.  Anybody may call harvest; it mints to the operator *)
(* out of the gain since the mark, and re-reads the mark after dilution.   *)

FeeAssets_WholePrice(a) ==
    MulDiv(MulDiv(PricePerShare(a), totalSupply[a], Wad), PerformanceFeeBps, BPS)
FeeAssets(a) ==
    MulDiv(MulDiv(PricePerShare(a) - highWaterMark[a], totalSupply[a], Wad),
           PerformanceFeeBps, BPS)

FeeShares(a) ==
    IF FeeAssets(a) = 0 \/ totalAssets[a] + 1 <= FeeAssets(a)
    THEN 0
    ELSE MulDiv(FeeAssets(a), totalSupply[a] + VirtualShares,
                totalAssets[a] + 1 - FeeAssets(a))

\* With nothing to mint the mark moves to the price as it is.
Harvest(a) ==
    LET minted == FeeShares(a)
    IN  /\ totalSupply[a] > 0
        /\ PricePerShare(a) > highWaterMark[a]
        /\ totalSupply' = [totalSupply EXCEPT ![a] = @ + minted]
        /\ shares' = [shares EXCEPT ![a][operator[a]] = @ + minted]
        /\ highWaterMark' =
             [highWaterMark EXCEPT ![a] =
                AssetsFor(Wad, totalSupply[a] + minted, totalAssets[a])]
        /\ UNCHANGED <<balanceOf, operator, totalAssets, lockedLiability,
                       marketExposure, lastDepositAt>>
=============================================================================
