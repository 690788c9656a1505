----------------------------- MODULE MCBetting -----------------------------
(***************************************************************************)
(* Betting on a small instance, from a state a deployment reaches: the     *)
(* router is set, both agents are registered, one backer has funded their  *)
(* vaults, and one match and one template exist.                           *)
(***************************************************************************)
EXTENDS Betting

CONSTANTS fan, backer, k1, k2

SignedBy(key, agent, market, yes, no, size, expiry) ==
    [quote |-> [marketId |-> market, agentId |-> agent, probYesBps |-> yes,
                probNoBps |-> no, maxStake |-> size, expiry |-> expiry,
                salt |-> 0],
     signer |-> key]

MCSignedQuotes ==
    {SignedBy(k1, 1, 1, 4000, 6300, 3, 11),
     SignedBy(k2, 2, 1, 5000, 5300, 2, 12),
     SignedBy(k1, 1, 2, 4000, 6300, 2, 12)}

Funds == 4

MCInit ==
    /\ now = StartTime
    /\ balanceOf = [u \in Users |-> Funds]
    /\ matchCount = 1
    /\ marketCount = 0
    /\ templateEnabled = [t \in Templates |-> TRUE]
    /\ markets = [m \in Markets |-> NoMarket]
    /\ operator = [a \in Agents |-> backer]
    /\ totalAssets = [a \in Agents |-> Funds]
    /\ lockedLiability = [a \in Agents |-> 0]
    /\ marketExposure = [a \in Agents |-> [m \in Markets |-> 0]]
    /\ totalSupply = [a \in Agents |-> Funds * VirtualShares]
    /\ shares = [a \in Agents |-> [u \in Users |->
                    IF u = backer THEN Funds * VirtualShares ELSE 0]]
    /\ highWaterMark = [a \in Agents |-> MulDiv(Wad, 1, VirtualShares)]
    /\ lastDepositAt = [a \in Agents |-> [u \in Users |->
                    IF u = backer THEN StartTime ELSE 0]]
    /\ betRouterSet = TRUE
    /\ agentCount = 2
    /\ agents = [a \in Agents |-> [operator |-> backer, enabled |-> TRUE,
                                   quoteSigner |-> IF a = 1 THEN k1 ELSE k2]]
    /\ agentIdOfSigner = [s \in Signers |-> IF s = k1 THEN 1 ELSE 2]
    /\ RouterInit

Others == <<now, balanceOf, vaultVars, registryVars, routerVars>>

\* The registry and the templates stay put in this instance, every market
\* is opened at once and the backer moves assets in and out of one vault.
MCNext ==
    \/ /\ \/ \E t \in Templates, d \in BettingTimes : OpenMarket(1, t, now + d)
          \/ \E m \in Markets : Close(m, TRUE)
       /\ UNCHANGED Others
    \/ SettlerStep \/ FanStep \/ SettleStep \/ Tick
    \/ /\ \E assets \in DepositAmounts : Withdraw(1, backer, assets)
       /\ UNCHANGED <<now, marketVars, registryVars, routerVars>>

MCSpec == MCInit /\ [][MCNext]_vars
=============================================================================
