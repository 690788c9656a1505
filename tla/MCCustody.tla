----------------------------- MODULE MCCustody -----------------------------
(***************************************************************************)
(* The contracts and the indexer's rows together, on two small instances.  *)
(* The lifecycle starts from an empty deployment and enables every action  *)
(* of owner, operators, scheduler, settler, backer and fan, on one market  *)
(* and two agents that exchange their signing keys.  The vault is the life *)
(* of one vault: two backers and the operator move assets and shares in    *)
(* and out while bets are struck on one market, won, lost and refunded,    *)
(* fees are harvested, held prices and gifts are paid in; it starts when   *)
(* the agent is registered and its market has just opened.                 *)
(***************************************************************************)
EXTENDS Screens

CONSTANTS fan, op, b1, b2, k1, k2

-----------------------------------------------------------------------------
(* The lifecycle *)

\* Each key has signed for the first agent; k2 will have been the second's.
LifecycleQuotes ==
    {[quote |-> [marketId |-> 1, agentId |-> 1, probYesBps |-> 5000,
                 probNoBps |-> 5300, maxStake |-> 2, expiry |-> MaxTime,
                 salt |-> 0],
      signer |-> k] : k \in {k1, k2}}

LifecycleInit ==
    /\ now = StartTime
    /\ balanceOf = [u \in Users |-> 2]
    /\ MarketInit /\ VaultInit /\ RegistryInit /\ RouterInit /\ IndexInit

LifecycleNext == IndexedNext \/ AmountStep

\* Bets are settled and claimed again and again until it succeeds.
LifecycleSpec == LifecycleInit /\ [][LifecycleNext]_allVars /\ Fairness

-----------------------------------------------------------------------------
(* The vault *)

OneVaultQuotes ==
    {[quote |-> [marketId |-> 1, agentId |-> 1, probYesBps |-> 4000,
                 probNoBps |-> 6300, maxStake |-> 4, expiry |-> MaxTime,
                 salt |-> 0],
      signer |-> k1]}

OneVaultInit ==
    /\ now = StartTime
    /\ balanceOf = [u \in Users |-> CASE u = op -> 0 [] u = b2 -> 1 [] OTHER -> 2]
    /\ matchCount = 1
    /\ marketCount = 1
    /\ templateEnabled = [t \in Templates |-> TRUE]
    /\ markets = [m \in Markets |-> [NoMarket EXCEPT !.matchId = 1, !.state = "Open",
                                                    !.closesAt = StartTime + 1]]
    /\ operator = [a \in Agents |-> op]
    /\ totalAssets = [a \in Agents |-> 0]
    /\ lockedLiability = [a \in Agents |-> 0]
    /\ marketExposure = [a \in Agents |-> [m \in Markets |-> 0]]
    /\ totalSupply = [a \in Agents |-> 0]
    /\ shares = [a \in Agents |-> [u \in Users |-> 0]]
    /\ highWaterMark = [a \in Agents |-> MulDiv(Wad, 1, VirtualShares)]
    /\ lastDepositAt = [a \in Agents |-> [u \in Users |-> 0]]
    /\ betRouterSet = TRUE
    /\ agentCount = 1
    /\ agents = [a \in Agents |-> [operator |-> op, quoteSigner |-> k1,
                                   enabled |-> TRUE]]
    /\ agentIdOfSigner = [s \in Signers |-> 1]
    /\ RouterInit
    /\ row = FoldLeft(Handled, NoRows,
                      <<[event |-> "AgentRegistered", agent |-> 1, operator |-> op,
                         signer |-> k1],
                        [event |-> "MatchCreated", match |-> 1],
                        [event |-> "MarketOpened", market |-> 1, match |-> 1,
                         closesAt |-> StartTime + 1]>>)
    /\ fees = [a \in Agents |-> 0] /\ gifts = [a \in Agents |-> 0]

OneVaultNext ==
    \/ SettlerIndexed \/ BackerIndexed \/ FanIndexed \/ SettleIndexed \/ HarvestIndexed
    \/ PaidInStep \/ TickIndexed \/ AllStep \/ HarvestFees

OneVaultSpec == OneVaultInit /\ [][OneVaultNext]_allVars
=============================================================================
