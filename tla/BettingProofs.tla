---------------------------- MODULE BettingProofs ----------------------------
(***************************************************************************)
(* The betting core keeps its types and its vaults solvent, and nobody's   *)
(* deposit, withdrawal or harvest costs a backer more than the mark        *)
(* allows, for every set of users, markets, agents and quotes, every       *)
(* amount and every length of run. The arithmetic and the sums are         *)
(* OddsMathProofs'.                                                        *)
(***************************************************************************)
EXTENDS Betting, OddsMathProofs, FiniteSetTheorems, FunctionTheorems,
        SequenceTheorems

USE DEF ChainTypeOK, MarketTypeOK, VaultTypeOK, RegistryTypeOK, RouterTypeOK

\* The basis-point denominator, as a number the provers can use.
LEMMA BPSValue == BPS \in Nat /\ BPS \in Nat \ {0}
BY DEF BPS

-----------------------------------------------------------------------------
(* Initial states *)

\* A fresh deployment has the types of TypeOK.
LEMMA InitType == Init => TypeOK
<1>1. 0 \in Nat /\ 1 \in Nat /\ Wad \in Nat /\ VirtualShares \in Nat \ {0}
  BY VaultConstants
<1>2. MulDiv(Wad, 1, VirtualShares) \in Nat
  BY <1>1, MulDivBounds
<1>3. NoMarket \in Market
  BY DEF NoMarket, Market, MarketStates, Outcomes
<1>4. NoAgent \in Agent
  BY DEF NoAgent, Agent
<1>5. NoBet \in Bet
  BY DEF NoBet, Bet, Side, BetStatus
<1>. SUFFICES ASSUME Init PROVE TypeOK
  OBVIOUS
<1>6. ChainTypeOK
  BY ChainConstants DEF Init
<1>7. MarketTypeOK
  BY <1>3 DEF Init, MarketInit
<1>8. VaultTypeOK
  BY <1>2 DEF Init, VaultInit
<1>9. RegistryTypeOK
  BY <1>4 DEF Init, RegistryInit
<1>10. RouterTypeOK
  BY <1>5 DEF Init, RouterInit
<1>. QED  BY <1>6, <1>7, <1>8, <1>9, <1>10 DEF TypeOK

-----------------------------------------------------------------------------
(* The registry and the markets *)

\* Owners and operators keep the types.
LEMMA RegistryStepType ==
    ASSUME TypeOK, AdminStep \/ OperatorStep
    PROVE  TypeOK'
<1>1. CASE AdminStep
  <2>1. CASE SetBetRouter
    BY <1>1, <2>1 DEF TypeOK, AdminStep, SetBetRouter, marketVars, vaultVars,
                      routerVars
  <2>2. ASSUME NEW a \in Agents, NEW enabled \in BOOLEAN, SetEnabled(a, Owner, enabled)
        PROVE  TypeOK'
    <3>. DEFINE agent == [agents[a] EXCEPT !.enabled = enabled]
    <3>1. agents' \in [Agents -> Agent]
      <4>1. agents' = [agents EXCEPT ![a] = agent] /\ agents \in [Agents -> Agent]
        BY <2>2 DEF TypeOK, SetEnabled
      <4>2. agent \in Agent
        BY <4>1 DEF Agent
      <4>. HIDE DEF agent
      <4>. QED  BY <4>1, <4>2
    <3>. HIDE DEF agent
    <3>2. RegistryTypeOK'
      BY <2>2, <3>1 DEF TypeOK, SetEnabled
    <3>3. ChainTypeOK' /\ MarketTypeOK'
      BY <1>1 DEF TypeOK, AdminStep, marketVars
    <3>4. VaultTypeOK'
      BY <1>1 DEF TypeOK, AdminStep, vaultVars
    <3>5. RouterTypeOK'
      BY <1>1 DEF TypeOK, AdminStep, routerVars
    <3>. QED  BY <3>2, <3>3, <3>4, <3>5 DEF TypeOK
  <2>. QED  BY <1>1, <2>1, <2>2 DEF AdminStep
<1>2. CASE OperatorStep
  <2>1. PICK u \in Users :
            /\ \/ \E s \in Signers : Register(u, s)
               \/ /\ \/ \E a \in Agents, s \in Signers : SetQuoteSigner(a, u, s)
                     \/ \E a \in Agents, enabled \in BOOLEAN : SetEnabled(a, u, enabled)
                  /\ UNCHANGED operator
            /\ UNCHANGED <<now, balanceOf, marketVars, totalAssets, lockedLiability,
                           marketExposure, totalSupply, shares, highWaterMark,
                           lastDepositAt, routerVars>>
    BY <1>2 DEF OperatorStep
  <2>2. ASSUME NEW s \in Signers, Register(u, s)
        PROVE  RegistryTypeOK' /\ operator' \in [Agents -> Users \cup {None}]
    BY <2>2 DEF TypeOK, Register, Agent
  <2>3. ASSUME NEW a \in Agents, NEW s \in Signers, SetQuoteSigner(a, u, s)
        PROVE  RegistryTypeOK'
    <3>. DEFINE agent == [agents[a] EXCEPT !.quoteSigner = s]
    <3>1. agents' \in [Agents -> Agent]
      <4>1. agents' = [agents EXCEPT ![a] = agent] /\ agents \in [Agents -> Agent]
        BY <2>3 DEF TypeOK, SetQuoteSigner
      <4>2. agent \in Agent
        BY <4>1 DEF Agent
      <4>. HIDE DEF agent
      <4>. QED  BY <4>1, <4>2
    <3>2. agentIdOfSigner' \in [Signers -> Agents \cup {0}]
      BY <2>3 DEF TypeOK, SetQuoteSigner
    <3>. QED  BY <2>3, <3>1, <3>2 DEF TypeOK, SetQuoteSigner
  <2>4. ASSUME NEW a \in Agents, NEW enabled \in BOOLEAN, SetEnabled(a, u, enabled)
        PROVE  RegistryTypeOK'
    <3>. DEFINE agent == [agents[a] EXCEPT !.enabled = enabled]
    <3>1. agents' \in [Agents -> Agent]
      <4>1. agents' = [agents EXCEPT ![a] = agent] /\ agents \in [Agents -> Agent]
        BY <2>4 DEF TypeOK, SetEnabled
      <4>2. agent \in Agent
        BY <4>1 DEF Agent
      <4>. HIDE DEF agent
      <4>. QED  BY <4>1, <4>2
    <3>. HIDE DEF agent
    <3>. QED  BY <2>4, <3>1 DEF TypeOK, SetEnabled
  <2>5. RegistryTypeOK' /\ operator' \in [Agents -> Users \cup {None}]
    <3>1. CASE \E s \in Signers : Register(u, s)
      BY <2>2, <3>1
    <3>2. CASE UNCHANGED operator /\ RegistryTypeOK'
      BY <3>2 DEF TypeOK
    <3>. HIDE DEF RegistryTypeOK
    <3>. QED  BY <2>1, <2>3, <2>4, <3>1, <3>2
  <2>. QED  BY <2>1, <2>5 DEF TypeOK, marketVars, routerVars
<1>. QED  BY <1>1, <1>2

\* A slot of the market mapping can hold any market.
LEMMA MarketUpdate ==
    ASSUME MarketTypeOK, NEW m \in Markets, NEW market \in Market,
           markets' = [markets EXCEPT ![m] = market],
           UNCHANGED <<matchCount, marketCount, templateEnabled>>
    PROVE  MarketTypeOK'
OBVIOUS

\* The scheduler and the settler keep the types.
LEMMA MarketStepType ==
    ASSUME TypeOK, SchedulerStep \/ SettlerStep
    PROVE  TypeOK'
<1>. USE DEF Market, MarketStates, Outcomes
<1>1. MarketTypeOK'
  <2>0. MarketTypeOK /\ now \in Nat
    BY DEF TypeOK
  <2>1. \A m \in Markets : markets[m] \in Market
    BY <2>0
  <2>2. ASSUME NEW t \in Templates, NEW enabled \in BOOLEAN, SetTemplate(t, enabled)
        PROVE  MarketTypeOK'
    BY <2>0, <2>2 DEF SetTemplate
  <2>3. CASE CreateMatch
    BY <2>0, <2>3 DEF CreateMatch
  <2>4. ASSUME NEW id \in Matches, NEW t \in Templates, NEW d \in BettingTimes,
               OpenMarket(id, t, now + d)
        PROVE  MarketTypeOK'
    <3>. DEFINE market == [NoMarket EXCEPT !.matchId = id, !.closesAt = now + d,
                                           !.state = "Open"]
    <3>1. now + d \in Nat
      BY <2>0, BettingConstants
    <3>2. market \in Market
      BY <3>1 DEF NoMarket
    <3>. HIDE DEF market
    <3>3. /\ markets' = [markets EXCEPT ![marketCount + 1] = market]
          /\ marketCount + 1 \in Markets /\ marketCount' = marketCount + 1
          /\ UNCHANGED <<matchCount, templateEnabled>>
      BY <2>4 DEF OpenMarket, market
    <3>. QED  BY <2>0, <3>2, <3>3
  <2>5. ASSUME NEW m \in Markets, Suspend(m) \/ Resume(m) \/ Close(m, TRUE)
        PROVE  MarketTypeOK'
    <3>1. PICK state \in {"Open", "Suspended", "Closed"} :
              /\ markets' = [markets EXCEPT ![m].state = state]
              /\ UNCHANGED <<matchCount, marketCount, templateEnabled>>
      BY <2>5 DEF Suspend, Resume, Close
    <3>2. [markets[m] EXCEPT !.state = state] \in Market
      BY <2>1
    <3>. QED  BY <2>0, <3>1, <3>2, MarketUpdate
  <2>6. ASSUME NEW m \in Markets, NEW ts \in EventTimes \cup {0},
               Resolve(m, "Yes", ts) \/ Resolve(m, "No", 0)
        PROVE  MarketTypeOK'
    <3>1. PICK outcome \in {"Yes", "No"}, qts \in EventTimes \cup {0} :
              Resolve(m, outcome, qts)
      BY <2>6
    <3>2. qts \in Nat
      BY BettingConstants
    <3>3. [markets[m] EXCEPT !.state = "Resolved", !.outcome = outcome,
                             !.qualifyingEventTs = qts] \in Market
      BY <2>1, <3>2
    <3>. QED  BY <2>0, <3>1, <3>3, MarketUpdate DEF Resolve, Resolution
  <2>7. ASSUME NEW m \in Markets, VoidMarket(m)
        PROVE  MarketTypeOK'
    <3>1. [markets[m] EXCEPT !.state = "Voided", !.outcome = "Void"] \in Market
      BY <2>1
    <3>. QED  BY <2>0, <2>7, <3>1, MarketUpdate DEF VoidMarket, Voiding
  <2>. QED  BY <2>2, <2>3, <2>4, <2>5, <2>6, <2>7 DEF SchedulerStep, SettlerStep
<1>. QED  BY <1>1 DEF TypeOK, SchedulerStep, SettlerStep, vaultVars, registryVars,
                      routerVars

-----------------------------------------------------------------------------
(* The backers and the fee *)

\* The conversions of a vault whose counts are amounts are amounts.
LEMMA ConversionType ==
    ASSUME NEW x \in Nat, NEW supply \in Nat, NEW pool \in Nat
    PROVE  /\ SharesFor(x, supply, pool) \in Nat
           /\ SharesForUp(x, supply, pool) \in Nat
           /\ AssetsFor(x, supply, pool) \in Nat
           /\ AssetsForUp(x, supply, pool) \in Nat
<1>1. /\ supply + VirtualShares \in Nat \ {0} /\ pool + 1 \in Nat \ {0}
  BY VaultConstants
<1>. QED  BY <1>1, MulDivBounds, MulDivUpBounds
          DEF SharesFor, SharesForUp, AssetsFor, AssetsForUp

\* A deposit or a mint keeps the types of a vault.
LEMMA EnterType ==
    ASSUME TypeOK, NEW a \in Agents, NEW u \in Users, NEW r \in Users,
           NEW assets \in Nat, NEW minted \in Nat, Enter(a, u, r, assets, minted)
    PROVE  VaultTypeOK' /\ balanceOf' \in [Users -> Nat]
<1>1. /\ balanceOf' \in [Users -> Nat]
      /\ totalAssets' \in [Agents -> Nat]
      /\ totalSupply' \in [Agents -> Nat]
  BY DEF TypeOK, Enter
<1>2. /\ shares' \in [Agents -> [Users -> Nat]]
      /\ lastDepositAt' \in [Agents -> [Users -> Nat]]
  BY DEF TypeOK, Enter
<1>. QED  BY <1>1, <1>2 DEF TypeOK, Enter

\* Every user has a place in the order.
LEMMA PlaceOf ==
    /\ UserCount \in Nat
    /\ UserOrder \in [1..UserCount -> Users]
    /\ \A u \in Users : \E k \in 1..UserCount :
          {j \in 1..UserCount : UserOrder[j] = u} = {k}
<1>1. UserCount \in Nat /\ ExistsBijection(1..UserCount, Users)
  BY BettingConstants, FS_CardinalityType DEF UserCount
<1>2. PICK order : order \in Bijection(1..UserCount, Users)
  BY <1>1 DEF ExistsBijection
<1>3. /\ order \in [1..UserCount -> Users]
      /\ \A j, k \in 1..UserCount : order[j] = order[k] => j = k
      /\ \A u \in Users : \E k \in 1..UserCount : order[k] = u
  <2>. DEFINE S == 1..UserCount
  <2>1. order \in Bijection(S, Users)
    BY <1>2
  <2>. HIDE DEF S
  <2>2. /\ order \in [S -> Users]
        /\ \A a, b \in S : order[a] = order[b] => a = b
        /\ \A t \in Users : \E s \in S : order[s] = t
    BY <2>1, Fun_BijectionProperties
  <2>. QED  BY <2>2 DEF S
<1>4. \A u \in Users : \E k \in 1..UserCount :
          {j \in 1..UserCount : order[j] = u} = {k}
  BY <1>3
<1>5. \E f \in [1..UserCount -> Users] :
          \A u \in Users : \E k \in 1..UserCount :
              {j \in 1..UserCount : f[j] = u} = {k}
  BY <1>3, <1>4
<1>. QED  BY <1>1, <1>5, Zenon DEF UserOrder

\* One holder's shares are part of the supply.
LEMMA HoldingOfSupply ==
    ASSUME TypeOK, SharesAddUp, NEW a \in Agents, NEW u \in Users
    PROVE  shares[a][u] <= totalSupply[a]
<1>. DEFINE held == [k \in 1..UserCount |-> shares[a][UserOrder[k]]]
<1>1. held \in [1..UserCount -> Nat]
  BY PlaceOf DEF TypeOK
<1>2. PICK k \in 1..UserCount : UserOrder[k] = u
  BY PlaceOf
<1>3. held[k] = shares[a][u]
  BY <1>2
<1>. HIDE DEF held
<1>4. held[k] <= SumTo(held, UserCount)
  BY <1>1, PlaceOf, TermOfTotal
<1>. QED  BY <1>3, <1>4 DEF SharesAddUp, held

\* When one holder's shares change, their sum changes by as much.
LEMMA SharesMove ==
    ASSUME NEW a \in Agents, NEW u \in Users, NEW old \in [Users -> Nat],
           NEW new \in [Users -> Nat], \A v \in Users : v # u => new[v] = old[v]
    PROVE  SumTo([k \in 1..UserCount |-> new[UserOrder[k]]], UserCount) =
           SumTo([k \in 1..UserCount |-> old[UserOrder[k]]], UserCount)
              - old[u] + new[u]
<1>. DEFINE before == [k \in 1..UserCount |-> old[UserOrder[k]]]
            after == [k \in 1..UserCount |-> new[UserOrder[k]]]
<1>1. before \in [1..UserCount -> Int] /\ after \in [1..UserCount -> Int]
  BY PlaceOf
<1>2. PICK i \in 1..UserCount : {j \in 1..UserCount : UserOrder[j] = u} = {i}
  BY PlaceOf
<1>3. before[i] = old[u] /\ after[i] = new[u]
  BY <1>2
<1>4. \A k \in 1..UserCount : k # i => after[k] = before[k]
  BY <1>2, PlaceOf
<1>. HIDE DEF before, after
<1>5. SumTo(after, UserCount) = SumTo(before, UserCount) - before[i] + after[i]
  BY <1>1, <1>4, PlaceOf, TotalChange
<1>. QED  BY <1>3, <1>5 DEF before, after

\* A withdrawal or a redemption keeps the types of a vault: the supply is
\* not below what is burned, because it is not below one holder's shares.
LEMMA LeaveType ==
    ASSUME TypeOK, SharesAddUp, NEW a \in Agents, NEW u \in Users,
           NEW assets \in Nat, NEW burned \in Nat, Leave(a, u, assets, burned)
    PROVE  VaultTypeOK' /\ balanceOf' \in [Users -> Nat]
<1>1. /\ shares[a][u] >= burned /\ totalAssets[a] >= assets
      /\ shares[a][u] \in Nat /\ totalAssets[a] \in Nat /\ totalSupply[a] \in Nat
  BY DEF TypeOK, Leave
<1>2. shares[a][u] <= totalSupply[a]
  BY HoldingOfSupply
<1>3. /\ balanceOf' \in [Users -> Nat]
      /\ totalAssets' \in [Agents -> Nat]
  BY <1>1 DEF TypeOK, Leave
<1>4. totalSupply' \in [Agents -> Nat]
  BY <1>1, <1>2 DEF TypeOK, Leave
<1>5. shares' \in [Agents -> [Users -> Nat]]
  BY <1>1 DEF TypeOK, Leave
<1>. QED  BY <1>3, <1>4, <1>5 DEF TypeOK, Leave

\* What is proved of the vaults: shares add up, they exist only in deployed
\* vaults, and booked liability is covered.  Each needs the others: a burn
\* and a fee keep the sum only because holders and operators are users, a
\* withdrawal keeps the cover only because conversions are what they seem.
SharesNeedVault == \A a \in Agents : totalSupply[a] > 0 => operator[a] \in Users

VaultInv == SharesAddUp /\ SharesNeedVault /\ Solvent

\* What is proved of the bets: a bet that exists names a vault, a market and
\* a user, and promises no less than it took.
BetSound(bet) ==
    bet.status # "None" =>
        /\ bet.agentId \in Agents /\ bet.marketId \in Markets /\ bet.bettor \in Users
        /\ bet.stake > 0 /\ bet.payout >= bet.stake

BetsSound == \A b \in BetIds : BetSound(bets[b])

IInv == TypeOK /\ VaultInv /\ BetsSound

\* Free capital is what is not locked, and never more than the assets.
LEMMA FreeCapitalValue ==
    ASSUME IInv, NEW a \in Agents
    PROVE  /\ FreeCapital(a) = totalAssets[a] - lockedLiability[a]
           /\ FreeCapital(a) \in Nat
<1>1. /\ totalAssets[a] \in Nat /\ lockedLiability[a] \in Nat
      /\ totalAssets[a] >= lockedLiability[a]
  BY DEF IInv, TypeOK, VaultInv, Solvent
<1>. QED  BY <1>1 DEF FreeCapital

\* A deposit or a mint keeps what is proved of the vaults.
LEMMA EnterInv ==
    ASSUME IInv, NEW a \in Agents, NEW u \in Users, NEW r \in Users,
           NEW assets \in Nat, NEW minted \in Nat, Enter(a, u, r, assets, minted)
    PROVE  VaultTypeOK' /\ balanceOf' \in [Users -> Nat] /\ VaultInv'
<1>1. VaultTypeOK' /\ balanceOf' \in [Users -> Nat]
  BY EnterType DEF IInv
<1>2. SharesNeedVault'
  BY DEF IInv, VaultInv, SharesNeedVault, TypeOK, Enter, Deployed
<1>3. Solvent'
  BY DEF IInv, VaultInv, Solvent, TypeOK, Enter
<1>4. SharesAddUp'
  <2>1. ASSUME NEW b \in Agents
        PROVE  totalSupply'[b] =
                  SumTo([k \in 1..UserCount |-> shares'[b][UserOrder[k]]], UserCount)
    <3>1. CASE b # a
      BY <3>1 DEF IInv, VaultInv, SharesAddUp, TypeOK, Enter
    <3>2. CASE b = a
      <4>1. /\ shares[a] \in [Users -> Nat] /\ shares'[a] \in [Users -> Nat]
            /\ \A v \in Users : v # r => shares'[a][v] = shares[a][v]
            /\ shares'[a][r] = shares[a][r] + minted
            /\ totalSupply'[a] = totalSupply[a] + minted
            /\ totalSupply[a] \in Nat /\ shares[a][r] \in Nat
        BY <1>1 DEF IInv, TypeOK, Enter
      <4>2. SumTo([k \in 1..UserCount |-> shares'[a][UserOrder[k]]], UserCount) =
            SumTo([k \in 1..UserCount |-> shares[a][UserOrder[k]]], UserCount)
               - shares[a][r] + shares'[a][r]
        BY <4>1, SharesMove
      <4>3. totalSupply[a] =
              SumTo([k \in 1..UserCount |-> shares[a][UserOrder[k]]], UserCount)
        BY DEF IInv, VaultInv, SharesAddUp
      <4>. QED  BY <3>2, <4>1, <4>2, <4>3
    <3>. QED  BY <3>1, <3>2
  <2>. QED  BY <2>1 DEF SharesAddUp
<1>. QED  BY <1>1, <1>2, <1>3, <1>4 DEF VaultInv

\* An exit within free capital keeps what is proved of the vaults.
LEMMA LeaveInv ==
    ASSUME IInv, NEW a \in Agents, NEW u \in Users, NEW assets \in Nat,
           NEW burned \in Nat, Leave(a, u, assets, burned), assets <= FreeCapital(a)
    PROVE  VaultTypeOK' /\ balanceOf' \in [Users -> Nat] /\ VaultInv'
<1>1. VaultTypeOK' /\ balanceOf' \in [Users -> Nat]
  BY LeaveType DEF IInv, VaultInv
<1>2. SharesNeedVault'
  BY DEF IInv, VaultInv, SharesNeedVault, TypeOK, Leave, Deployed
<1>3. Solvent'
  <2>1. totalAssets[a] - assets >= lockedLiability[a]
    BY FreeCapitalValue DEF IInv, TypeOK
  <2>. QED  BY <2>1 DEF IInv, VaultInv, Solvent, TypeOK, Leave
<1>4. SharesAddUp'
  <2>1. ASSUME NEW b \in Agents
        PROVE  totalSupply'[b] =
                  SumTo([k \in 1..UserCount |-> shares'[b][UserOrder[k]]], UserCount)
    <3>1. CASE b # a
      BY <3>1 DEF IInv, VaultInv, SharesAddUp, TypeOK, Leave
    <3>2. CASE b = a
      <4>1. /\ shares[a] \in [Users -> Nat] /\ shares'[a] \in [Users -> Nat]
            /\ \A v \in Users : v # u => shares'[a][v] = shares[a][v]
            /\ shares'[a][u] = shares[a][u] - burned
            /\ totalSupply'[a] = totalSupply[a] - burned
            /\ totalSupply[a] \in Nat /\ shares[a][u] \in Nat
        BY <1>1 DEF IInv, TypeOK, Leave
      <4>2. SumTo([k \in 1..UserCount |-> shares'[a][UserOrder[k]]], UserCount) =
            SumTo([k \in 1..UserCount |-> shares[a][UserOrder[k]]], UserCount)
               - shares[a][u] + shares'[a][u]
        BY <4>1, SharesMove
      <4>3. totalSupply[a] =
              SumTo([k \in 1..UserCount |-> shares[a][UserOrder[k]]], UserCount)
        BY DEF IInv, VaultInv, SharesAddUp
      <4>. QED  BY <3>2, <4>1, <4>2, <4>3
    <3>. QED  BY <3>1, <3>2
  <2>. QED  BY <2>1 DEF SharesAddUp
<1>. QED  BY <1>1, <1>2, <1>3, <1>4 DEF VaultInv

\* What maxWithdraw and maxRedeem let out is within free capital.
LEMMA ExitWithinFreeCapital ==
    ASSUME IInv, NEW a \in Agents, NEW u \in Users, NEW amount \in Nat
    PROVE  /\ amount <= MaxWithdraw(a, u) => amount <= FreeCapital(a)
           /\ amount <= MaxRedeem(a, u) =>
                AssetsFor(amount, totalSupply[a], totalAssets[a]) <= FreeCapital(a)
<1>. DEFINE free == FreeCapital(a)
            supply == totalSupply[a]
            pool == totalAssets[a]
<1>1. /\ free \in Nat /\ supply \in Nat /\ pool \in Nat /\ shares[a][u] \in Nat
      /\ supply + VirtualShares \in Nat \ {0} /\ pool + 1 \in Nat \ {0}
  BY FreeCapitalValue, VaultConstants DEF IInv, TypeOK
<1>2. AssetsFor(shares[a][u], supply, pool) \in Nat /\ SharesFor(free, supply, pool) \in Nat
  BY <1>1, ConversionType
<1>3. amount <= MaxWithdraw(a, u) => amount <= FreeCapital(a)
  BY <1>1, <1>2 DEF MaxWithdraw, Lesser
<1>4. ASSUME amount <= MaxRedeem(a, u)
      PROVE  AssetsFor(amount, supply, pool) <= free
  <2>1. amount <= SharesFor(free, supply, pool)
    BY <1>1, <1>2, <1>4 DEF MaxRedeem, Lesser
  <2>. HIDE DEF free, supply, pool
  <2>2. amount <= MulDiv(free, supply + VirtualShares, pool + 1)
    BY <2>1 DEF SharesFor
  <2>3. MulDiv(amount, pool + 1, supply + VirtualShares) <= free
    BY <1>1, <2>2, RoundTrip
  <2>. QED  BY <2>3 DEF AssetsFor
<1>. QED  BY <1>3, <1>4

\* Moving shares, to oneself too, keeps what is proved of the vaults.
LEMMA TransferInv ==
    ASSUME IInv, NEW a \in Agents, NEW u \in Users, NEW v \in Users,
           NEW amount \in Nat, TransferShares(a, u, v, amount)
    PROVE  VaultTypeOK' /\ balanceOf' \in [Users -> Nat] /\ VaultInv'
<1>1. /\ shares[a] \in [Users -> Nat] /\ shares[a][u] >= amount
      /\ shares' = [shares EXCEPT ![a] =
                      [w \in Users |-> shares[a][w] - (IF w = u THEN amount ELSE 0)
                                                    + (IF w = v THEN amount ELSE 0)]]
  BY DEF IInv, TypeOK, TransferShares
<1>. DEFINE taken == [shares[a] EXCEPT ![u] = shares[a][u] - amount]
            given == [taken EXCEPT ![v] = taken[v] + amount]
<1>2. taken \in [Users -> Nat] /\ given \in [Users -> Nat]
  BY <1>1
<1>3. shares'[a] = given
  <2>1. shares'[a] = [w \in Users |-> shares[a][w] - (IF w = u THEN amount ELSE 0)
                                                   + (IF w = v THEN amount ELSE 0)]
    BY <1>1 DEF IInv, TypeOK
  <2>2. \A w \in Users : /\ taken[w] = shares[a][w] - (IF w = u THEN amount ELSE 0)
                         /\ given[w] = taken[w] + (IF w = v THEN amount ELSE 0)
    BY <1>1, <1>2
  <2>3. given = [w \in Users |-> given[w]]
    BY <1>2
  <2>. HIDE DEF taken, given
  <2>4. given = [w \in Users |-> shares[a][w] - (IF w = u THEN amount ELSE 0)
                                              + (IF w = v THEN amount ELSE 0)]
    BY <2>2, <2>3
  <2>. QED  BY <2>1, <2>4
<1>4. shares' = [shares EXCEPT ![a] = given]
  BY <1>1, <1>3 DEF IInv, TypeOK
<1>. HIDE DEF given
<1>5. VaultTypeOK' /\ balanceOf' \in [Users -> Nat]
  BY <1>2, <1>4 DEF IInv, TypeOK, TransferShares
<1>6. SharesNeedVault' /\ Solvent'
  BY DEF IInv, VaultInv, SharesNeedVault, Solvent, TransferShares
<1>7. SharesAddUp'
  <2>1. ASSUME NEW b \in Agents
        PROVE  totalSupply'[b] =
                  SumTo([k \in 1..UserCount |-> shares'[b][UserOrder[k]]], UserCount)
    <3>1. CASE b # a
      BY <3>1, <1>4 DEF IInv, VaultInv, SharesAddUp, TypeOK, TransferShares
    <3>2. CASE b = a
      <4>. DEFINE S(f) == SumTo([k \in 1..UserCount |-> f[UserOrder[k]]], UserCount)
      <4>1. /\ taken[u] = shares[a][u] - amount
            /\ \A w \in Users : w # u => taken[w] = shares[a][w]
            /\ given[v] = taken[v] + amount
            /\ \A w \in Users : w # v => given[w] = taken[w]
        BY <1>1, <1>2 DEF given
      <4>2. /\ shares[a][u] \in Nat /\ taken[u] \in Nat
            /\ taken[v] \in Nat /\ given[v] \in Nat
        BY <1>1, <1>2
      <4>. HIDE DEF taken
      <4>3. S(taken) = S(shares[a]) - shares[a][u] + taken[u]
        BY <1>1, <1>2, <4>1, SharesMove
      <4>4. S(given) = S(taken) - taken[v] + given[v]
        BY <1>2, <4>1, SharesMove
      <4>5. totalSupply[a] = S(shares[a]) /\ totalSupply[a] \in Nat
        BY DEF IInv, VaultInv, SharesAddUp, TypeOK
      <4>6. totalSupply' = totalSupply
        BY DEF TransferShares
      <4>. HIDE DEF S
      <4>7. S(given) = S(shares[a])
        BY <4>1, <4>2, <4>3, <4>4, <4>5
      <4>. QED  BY <1>3, <3>2, <4>5, <4>6, <4>7 DEF S
    <3>. QED  BY <3>1, <3>2
  <2>. QED  BY <2>1 DEF SharesAddUp
<1>. QED  BY <1>5, <1>6, <1>7 DEF VaultInv

\* A plain transfer to a vault keeps what is proved of the vaults.
LEMMA DonateInv ==
    ASSUME IInv, NEW a \in Agents, NEW u \in Users, NEW assets \in Nat,
           Donate(a, u, assets)
    PROVE  VaultTypeOK' /\ balanceOf' \in [Users -> Nat] /\ VaultInv'
<1>1. balanceOf' \in [Users -> Nat] /\ totalAssets' \in [Agents -> Nat]
  BY DEF IInv, TypeOK, Donate
<1>2. VaultTypeOK'
  BY <1>1 DEF IInv, TypeOK, Donate
<1>3. Solvent'
  BY DEF IInv, TypeOK, VaultInv, Solvent, Donate
<1>4. SharesNeedVault' /\ SharesAddUp'
  BY DEF IInv, VaultInv, SharesNeedVault, SharesAddUp, Donate
<1>. QED  BY <1>1, <1>2, <1>3, <1>4 DEF VaultInv

\* Backers keep the invariant.
LEMMA BackerStepInv ==
    ASSUME IInv, BackerStep
    PROVE  IInv'
<1>1. PICK a \in Agents, u \in Backers :
          \/ \E assets \in DepositAmounts :
                \/ \E r \in Backers : Deposit(a, u, r, assets)
                \/ Withdraw(a, u, assets)
                \/ Donate(a, u, assets)
          \/ \E amount \in ShareAmounts :
                \/ \E r \in Backers : Mint(a, u, r, amount)
                \/ Redeem(a, u, amount)
                \/ \E to \in Backers : TransferShares(a, u, to, amount)
  BY DEF BackerStep
<1>2. /\ u \in Users /\ \A r \in Backers : r \in Users
      /\ \A x \in DepositAmounts \cup ShareAmounts : x \in Nat
  BY BettingConstants
<1>3. totalSupply[a] \in Nat /\ totalAssets[a] \in Nat
  BY DEF IInv, TypeOK
<1>. DEFINE Goal == VaultTypeOK' /\ balanceOf' \in [Users -> Nat] /\ VaultInv'
<1>4. ASSUME NEW assets \in DepositAmounts, NEW r \in Backers, Deposit(a, u, r, assets)
      PROVE  Goal
  BY <1>2, <1>3, <1>4, ConversionType, EnterInv DEF Deposit
<1>5. ASSUME NEW assets \in DepositAmounts, Withdraw(a, u, assets)
      PROVE  Goal
  BY <1>2, <1>3, <1>5, ConversionType, ExitWithinFreeCapital, LeaveInv DEF Withdraw
<1>6. ASSUME NEW assets \in DepositAmounts, Donate(a, u, assets)
      PROVE  Goal
  BY <1>2, <1>6, DonateInv
<1>7. ASSUME NEW amount \in ShareAmounts, NEW r \in Backers, Mint(a, u, r, amount)
      PROVE  Goal
  BY <1>2, <1>3, <1>7, ConversionType, EnterInv DEF Mint
<1>8. ASSUME NEW amount \in ShareAmounts, Redeem(a, u, amount)
      PROVE  Goal
  BY <1>2, <1>3, <1>8, ConversionType, ExitWithinFreeCapital, LeaveInv DEF Redeem
<1>9. ASSUME NEW amount \in ShareAmounts, NEW to \in Backers,
             TransferShares(a, u, to, amount)
      PROVE  Goal
  BY <1>2, <1>9, TransferInv
<1>10. Goal
  BY <1>1, <1>4, <1>5, <1>6, <1>7, <1>8, <1>9
<1>11. BetsSound'
  BY DEF IInv, BetsSound, BackerStep, routerVars
<1>. QED  BY <1>10, <1>11 DEF IInv, TypeOK, BackerStep, marketVars, registryVars,
                              routerVars

\* Charging the fee keeps the invariant.
LEMMA HarvestStepInv ==
    ASSUME IInv, HarvestStep
    PROVE  IInv'
<1>1. PICK a \in Agents : Harvest(a)
  BY DEF HarvestStep
<1>. DEFINE supply == totalSupply[a]
            pool == totalAssets[a]
            minted == FeeShares(a)
            user == operator[a]
<1>2. /\ supply \in Nat /\ pool \in Nat /\ supply > 0 /\ user \in Users
      /\ highWaterMark[a] \in Nat /\ PricePerShare(a) > highWaterMark[a]
  BY <1>1 DEF IInv, TypeOK, VaultInv, SharesNeedVault, Harvest
<1>0. Wad \in Nat
  BY VaultConstants
<1>3. minted \in Nat
  <2>1. PricePerShare(a) \in Nat
    <3>1. AssetsFor(Wad, supply, pool) \in Nat
      BY <1>0, <1>2, ConversionType
    <3>. QED  BY <3>1 DEF PricePerShare
  <2>2. PricePerShare(a) - highWaterMark[a] \in Nat
    BY <1>2, <2>1
  <2>3. PerformanceFeeBps \in Nat /\ BPS \in Nat \ {0} /\ Wad \in Nat \ {0}
    BY VaultConstants, BPSValue
  <2>4. MulDiv(PricePerShare(a) - highWaterMark[a], supply, Wad) \in Nat
    BY <1>2, <2>2, <2>3, MulDivBounds
  <2>5. FeeAssets(a) \in Nat
    BY <2>3, <2>4, MulDivBounds DEF FeeAssets
  <2>. QED
    <3>1. CASE FeeAssets(a) = 0 \/ pool + 1 <= FeeAssets(a)
      BY <3>1 DEF FeeShares
    <3>2. CASE ~(FeeAssets(a) = 0 \/ pool + 1 <= FeeAssets(a))
      <4>1. /\ supply + VirtualShares \in Nat
            /\ pool + 1 - FeeAssets(a) \in Nat \ {0}
        BY <1>2, <2>5, <3>2, VaultConstants
      <4>2. MulDiv(FeeAssets(a), supply + VirtualShares, pool + 1 - FeeAssets(a)) \in Nat
        BY <2>5, <4>1, MulDivBounds
      <4>. QED  BY <3>2, <4>2 DEF FeeShares
    <3>. QED  BY <3>1, <3>2
<1>4. /\ totalSupply' = [totalSupply EXCEPT ![a] = supply + minted]
      /\ shares' = [shares EXCEPT ![a][user] = shares[a][user] + minted]
      /\ highWaterMark' = [highWaterMark EXCEPT ![a] =
                             AssetsFor(Wad, supply + minted, pool)]
      /\ UNCHANGED <<balanceOf, operator, totalAssets, lockedLiability,
                     marketExposure, lastDepositAt>>
      /\ UNCHANGED <<now, marketVars, registryVars, routerVars>>
  BY <1>1 DEF HarvestStep, Harvest
<1>. HIDE DEF minted
<1>5. AssetsFor(Wad, supply + minted, pool) \in Nat
  <2>1. supply + minted \in Nat
    BY <1>2, <1>3
  <2>. QED  BY <1>0, <1>2, <2>1, ConversionType
<1>6. TypeOK'
  <2>1. totalSupply' \in [Agents -> Nat] /\ highWaterMark' \in [Agents -> Nat]
    BY <1>2, <1>3, <1>4, <1>5 DEF IInv, TypeOK
  <2>2. shares' \in [Agents -> [Users -> Nat]]
    BY <1>2, <1>3, <1>4 DEF IInv, TypeOK
  <2>. QED  BY <1>4, <2>1, <2>2 DEF IInv, TypeOK, marketVars, registryVars, routerVars
<1>7. Solvent' /\ SharesNeedVault'
  <2>1. Solvent'
    BY <1>4 DEF IInv, VaultInv, Solvent
  <2>2. SharesNeedVault'
    BY <1>2, <1>4 DEF IInv, TypeOK, VaultInv, SharesNeedVault
  <2>. QED  BY <2>1, <2>2
<1>8. SharesAddUp'
  <2>1. ASSUME NEW b \in Agents
        PROVE  totalSupply'[b] =
                  SumTo([k \in 1..UserCount |-> shares'[b][UserOrder[k]]], UserCount)
    <3>1. CASE b # a
      BY <3>1, <1>4 DEF IInv, VaultInv, SharesAddUp, TypeOK
    <3>2. CASE b = a
      <4>1. /\ shares[a] \in [Users -> Nat] /\ shares'[a] \in [Users -> Nat]
            /\ \A v \in Users : v # user => shares'[a][v] = shares[a][v]
            /\ shares'[a][user] = shares[a][user] + minted
            /\ totalSupply'[a] = totalSupply[a] + minted
            /\ shares[a][user] \in Nat
        BY <1>2, <1>3, <1>4 DEF IInv, TypeOK
      <4>2. SumTo([k \in 1..UserCount |-> shares'[a][UserOrder[k]]], UserCount) =
            SumTo([k \in 1..UserCount |-> shares[a][UserOrder[k]]], UserCount)
               - shares[a][user] + shares'[a][user]
        BY <1>2, <4>1, SharesMove
      <4>3. totalSupply[a] =
              SumTo([k \in 1..UserCount |-> shares[a][UserOrder[k]]], UserCount)
        BY DEF IInv, VaultInv, SharesAddUp
      <4>. QED  BY <1>2, <1>3, <3>2, <4>1, <4>2, <4>3
    <3>. QED  BY <3>1, <3>2
  <2>. QED  BY <2>1 DEF SharesAddUp
<1>9. BetsSound'
  BY <1>4 DEF IInv, BetsSound, routerVars
<1>. QED  BY <1>6, <1>7, <1>8, <1>9 DEF IInv, VaultInv

-----------------------------------------------------------------------------
(* Steps that leave the vaults alone *)

\* Owners and operators keep the invariant; a vault gets its operator once.
LEMMA RegistryStepInv ==
    ASSUME IInv, AdminStep \/ OperatorStep
    PROVE  IInv'
<1>1. TypeOK'
  BY RegistryStepType DEF IInv
<1>2. /\ UNCHANGED <<totalAssets, lockedLiability, totalSupply, shares, bets>>
      /\ \A a \in Agents : operator[a] \in Users => operator'[a] \in Users
  <2>1. CASE AdminStep
    BY <2>1 DEF AdminStep, vaultVars, routerVars
  <2>2. CASE OperatorStep
    <3>1. PICK u \in Users :
              /\ (\E s \in Signers : Register(u, s)) \/ UNCHANGED operator
              /\ UNCHANGED <<totalAssets, lockedLiability, totalSupply, shares,
                             routerVars>>
      BY <2>2 DEF OperatorStep
    <3>2. ASSUME NEW s \in Signers, Register(u, s), NEW a \in Agents,
                 operator[a] \in Users
          PROVE  operator'[a] \in Users
      BY <3>2 DEF IInv, TypeOK, Register
    <3>. QED  BY <3>1, <3>2 DEF routerVars
  <2>. QED  BY <2>1, <2>2
<1>3. SharesNeedVault'
  BY <1>2 DEF IInv, VaultInv, SharesNeedVault
<1>4. SharesAddUp' /\ Solvent' /\ BetsSound'
  BY <1>2 DEF IInv, VaultInv, SharesAddUp, Solvent, BetsSound
<1>. QED  BY <1>1, <1>3, <1>4 DEF IInv, VaultInv

\* The scheduler and the settler keep the invariant.
LEMMA MarketStepInv ==
    ASSUME IInv, SchedulerStep \/ SettlerStep
    PROVE  IInv'
<1>1. TypeOK'
  BY MarketStepType DEF IInv
<1>2. UNCHANGED <<vaultVars, bets>>
  BY DEF SchedulerStep, SettlerStep, routerVars
<1>. QED  BY <1>1, <1>2 DEF IInv, VaultInv, SharesNeedVault, SharesAddUp, Solvent,
                           BetsSound, vaultVars

\* Time keeps the invariant.
LEMMA TickInv ==
    ASSUME IInv, Tick
    PROVE  IInv'
<1>1. TypeOK'
  BY DEF IInv, TypeOK, Tick, TickBlock, marketVars, vaultVars, registryVars, routerVars
<1>2. UNCHANGED <<vaultVars, bets>>
  BY DEF Tick, routerVars
<1>. QED  BY <1>1, <1>2 DEF IInv, VaultInv, SharesNeedVault, SharesAddUp, Solvent,
                           BetsSound, vaultVars

-----------------------------------------------------------------------------
(* Settling and claiming *)

\* Releasing a liability leaves amounts.
LEMMA ReleaseType ==
    ASSUME VaultTypeOK, NEW a \in Agents, NEW m \in Markets, NEW liability \in Nat,
           Release(a, m, liability)
    PROVE  /\ lockedLiability[a] >= liability
           /\ lockedLiability' = [lockedLiability EXCEPT
                                    ![a] = lockedLiability[a] - liability]
           /\ lockedLiability' \in [Agents -> Nat]
           /\ marketExposure' \in [Agents -> [Markets -> Nat]]
<1>1. /\ lockedLiability[a] \in Nat /\ lockedLiability[a] >= liability
      /\ marketExposure[a][m] \in Nat /\ marketExposure[a][m] >= liability
  BY DEF Release
<1>2. lockedLiability' \in [Agents -> Nat]
  BY <1>1 DEF Release
<1>3. marketExposure' \in [Agents -> [Markets -> Nat]]
  BY <1>1 DEF Release
<1>. QED  BY <1>1, <1>2, <1>3 DEF Release

\* Settling a bet keeps the invariant, whichever way it ends.
LEMMA SettleStepInv ==
    ASSUME IInv, SettleStep
    PROVE  IInv'
<1>1. PICK b \in BetIds : SettleBatch(b)
  BY DEF SettleStep
<1>. DEFINE a == bets[b].agentId
            m == bets[b].marketId
            stake == bets[b].stake
            liability == Liability(b)
<1>2. /\ a \in Agents /\ m \in Markets /\ stake \in Nat /\ liability \in Nat
      /\ bets[b] \in Bet /\ BetSound(bets[b]) /\ bets[b].status = "Open"
  <2>1. bets[b].status = "Open"
    BY <1>1 DEF SettleBatch, SettleVoided, SettleWon, SettleLost, Settleable
  <2>2. bets[b] \in Bet /\ BetSound(bets[b])
    BY DEF IInv, TypeOK, BetsSound
  <2>. QED  BY <2>1, <2>2 DEF BetSound, Bet, Liability
<1>3. /\ UNCHANGED <<balanceOf, operator, totalSupply, shares, highWaterMark,
                     lastDepositAt, betCount, quoteFilled, claimed>>
      /\ UNCHANGED <<now, marketVars, registryVars>>
  BY <1>1 DEF SettleStep, SettleBatch
<1>4. PICK status \in {"Won", "Lost", "Voided"} : SetStatus(b, status)
  BY <1>1 DEF SettleBatch, SettleVoided, SettleWon, SettleLost
<1>5. /\ Release(a, m, liability)
      /\ \/ UNCHANGED <<totalAssets, escrow>>
         \/ /\ totalAssets[a] >= liability
            /\ totalAssets' = [totalAssets EXCEPT ![a] = totalAssets[a] - liability]
            /\ escrow' = escrow + liability
         \/ /\ escrow >= stake /\ escrow' = escrow - stake
            /\ totalAssets' = [totalAssets EXCEPT ![a] = totalAssets[a] + stake]
  BY <1>1 DEF SettleBatch, SettleVoided, SettleWon, SettleLost, ReleaseVoided,
              SettleAgentLost, SettleAgentWon
<1>6. VaultTypeOK /\ escrow \in Nat /\ totalAssets[a] \in Nat /\ lockedLiability[a] \in Nat
  BY <1>2 DEF IInv, TypeOK
<1>. HIDE DEF a, m, stake, liability
<1>7. /\ lockedLiability[a] >= liability
      /\ lockedLiability' = [lockedLiability EXCEPT ![a] = lockedLiability[a] - liability]
      /\ lockedLiability' \in [Agents -> Nat]
      /\ marketExposure' \in [Agents -> [Markets -> Nat]]
  BY <1>2, <1>5, <1>6, ReleaseType
<1>. DEFINE after == totalAssets'[a]
<1>8. /\ after \in Nat /\ after >= totalAssets[a] - liability
      /\ totalAssets' = [totalAssets EXCEPT ![a] = after]
      /\ escrow' \in Nat
  <2>1. CASE UNCHANGED <<totalAssets, escrow>>
    BY <1>2, <1>6, <2>1
  <2>2. CASE /\ totalAssets[a] >= liability
             /\ totalAssets' = [totalAssets EXCEPT ![a] = totalAssets[a] - liability]
             /\ escrow' = escrow + liability
    BY <1>2, <1>6, <2>2
  <2>3. CASE /\ escrow >= stake /\ escrow' = escrow - stake
             /\ totalAssets' = [totalAssets EXCEPT ![a] = totalAssets[a] + stake]
    BY <1>2, <1>6, <2>3
  <2>. QED  BY <1>5, <2>1, <2>2, <2>3
<1>. HIDE DEF after
<1>9. /\ bets' = [bets EXCEPT ![b] = [bets[b] EXCEPT !.status = status]]
      /\ [bets[b] EXCEPT !.status = status] \in Bet
      /\ BetSound([bets[b] EXCEPT !.status = status])
  <2>1. bets' = [bets EXCEPT ![b] = [bets[b] EXCEPT !.status = status]]
    BY <1>4 DEF SetStatus
  <2>2. [bets[b] EXCEPT !.status = status] \in Bet
    BY <1>2 DEF Bet, BetStatus
  <2>3. BetSound([bets[b] EXCEPT !.status = status])
    BY <1>2 DEF Bet, BetSound
  <2>. QED  BY <2>1, <2>2, <2>3
<1>10. bets' \in [BetIds -> Bet] /\ BetsSound'
  BY <1>9 DEF IInv, TypeOK, BetsSound
<1>11. TypeOK'
  <2>1. totalAssets' \in [Agents -> Nat]
    BY <1>6, <1>8
  <2>. QED  BY <1>3, <1>6, <1>7, <1>8, <1>10, <2>1 DEF IInv, TypeOK, marketVars, registryVars
<1>12. Solvent'
  <2>1. ASSUME NEW c \in Agents PROVE totalAssets'[c] >= lockedLiability'[c]
    <3>1. totalAssets[c] >= lockedLiability[c] /\ totalAssets[c] \in Nat
          /\ lockedLiability[c] \in Nat
      BY DEF IInv, TypeOK, VaultInv, Solvent
    <3>2. CASE c # a
      BY <1>6, <1>7, <1>8, <3>1, <3>2
    <3>3. CASE c = a
      <4>1. /\ totalAssets'[c] = after
            /\ lockedLiability'[c] = lockedLiability[c] - liability
        BY <1>2, <1>6, <1>7, <1>8, <3>3
      <4>. QED  BY <1>2, <1>8, <3>1, <4>1
    <3>. QED  BY <3>2, <3>3
  <2>. QED  BY <2>1 DEF Solvent
<1>13. SharesAddUp' /\ SharesNeedVault'
  BY <1>3 DEF IInv, VaultInv, SharesAddUp, SharesNeedVault
<1>. QED  BY <1>10, <1>11, <1>12, <1>13 DEF IInv, VaultInv

\* Collecting a bet keeps the invariant.
LEMMA ClaimInv ==
    ASSUME IInv, NEW u \in Fans, NEW b \in BetIds, Claim(u, b),
           UNCHANGED <<now, marketVars, registryVars>>
    PROVE  IInv'
<1>. DEFINE owed == Owed(bets[b])
<1>1. owed \in Nat /\ escrow \in Nat /\ escrow >= owed /\ u \in Users
  BY BettingConstants DEF IInv, TypeOK, Claim, Owed, Bet
<1>2. /\ claimed' = [claimed EXCEPT ![b] = TRUE] /\ escrow' = escrow - owed
      /\ balanceOf' = [balanceOf EXCEPT ![u] = balanceOf[u] + owed]
      /\ UNCHANGED <<vaultVars, betCount, bets, quoteFilled>>
  BY DEF Claim
<1>. HIDE DEF owed
<1>3. claimed' \in [BetIds -> BOOLEAN] /\ escrow' \in Nat
      /\ balanceOf' \in [Users -> Nat]
  BY <1>1, <1>2 DEF IInv, TypeOK
<1>4. TypeOK'
  BY <1>2, <1>3 DEF IInv, TypeOK, vaultVars, marketVars, registryVars
<1>5. VaultInv' /\ BetsSound'
  BY <1>2 DEF IInv, VaultInv, SharesAddUp, SharesNeedVault, Solvent, BetsSound, vaultVars
<1>. QED  BY <1>4, <1>5 DEF IInv

-----------------------------------------------------------------------------
(* Placing a bet *)

\* A ladder is a sequence of signed quotes, at most three of them.
LEMMA LadderType ==
    ASSUME NEW ladder \in Ladders
    PROVE  /\ Len(ladder) \in 1..3
           /\ DOMAIN ladder = 1..Len(ladder)
           /\ ladder \in [1..Len(ladder) -> SignedQuotes]
           /\ \A i \in 1..Len(ladder) : ladder[i].quote \in Quote \cap Quotes
<1>1. PICK n \in 1..MaxFills : ladder \in [1..n -> SignedQuotes]
  BY DEF Ladders
<1>2. n \in 1..3
  BY RouterConstants
<1>3. Len(ladder) = n /\ DOMAIN ladder = 1..n
  BY <1>1, <1>2
<1>4. \A sq \in SignedQuotes : sq.quote \in Quote /\ sq.quote \in Quotes
  BY RouterConstants DEF Quotes
<1>. QED  BY <1>1, <1>2, <1>3, <1>4

\* The budget of a vault on a market, and the stakes it can size, are amounts.
LEMMA BudgetType ==
    ASSUME IInv, NEW a \in Agents, NEW m \in Markets
    PROVE  /\ ExposureCap(a) \in Nat
           /\ QuotableBudget(a, m) \in Nat
           /\ QuotableBudget(a, m) <= FreeCapital(a)
           /\ QuotableBudget(a, m) > 0 =>
                 marketExposure[a][m] + QuotableBudget(a, m) <= ExposureCap(a)
<1>1. /\ totalAssets[a] \in Nat /\ marketExposure[a][m] \in Nat
      /\ FreeCapital(a) \in Nat /\ MaxMarketExposureBps \in Nat
  <2>1. totalAssets[a] \in Nat /\ marketExposure[a][m] \in Nat
    BY DEF IInv, TypeOK
  <2>2. FreeCapital(a) \in Nat
    BY FreeCapitalValue
  <2>3. MaxMarketExposureBps \in Nat
    BY VaultConstants, BPSValue
  <2>. QED  BY <2>1, <2>2, <2>3
<1>2. ExposureCap(a) \in Nat
  <2>1. MulDiv(totalAssets[a], MaxMarketExposureBps, BPS) \in Nat
    BY <1>1, MulDivBounds, BPSValue
  <2>. QED  BY <2>1 DEF ExposureCap
<1>. DEFINE cap == ExposureCap(a)
            used == marketExposure[a][m]
            free == FreeCapital(a)
            budget == QuotableBudget(a, m)
            head == IF cap > used THEN cap - used ELSE 0
<1>3. budget = IF free <= head THEN free ELSE head
  <2>1. budget = Lesser(free, head)
    BY DEF QuotableBudget
  <2>. HIDE DEF budget, free, head
  <2>. QED  BY <2>1 DEF Lesser
<1>4. cap \in Nat /\ used \in Nat /\ free \in Nat
  BY <1>1, <1>2
<1>5. budget \in Nat /\ budget <= free /\ (budget > 0 => used + budget <= cap)
  <2>1. head \in Nat /\ (head > 0 => used + head = cap)
    <3>. HIDE DEF cap, used
    <3>. QED  BY <1>4
  <2>. HIDE DEF cap, used, free, budget, head
  <2>. QED  BY <1>3, <1>4, <2>1
<1>. QED  BY <1>2, <1>5

\* What a quote can absorb is an amount, within both of its limits.
LEMMA CapacityType ==
    ASSUME IInv, NEW q \in Quote \cap Quotes, NEW side \in Side,
           quoteFilled[q] < q.maxStake, Price(q, side) \in 1..(BPS - 1)
    PROVE  /\ Capacity(q, side) \in Nat
           /\ Capacity(q, side) <= q.maxStake - quoteFilled[q]
           /\ Capacity(q, side) <= MaxStakeForLiability(
                                      QuotableBudget(q.agentId, q.marketId),
                                      Price(q, side))
<1>. DEFINE budget == QuotableBudget(q.agentId, q.marketId)
            p == Price(q, side)
            limit == MaxStakeForLiability(budget, p)
<1>1. /\ q.agentId \in Agents /\ q.marketId \in Markets
      /\ q.maxStake \in Nat /\ quoteFilled[q] \in Nat
  BY DEF Quote, IInv, TypeOK
<1>2. budget \in Nat
  BY <1>1, BudgetType
<1>0. p \in 1..(BPS - 1)
  OBVIOUS
<1>. HIDE DEF budget, p
<1>3. p # BPS /\ p \in Nat /\ BPS - p \in Nat \ {0}
  <2>1. BPS \in Nat
    BY BPSValue
  <2>. QED  BY <1>0, <2>1
<1>4. MulDiv(budget, p, BPS - p) \in Nat
  BY <1>2, <1>3, MulDivBounds
<1>5. limit \in Nat
  BY <1>3, <1>4 DEF MaxStakeForLiability
<1>6. Capacity(q, side) = Lesser(q.maxStake - quoteFilled[q], limit)
  BY DEF Capacity, budget, p
<1>7. q.maxStake - quoteFilled[q] \in Nat
  <2>. DEFINE x == q.maxStake
              y == quoteFilled[q]
  <2>1. x \in Nat /\ y \in Nat /\ y < x
    BY <1>1
  <2>. HIDE DEF x, y
  <2>2. x - y \in Nat
    BY <2>1
  <2>. QED  BY <2>2 DEF x, y
<1>. HIDE DEF limit
<1>8. /\ Capacity(q, side) \in Nat
      /\ Capacity(q, side) <= q.maxStake - quoteFilled[q]
      /\ Capacity(q, side) <= limit
  BY <1>5, <1>6, <1>7 DEF Lesser
<1>. QED  BY <1>8 DEF limit, budget, p

\* The stakes of a ladder that passed every check: the whole stake, in amounts
\* within each quote's unfilled size and what its vault's budget can size.
LEMMA PlacedStakes ==
    ASSUME IInv, NEW m \in Markets, NEW side \in Side, NEW total \in Nat,
           NEW ladder \in Ladders, CanPlace(m, side, total, ladder)
    PROVE  /\ Stakes(total, ladder, side) \in [1..Len(ladder) -> Nat]
           /\ SumTo(Stakes(total, ladder, side), Len(ladder)) = total
           /\ \A i \in 1..Len(ladder) :
                 LET q == ladder[i].quote
                     stake == Stakes(total, ladder, side)[i]
                 IN  /\ q.marketId = m
                     /\ Price(q, side) \in 1..(BPS - 1)
                     /\ stake <= q.maxStake - quoteFilled[q]
                     /\ stake <= MaxStakeForLiability(
                                    QuotableBudget(q.agentId, m), Price(q, side))
<1>. DEFINE n == Len(ladder)
            caps == [i \in DOMAIN ladder |-> Capacity(ladder[i].quote, side)]
            weights == LadderFor(n)
            stakes == Stakes(total, ladder, side)
<1>1. /\ n \in 1..3 /\ DOMAIN ladder = 1..n
      /\ \A i \in 1..n : ladder[i].quote \in Quote \cap Quotes
  BY LadderType
<1>2. ASSUME NEW i \in 1..n
      PROVE  /\ ladder[i].quote.marketId = m
             /\ quoteFilled[ladder[i].quote] < ladder[i].quote.maxStake
             /\ Price(ladder[i].quote, side) \in 1..(BPS - 1)
  <2>1. Acceptable(ladder[i], m)
    BY <1>1, <1>2 DEF CanPlace
  <2>2. Price(ladder[i].quote, side) \in MinProbBps..MaxProbBps
    <3>. DEFINE yes == ladder[i].quote.probYesBps
                no == ladder[i].quote.probNoBps
    <3>1. ladder[i].quote \in Quote
      BY <1>1, <1>2
    <3>2. yes \in Nat /\ no \in Nat
      BY <3>1 DEF Quote
    <3>3. ValidQuote(yes, no, MinProbBps, MaxProbBps, MinMarginBps)
      BY <2>1 DEF Acceptable
    <3>4. Price(ladder[i].quote, side) = yes \/ Price(ladder[i].quote, side) = no
      BY DEF Price
    <3>. HIDE DEF yes, no
    <3>5. yes \in MinProbBps..MaxProbBps /\ no \in MinProbBps..MaxProbBps
      BY <3>2, <3>3, RouterConstants DEF ValidQuote
    <3>. QED  BY <3>4, <3>5
  <2>3. MinProbBps \in 1..BPS /\ MaxProbBps \in 1..BPS - 1 /\ BPS \in Nat
    <3>1. MinProbBps \in 1..BPS /\ MaxProbBps \in 1..BPS - 1
      BY RouterConstants, Zenon
    <3>2. BPS \in Nat
      BY BPSValue, Zenon
    <3>. QED  BY <3>1, <3>2, Zenon
  <2>. DEFINE p == Price(ladder[i].quote, side)
  <2>5. p \in MinProbBps..MaxProbBps
    BY <2>2
  <2>. HIDE DEF p
  <2>6. p \in 1..(BPS - 1)
    BY <2>3, <2>5
  <2>4. Price(ladder[i].quote, side) \in 1..(BPS - 1)
    BY <2>6 DEF p
  <2>. QED  BY <2>1, <2>4 DEF Acceptable
<1>3. ASSUME NEW i \in 1..n
      PROVE  /\ caps[i] \in Nat
             /\ caps[i] <= ladder[i].quote.maxStake - quoteFilled[ladder[i].quote]
             /\ caps[i] <= MaxStakeForLiability(
                              QuotableBudget(ladder[i].quote.agentId, m),
                              Price(ladder[i].quote, side))
  BY <1>1, <1>2, CapacityType
<1>4. caps \in [1..n -> Nat]
  BY <1>1, <1>3
<1>5. weights \in [1..n -> Nat]
  <2>. HIDE DEF n
  <2>1. n = 1 \/ n = 2 \/ n = 3
    BY <1>1
  <2>2. CASE n = 1
    BY <2>2 DEF LadderFor
  <2>3. CASE n = 2
    BY <2>3 DEF LadderFor
  <2>4. CASE n = 3
    BY <2>4 DEF LadderFor
  <2>. QED  BY <2>1, <2>2, <2>3, <2>4
<1>6. stakes = LadderStakes(total, caps, weights, n) /\ LadderPlaces(total, caps, weights, n)
  BY DEF Stakes, CanPlace, Fillable
<1>. HIDE DEF caps, weights, stakes
<1>7. SumTo(stakes, n) = total
  <2>. HIDE DEF n
  <2>1. n \in Nat
    BY <1>1
  <2>2. SumTo(LadderStakes(total, caps, weights, n), n) = total
    BY <1>4, <1>5, <1>6, <2>1, LadderExact
  <2>. QED  BY <1>6, <2>2
<1>8. stakes \in [1..n -> Nat] /\ \A i \in 1..n : stakes[i] <= caps[i]
  <2>. HIDE DEF n
  <2>1. n \in Nat
    BY <1>1
  <2>2. /\ LadderStakes(total, caps, weights, n) \in [1..n -> Nat]
        /\ \A i \in 1..n : LadderStakes(total, caps, weights, n)[i] <= caps[i]
    BY <1>4, <1>5, <2>1, LadderWithinCaps
  <2>. QED  BY <1>6, <2>2
<1>9. ASSUME NEW i \in 1..n
      PROVE  /\ stakes[i] <= ladder[i].quote.maxStake - quoteFilled[ladder[i].quote]
             /\ stakes[i] <= MaxStakeForLiability(
                                QuotableBudget(ladder[i].quote.agentId, m),
                                Price(ladder[i].quote, side))
  <2>1. /\ QuotableBudget(ladder[i].quote.agentId, m) \in Nat
        /\ ladder[i].quote.maxStake \in Nat /\ quoteFilled[ladder[i].quote] \in Nat
    BY <1>1, BudgetType DEF Quote, IInv, TypeOK
  <2>2. MaxStakeForLiability(QuotableBudget(ladder[i].quote.agentId, m),
                             Price(ladder[i].quote, side)) \in Int
    <3>. DEFINE budget == QuotableBudget(ladder[i].quote.agentId, m)
                p == Price(ladder[i].quote, side)
    <3>1. p \in 1..(BPS - 1)
      BY <1>2
    <3>. HIDE DEF budget, p
    <3>2. p # BPS /\ p \in Nat /\ BPS - p \in Nat \ {0}
      BY <3>1, BPSValue
    <3>3. MulDiv(budget, p, BPS - p) \in Nat
      BY <2>1, <3>2, MulDivBounds DEF budget
    <3>. QED  BY <3>2, <3>3 DEF MaxStakeForLiability, budget, p
  <2>. QED  BY <1>3, <1>8, <2>1, <2>2
<1>. QED  BY <1>2, <1>7, <1>8, <1>9 DEF stakes

\* Each rung that takes something can lock what it has to: the sizing leaves
\* nothing for AgentVault.lockLiability to refuse.
LEMMA RungLocks ==
    ASSUME IInv, NEW m \in Markets, NEW side \in Side, NEW total \in Nat,
           NEW ladder \in Ladders, CanPlace(m, side, total, ladder),
           NEW i \in Filled(Stakes(total, ladder, side))
    PROVE  LET stakes == Stakes(total, ladder, side)
               payout == PayoutOf(i, stakes, ladder, side)
           IN  /\ i \in 1..Len(ladder) /\ stakes[i] \in Nat /\ stakes[i] > 0
               /\ ladder[i].quote.agentId \in Agents
               /\ payout \in Nat /\ payout >= stakes[i]
               /\ CanLock(ladder[i].quote.agentId, m, payout - stakes[i])
<1>. DEFINE stakes == Stakes(total, ladder, side)
            q == ladder[i].quote
            a == q.agentId
            p == Price(q, side)
            budget == QuotableBudget(a, m)
            stake == stakes[i]
            payout == PayoutFor(stake, p)
<1>1. i \in 1..Len(ladder) /\ stake \in Nat /\ stake > 0
  BY PlacedStakes DEF Filled
<1>2. p \in 1..(BPS - 1) /\ stake <= MaxStakeForLiability(budget, p)
  BY <1>1, PlacedStakes
<1>3. a \in Agents
  BY <1>1, LadderType DEF Quote
<1>4. PayoutOf(i, stakes, ladder, side) = payout
  BY DEF PayoutOf
<1>5. /\ budget \in Nat /\ budget <= FreeCapital(a)
      /\ budget > 0 => marketExposure[a][m] + budget <= ExposureCap(a)
      /\ ExposureCap(a) \in Nat /\ marketExposure[a][m] \in Nat /\ FreeCapital(a) \in Nat
  BY <1>3, BudgetType, FreeCapitalValue DEF IInv, TypeOK
<1>. HIDE DEF p, budget, stake
<1>6. p \in 1..BPS /\ p # BPS /\ p \in Nat /\ BPS - p \in Nat \ {0}
  <2>1. BPS \in Nat /\ p \in 1..(BPS - 1)
    BY <1>2, BPSValue
  <2>. QED  BY <2>1
<1>7. /\ payout \in Nat /\ stake <= payout /\ payout - stake <= budget
  BY <1>1, <1>2, <1>5, <1>6, PayoutCoversStake, SizedFits DEF LiabilityFor
<1>8. budget > 0
  <2>. SUFFICES ASSUME budget = 0 PROVE FALSE
    BY <1>5
  <2>1. 0 * p <= 0 * (BPS - p)
    BY <1>6
  <2>2. MulDiv(0, p, BPS - p) <= 0
    BY <1>6, <2>1, MulDivAtMost
  <2>3. MaxStakeForLiability(budget, p) <= 0
    BY <1>6, <2>2 DEF MaxStakeForLiability
  <2>4. MulDiv(0, p, BPS - p) \in Nat
    BY <1>6, MulDivBounds
  <2>. QED  BY <1>1, <1>2, <1>6, <2>2, <2>4 DEF MaxStakeForLiability
<1>9. CanLock(a, m, payout - stake)
  <2>. HIDE DEF payout, a
  <2>. QED  BY <1>1, <1>5, <1>7, <1>8 DEF CanLock
<1>. QED  BY <1>1, <1>3, <1>4, <1>7, <1>9 DEF stake

\* The same for the liabilities placeBet hands to the vaults, agent by agent.
LEMMA LiabilitiesLock ==
    ASSUME IInv, NEW m \in Markets, NEW side \in Side, NEW total \in Nat,
           NEW ladder \in Ladders, CanPlace(m, side, total, ladder)
    PROVE  LET stakes == Stakes(total, ladder, side)
               fills == Liabilities(stakes, ladder, side)
           IN  \A a \in DOMAIN fills :
                  /\ a \in Agents /\ fills[a] \in Nat /\ CanLock(a, m, fills[a])
                  /\ \E i \in Filled(stakes) :
                        /\ ladder[i].quote.agentId = a
                        /\ fills[a] = PayoutOf(i, stakes, ladder, side) - stakes[i]
<1>. DEFINE stakes == Stakes(total, ladder, side)
            fills == Liabilities(stakes, ladder, side)
<1>1. SUFFICES ASSUME NEW a \in DOMAIN fills
               PROVE  /\ a \in Agents /\ fills[a] \in Nat /\ CanLock(a, m, fills[a])
                      /\ \E i \in Filled(stakes) :
                            /\ ladder[i].quote.agentId = a
                            /\ fills[a] = PayoutOf(i, stakes, ladder, side) - stakes[i]
  OBVIOUS
<1>. DEFINE rung == CHOOSE i \in Filled(stakes) : ladder[i].quote.agentId = a
<1>2. \E i \in Filled(stakes) : ladder[i].quote.agentId = a
  BY DEF Liabilities
<1>3. rung \in Filled(stakes) /\ ladder[rung].quote.agentId = a
  BY <1>2
<1>4. fills[a] = PayoutOf(rung, stakes, ladder, side) - stakes[rung]
  BY <1>2 DEF Liabilities
<1>. HIDE DEF rung, fills
<1>5. /\ stakes[rung] \in Nat /\ PayoutOf(rung, stakes, ladder, side) \in Nat
      /\ PayoutOf(rung, stakes, ladder, side) >= stakes[rung]
      /\ a \in Agents
      /\ CanLock(a, m, PayoutOf(rung, stakes, ladder, side) - stakes[rung])
  BY <1>3, RungLocks
<1>. HIDE DEF stakes
<1>6. fills[a] \in Nat
  BY <1>4, <1>5
<1>. QED  BY <1>3, <1>4, <1>5, <1>6

\* The rungs that take something can be counted.
LEMMA FilledFinite ==
    ASSUME NEW n \in Nat, NEW stakes \in [1..n -> Nat]
    PROVE  Cardinality(Filled(stakes)) \in Nat
<1>1. Filled(stakes) \in SUBSET (1..n)
  BY DEF Filled
<1>2. IsFiniteSet(1..n)
  BY FS_Interval
<1>3. IsFiniteSet(Filled(stakes))
  BY <1>1, <1>2, FS_Subset
<1>. QED  BY <1>3, FS_CardinalityType

\* Placing a bet keeps the invariant.
LEMMA PlaceBetInv ==
    ASSUME IInv, NEW u \in Fans, NEW m \in Markets, NEW side \in Side,
           NEW total \in Nat, NEW minPayout \in Nat, NEW ladder \in Ladders,
           PlaceBet(u, m, side, total, minPayout, ladder),
           UNCHANGED <<now, marketVars, registryVars>>
    PROVE  IInv'
<1>. DEFINE n == Len(ladder)
            stakes == Stakes(total, ladder, side)
            filled == Filled(stakes)
            written == {BetIdOf(i, stakes) : i \in filled}
            fills == Liabilities(stakes, ladder, side)
            rungOf(b) == CHOOSE i \in filled : BetIdOf(i, stakes) = b
            rungFor(q) == CHOOSE i \in filled : ladder[i].quote = q
<1>1. /\ CanPlace(m, side, total, ladder) /\ u \in Users
      /\ n \in Nat /\ stakes \in [1..n -> Nat]
  <2>1. CanPlace(m, side, total, ladder)
    BY DEF PlaceBet
  <2>2. u \in Users /\ n \in Nat
    BY BettingConstants, LadderType
  <2>. QED  BY <2>1, <2>2, PlacedStakes
<1>2. /\ LockLiability(m, fills)
      /\ betCount' = betCount + Cardinality(filled)
      /\ bets' = [b \in BetIds |-> IF b \in written
                                   THEN NewBet(u, m, side, rungOf(b), stakes, ladder)
                                   ELSE bets[b]]
      /\ quoteFilled' = [q \in Quotes |-> IF \E i \in filled : ladder[i].quote = q
                                          THEN quoteFilled[q] + stakes[rungFor(q)]
                                          ELSE quoteFilled[q]]
      /\ balanceOf[u] >= total
      /\ balanceOf' = [balanceOf EXCEPT ![u] = balanceOf[u] - total]
      /\ escrow' = escrow + total
      /\ UNCHANGED <<operator, totalAssets, totalSupply, shares, highWaterMark,
                     lastDepositAt, claimed>>
  BY DEF PlaceBet
<1>3. ASSUME NEW i \in filled
      PROVE  /\ i \in 1..n /\ stakes[i] \in Nat /\ stakes[i] > 0
             /\ ladder[i].quote.agentId \in Agents
             /\ PayoutOf(i, stakes, ladder, side) \in Nat
             /\ PayoutOf(i, stakes, ladder, side) >= stakes[i]
  BY <1>1, RungLocks
<1>4. ASSUME NEW a \in DOMAIN fills
      PROVE  a \in Agents /\ fills[a] \in Nat /\ CanLock(a, m, fills[a])
  BY <1>1, LiabilitiesLock
<1>. HIDE DEF fills
<1>5. /\ lockedLiability' \in [Agents -> Nat]
      /\ marketExposure' \in [Agents -> [Markets -> Nat]]
      /\ Solvent'
  <2>1. /\ lockedLiability' = [a \in Agents |-> IF a \in DOMAIN fills
                                                THEN lockedLiability[a] + fills[a]
                                                ELSE lockedLiability[a]]
        /\ marketExposure' = [a \in Agents |->
                                 IF a \in DOMAIN fills
                                 THEN [marketExposure[a] EXCEPT
                                          ![m] = marketExposure[a][m] + fills[a]]
                                 ELSE marketExposure[a]]
    BY <1>2 DEF LockLiability
  <2>2. lockedLiability' \in [Agents -> Nat]
    BY <1>4, <2>1 DEF IInv, TypeOK
  <2>3. marketExposure' \in [Agents -> [Markets -> Nat]]
    BY <1>4, <2>1 DEF IInv, TypeOK
  <2>4. ASSUME NEW a \in Agents PROVE totalAssets'[a] >= lockedLiability'[a]
    <3>1. /\ totalAssets[a] \in Nat /\ lockedLiability[a] \in Nat
          /\ totalAssets[a] >= lockedLiability[a] /\ totalAssets' = totalAssets
      BY <1>2 DEF IInv, TypeOK, VaultInv, Solvent
    <3>2. CASE a \in DOMAIN fills
      <4>1. fills[a] \in Nat /\ fills[a] <= FreeCapital(a)
        BY <1>4, <3>2 DEF CanLock
      <4>2. fills[a] <= totalAssets[a] - lockedLiability[a]
        BY <4>1, FreeCapitalValue
      <4>. QED  BY <2>1, <3>1, <3>2, <4>1, <4>2
    <3>3. CASE a \notin DOMAIN fills
      BY <2>1, <3>1, <3>3
    <3>. QED  BY <3>2, <3>3
  <2>. QED  BY <2>2, <2>3, <2>4 DEF Solvent
<1>6. betCount' \in Nat
  <2>1. Cardinality(filled) \in Nat
    BY <1>1, FilledFinite
  <2>. QED  BY <1>2, <2>1 DEF IInv, TypeOK
<1>7. ASSUME NEW b \in BetIds PROVE bets'[b] \in Bet /\ BetSound(bets'[b])
  <2>1. CASE b \notin written
    BY <1>2, <2>1 DEF IInv, TypeOK, BetsSound
  <2>2. CASE b \in written
    <3>1. rungOf(b) \in filled
      BY <2>2
    <3>2. bets'[b] = NewBet(u, m, side, rungOf(b), stakes, ladder)
      BY <1>2, <2>2
    <3>. HIDE DEF rungOf
    <3>3. /\ stakes[rungOf(b)] \in Nat /\ stakes[rungOf(b)] > 0
          /\ ladder[rungOf(b)].quote.agentId \in Agents
          /\ PayoutOf(rungOf(b), stakes, ladder, side) \in Nat
          /\ PayoutOf(rungOf(b), stakes, ladder, side) >= stakes[rungOf(b)]
      BY <1>3, <3>1
    <3>4. now \in Nat
      BY DEF IInv, TypeOK
    <3>. HIDE DEF stakes
    <3>5. NewBet(u, m, side, rungOf(b), stakes, ladder) \in Bet
      BY <1>1, <3>3, <3>4 DEF NewBet, Bet, BetStatus
    <3>6. BetSound(NewBet(u, m, side, rungOf(b), stakes, ladder))
      BY <1>1, <3>3 DEF NewBet, BetSound
    <3>. QED  BY <3>2, <3>5, <3>6
  <2>. QED  BY <2>1, <2>2
<1>8. bets' \in [BetIds -> Bet] /\ BetsSound'
  BY <1>2, <1>7 DEF BetsSound
<1>9. quoteFilled' \in [Quotes -> Nat]
  <2>1. ASSUME NEW q \in Quotes, \E i \in filled : ladder[i].quote = q
        PROVE  stakes[rungFor(q)] \in Nat
    <3>1. rungFor(q) \in filled
      BY <2>1
    <3>. HIDE DEF rungFor
    <3>. QED  BY <1>3, <3>1
  <2>. HIDE DEF rungFor, stakes, filled
  <2>2. ASSUME NEW q \in Quotes PROVE quoteFilled'[q] \in Nat
    BY <1>2, <2>1 DEF IInv, TypeOK
  <2>. QED  BY <1>2, <2>2
<1>10. balanceOf' \in [Users -> Nat] /\ escrow' \in Nat
  BY <1>1, <1>2 DEF IInv, TypeOK
<1>11. TypeOK'
  BY <1>2, <1>5, <1>6, <1>8, <1>9, <1>10 DEF IInv, TypeOK, marketVars, registryVars
<1>12. SharesAddUp' /\ SharesNeedVault'
  BY <1>2 DEF IInv, VaultInv, SharesAddUp, SharesNeedVault
<1>. QED  BY <1>5, <1>8, <1>11, <1>12 DEF IInv, VaultInv

-----------------------------------------------------------------------------
(* The invariant of the betting core *)

\* A fresh deployment satisfies the invariant.
LEMMA InitInv == Init => IInv
<1>. SUFFICES ASSUME Init PROVE IInv
  OBVIOUS
<1>1. TypeOK
  BY InitType
<1>2. /\ totalAssets = [a \in Agents |-> 0] /\ lockedLiability = [a \in Agents |-> 0]
      /\ totalSupply = [a \in Agents |-> 0]
      /\ shares = [a \in Agents |-> [u \in Users |-> 0]]
      /\ bets = [b \in BetIds |-> NoBet]
  BY DEF Init, VaultInit, RouterInit
<1>3. SharesAddUp
  <2>1. ASSUME NEW a \in Agents
        PROVE  totalSupply[a] = SumTo([k \in 1..UserCount |-> shares[a][UserOrder[k]]],
                                      UserCount)
    <3>. DEFINE held == [k \in 1..UserCount |-> shares[a][UserOrder[k]]]
    <3>1. held \in [1..UserCount -> Int] /\ \A k \in 1..UserCount : held[k] = 0
      BY <1>2, PlaceOf
    <3>. HIDE DEF held
    <3>2. SumTo(held, UserCount) = 0
      BY <3>1, PlaceOf, TotalOfZeros
    <3>. QED  BY <1>2, <3>2 DEF held
  <2>. QED  BY <2>1 DEF SharesAddUp
<1>4. SharesNeedVault /\ Solvent
  BY <1>2 DEF SharesNeedVault, Solvent
<1>5. BetsSound
  BY <1>2 DEF BetsSound, BetSound, NoBet
<1>. QED  BY <1>1, <1>3, <1>4, <1>5 DEF IInv, VaultInv

\* Every step keeps the invariant.
LEMMA StepInv ==
    ASSUME IInv, [Next]_vars
    PROVE  IInv'
<1>1. CASE AdminStep \/ OperatorStep
  BY <1>1, RegistryStepInv
<1>2. CASE SchedulerStep \/ SettlerStep
  BY <1>2, MarketStepInv
<1>3. CASE BackerStep
  BY <1>3, BackerStepInv
<1>4. CASE FanStep
  <2>1. ASSUME NEW u \in Fans, NEW m \in Markets, NEW side \in Side,
               NEW total \in StakeAmounts, NEW minPayout \in MinPayouts,
               NEW ladder \in Ladders, PlaceBet(u, m, side, total, minPayout, ladder)
        PROVE  IInv'
    BY <1>4, <2>1, BettingConstants, PlaceBetInv DEF FanStep
  <2>2. ASSUME NEW u \in Fans, NEW b \in BetIds, Claim(u, b)
        PROVE  IInv'
    BY <1>4, <2>2, ClaimInv DEF FanStep
  <2>. QED  BY <1>4, <2>1, <2>2 DEF FanStep
<1>5. CASE SettleStep
  BY <1>5, SettleStepInv
<1>6. CASE HarvestStep
  BY <1>6, HarvestStepInv
<1>7. CASE Tick
  BY <1>7, TickInv
<1>8. CASE UNCHANGED vars
  <2>1. UNCHANGED <<now, balanceOf, marketVars, vaultVars, registryVars, routerVars>>
    BY <1>8 DEF vars
  <2>. QED  BY <2>1 DEF IInv, TypeOK, VaultInv, SharesAddUp, SharesNeedVault, Solvent,
                       BetsSound, marketVars, vaultVars, registryVars, routerVars
<1>. QED  BY <1>1, <1>2, <1>3, <1>4, <1>5, <1>6, <1>7, <1>8 DEF Next

\* In every reachable state the variables have their types, shares add up,
\* vaults cover what they booked and bets are well formed.
THEOREM Invariant == Spec => []IInv
BY InitInv, StepInv, PTL DEF Spec

\* Every contract variable keeps its type (no subtraction in the model goes
\* below zero), whatever the constants.
THEOREM TypeCorrect == Spec => []TypeOK
<1>1. IInv => TypeOK
  BY DEF IInv
<1>. QED  BY <1>1, Invariant, PTL

\* Every vault can always pay what it has booked (AgentVault's invariant).
THEOREM VaultsSolvent == Spec => []Solvent
<1>1. IInv => Solvent
  BY DEF IInv, VaultInv
<1>. QED  BY <1>1, Invariant, PTL

\* The shares of a vault's holders are its supply.
THEOREM SharesComplete == Spec => []SharesAddUp
<1>1. IInv => SharesAddUp
  BY DEF IInv, VaultInv
<1>. QED  BY <1>1, Invariant, PTL

\* A ladder that passes BetRouter's checks is never refused by a vault.
THEOREM SizedFillsAlwaysLock == Spec => []SizedFillsLock
<1>1. IInv => SizedFillsLock
  BY BettingConstants, LiabilitiesLock DEF SizedFillsLock
<1>. QED  BY <1>1, Invariant, PTL

-----------------------------------------------------------------------------
(* Quotes *)

\* Every step fills quotes within their size.
LEMMA StepQuotesWithinSize ==
    ASSUME IInv, QuotesWithinSize, [Next]_vars
    PROVE  QuotesWithinSize'
<1>1. CASE UNCHANGED quoteFilled
  BY <1>1 DEF QuotesWithinSize
<1>2. ASSUME NEW u \in Fans, NEW m \in Markets, NEW side \in Side,
             NEW total \in StakeAmounts, NEW minPayout \in MinPayouts,
             NEW ladder \in Ladders, PlaceBet(u, m, side, total, minPayout, ladder)
      PROVE  QuotesWithinSize'
  <2>. DEFINE stakes == Stakes(total, ladder, side)
              filled == Filled(stakes)
              rungFor(q) == CHOOSE i \in filled : ladder[i].quote = q
  <2>1. /\ CanPlace(m, side, total, ladder) /\ total \in Nat
        /\ stakes \in [1..Len(ladder) -> Nat]
    BY <1>2, BettingConstants, PlacedStakes DEF PlaceBet
  <2>2. quoteFilled' = [q \in Quotes |-> IF \E i \in filled : ladder[i].quote = q
                                         THEN quoteFilled[q] + stakes[rungFor(q)]
                                         ELSE quoteFilled[q]]
    BY <1>2 DEF PlaceBet
  <2>3. ASSUME NEW q \in Quotes PROVE quoteFilled'[q] <= q.maxStake
    <3>1. CASE ~\E i \in filled : ladder[i].quote = q
      BY <2>2, <3>1 DEF QuotesWithinSize
    <3>2. CASE \E i \in filled : ladder[i].quote = q
      <4>1. rungFor(q) \in filled /\ ladder[rungFor(q)].quote = q
        BY <3>2
      <4>2. quoteFilled'[q] = quoteFilled[q] + stakes[rungFor(q)]
        BY <2>2, <3>2
      <4>. HIDE DEF rungFor
      <4>3. rungFor(q) \in 1..Len(ladder)
        BY <2>1, <4>1, RungLocks
      <4>4. stakes[rungFor(q)] \in Nat /\ stakes[rungFor(q)] <= q.maxStake - quoteFilled[q]
        BY <2>1, <4>1, <4>3, PlacedStakes
      <4>5. q.maxStake \in Nat /\ quoteFilled[q] \in Nat
        BY RouterConstants DEF Quotes, Quote, IInv, TypeOK
      <4>. HIDE DEF stakes
      <4>. QED  BY <4>2, <4>4, <4>5
    <3>. QED  BY <3>1, <3>2
  <2>. QED  BY <2>3 DEF QuotesWithinSize
<1>3. ASSUME NEW u \in Fans, NEW b \in BetIds, Claim(u, b) PROVE UNCHANGED quoteFilled
  BY <1>3 DEF Claim
<1>4. CASE FanStep
  BY <1>1, <1>2, <1>3, <1>4 DEF FanStep
<1>5. CASE ~FanStep
  <2>1. UNCHANGED quoteFilled
    BY <1>5 DEF Next, AdminStep, OperatorStep, SchedulerStep, SettlerStep, BackerStep,
                SettleStep, SettleBatch, HarvestStep, Tick, vars, routerVars
  <2>. QED  BY <1>1, <2>1
<1>. QED  BY <1>4, <1>5

\* No quote is ever filled beyond the size it was signed for.
THEOREM QuotesNeverOverfilled == Spec => []QuotesWithinSize
<1>1. Init => QuotesWithinSize
  <2>1. ASSUME NEW q \in Quotes PROVE q.maxStake \in Nat
    BY RouterConstants DEF Quotes, Quote
  <2>. QED  BY <2>1 DEF Init, RouterInit, QuotesWithinSize
<1>2. IInv /\ IInv' /\ QuotesWithinSize /\ [Next]_vars => QuotesWithinSize'
  BY StepQuotesWithinSize
<1>. QED  BY <1>1, <1>2, Invariant, PTL DEF Spec

-----------------------------------------------------------------------------
(* The arithmetic of shares *)

\* Taking in x for m more shares lowers no share's worth when m is priced at
\* most at x, in a pool of Q for T shares.
LEMMA EnterWorth ==
    ASSUME NEW Q \in Nat, NEW T \in Nat, NEW x \in Nat, NEW m \in Nat, m * Q <= x * T
    PROVE  (Q + x) * T >= Q * (T + m)
<1>1. (Q + x) * T = Q * T + x * T /\ Q * (T + m) = Q * T + m * Q
  OBVIOUS
<1>2. Q * T \in Nat /\ x * T \in Nat /\ m * Q \in Nat
  OBVIOUS
<1>. QED  BY <1>1, <1>2

\* Paying out x for m shares does not, when they are worth at least x.
LEMMA LeaveWorth ==
    ASSUME NEW Q \in Nat, NEW T \in Nat, NEW x \in Nat, NEW m \in Nat, x * T <= m * Q
    PROVE  (Q - x) * T >= Q * (T - m)
<1>1. (Q - x) * T = Q * T - x * T /\ Q * (T - m) = Q * T - m * Q
  OBVIOUS
<1>2. Q * T \in Nat /\ x * T \in Nat /\ m * Q \in Nat
  OBVIOUS
<1>. QED  BY <1>1, <1>2

\* Factors can be regrouped.
LEMMA Regroup ==
    ASSUME NEW a \in Nat, NEW b \in Nat, NEW c \in Nat
    PROVE  /\ a * b \in Nat /\ a * b = b * a
           /\ (a * b) * c = a * (b * c) /\ (a * b) * c = b * (a * c)
           /\ (a + b) * c = a * c + b * c
OBVIOUS

\* What minting M shares for a fee of F leaves of the price: the pool is Q for T
\* shares of which S are real, P and P2 are the floors of the price of W shares
\* before and after, H is the mark, and F is at most the fee's part of the gain.
LEMMA DilutionWithinFee ==
    ASSUME NEW W \in Nat \ {0}, NEW Q \in Nat, NEW T \in Nat \ {0}, NEW S \in Nat,
           NEW P \in Nat, NEW P2 \in Nat, NEW G \in Nat, NEW F \in Nat, NEW M \in Nat,
           NEW B \in Nat \ {0}, NEW fee \in Nat,
           S <= T, F <= Q,
           P * T <= W * Q, W * Q < (P2 + 1) * (T + M), M * (Q - F) <= F * T,
           (F * B) * W <= (G * S) * fee
    PROVE  P * B < (P2 + 1) * B + G * fee
<1>. DEFINE X == T + M
            gf == G * fee
            wb == W * B
<1>1. X \in Nat /\ X # 0 /\ gf \in Nat /\ wb \in Nat
  OBVIOUS
<1>2. M * Q <= F * X
  <2>1. M * Q = M * (Q - F) + M * F /\ F * X = F * T + M * F
    OBVIOUS
  <2>2. M * (Q - F) \in Nat /\ M * F \in Nat /\ F * T \in Nat
    <3>1. Q - F \in Nat
      OBVIOUS
    <3>. QED  BY <3>1
  <2>. QED  BY <2>1, <2>2
<1>. HIDE DEF X, gf, wb
<1>3. (M * P) * T <= (M * Q) * W
  <2>1. (P * T) * M <= (W * Q) * M
    BY MulMono, Regroup
  <2>2. (P * T) * M = (M * P) * T /\ (W * Q) * M = (M * Q) * W
    OBVIOUS
  <2>. QED  BY <2>1, <2>2
<1>4. (M * Q) * wb <= (F * X) * wb
  BY <1>1, <1>2, MulMono, Regroup
<1>5. ((M * P) * T) * B <= ((M * Q) * W) * B
  BY <1>3, MulMono, Regroup
<1>6. ((M * Q) * W) * B = (M * Q) * wb
  BY Regroup DEF wb
<1>7. (F * X) * wb = ((F * B) * W) * X
  BY <1>1 DEF wb
<1>8. ((F * B) * W) * X <= ((G * S) * fee) * X
  <2>1. (F * B) * W \in Nat /\ (G * S) * fee \in Nat
    OBVIOUS
  <2>. QED  BY <1>1, <2>1, MulMono
<1>9. ((G * S) * fee) * X <= (gf * X) * T
  <2>1. S * (gf * X) <= T * (gf * X)
    <3>1. gf * X \in Nat
      BY <1>1
    <3>. QED  BY <3>1, MulMono
  <2>2. S * (gf * X) = ((G * S) * fee) * X
    BY <1>1 DEF gf
  <2>3. T * (gf * X) = (gf * X) * T
    BY <1>1
  <2>. QED  BY <2>1, <2>2, <2>3
<1>10. ((M * P) * B) * T <= (gf * X) * T
  <2>1. ((M * P) * B) * T = ((M * P) * T) * B
    OBVIOUS
  <2>. DEFINE a == ((M * P) * T) * B
              b == (M * Q) * wb
              c == (F * X) * wb
              d == ((G * S) * fee) * X
              e == (gf * X) * T
  <2>2. a \in Int /\ b \in Int /\ c \in Int /\ d \in Int /\ e \in Int
    BY <1>1
  <2>3. a <= b /\ b <= c /\ c <= d /\ d <= e
    BY <1>4, <1>5, <1>6, <1>7, <1>8, <1>9
  <2>. HIDE DEF a, b, c, d, e
  <2>4. a <= e
    BY <2>2, <2>3
  <2>. QED  BY <2>1, <2>4 DEF a, e
<1>11. (M * P) * B <= gf * X
  <2>1. (M * P) * B \in Nat /\ gf * X \in Nat
    BY <1>1
  <2>. HIDE DEF gf, X
  <2>. QED  BY <1>10, <2>1, MulCancel
<1>12. (P * B) * X <= (W * Q) * B + gf * X
  <2>1. (P * B) * X = (P * T) * B + (M * P) * B
    BY DEF X
  <2>2. (P * T) * B <= (W * Q) * B
    BY MulMono, Regroup
  <2>3. (P * T) * B \in Int /\ (M * P) * B \in Int /\ (W * Q) * B \in Int /\ gf * X \in Int
    BY <1>1
  <2>. QED  BY <1>11, <2>1, <2>2, <2>3
<1>13. (W * Q) * B + B <= ((P2 + 1) * X) * B
  <2>1. W * Q + 1 <= (P2 + 1) * X /\ W * Q + 1 \in Nat /\ (P2 + 1) * X \in Nat
    BY <1>1 DEF X
  <2>2. (W * Q + 1) * B <= ((P2 + 1) * X) * B
    BY <2>1, MulMono
  <2>3. (W * Q + 1) * B = (W * Q) * B + B
    OBVIOUS
  <2>. QED  BY <2>2, <2>3
<1>14. SUFFICES ASSUME (P2 + 1) * B + gf <= P * B PROVE FALSE
  BY <1>1 DEF gf
<1>15. ((P2 + 1) * B + gf) * X <= (P * B) * X
  <2>1. (P2 + 1) * B + gf \in Nat /\ P * B \in Nat
    BY <1>1
  <2>. QED  BY <1>1, <1>14, <2>1, MulMono
<1>16. ((P2 + 1) * B + gf) * X = ((P2 + 1) * X) * B + gf * X
  BY <1>1
<1>17. /\ (W * Q) * B \in Int /\ ((P2 + 1) * X) * B \in Int /\ gf * X \in Int
       /\ (P * B) * X \in Int
  BY <1>1
<1>. QED  BY <1>12, <1>13, <1>15, <1>16, <1>17

-----------------------------------------------------------------------------
(* What a share is worth *)

\* A share of agent a's vault is worth no less after the step.
WorthKept(a) ==
    (totalAssets'[a] + 1) * (totalSupply[a] + VirtualShares) >=
        (totalAssets[a] + 1) * (totalSupply'[a] + VirtualShares)

\* The pool and the shares conversions divide by are never zero.
LEMMA PoolType ==
    ASSUME IInv, NEW a \in Agents
    PROVE  /\ totalAssets[a] \in Nat /\ totalAssets[a] + 1 \in Nat \ {0}
           /\ totalSupply[a] \in Nat /\ totalSupply[a] + VirtualShares \in Nat \ {0}
<1>1. totalAssets[a] \in Nat /\ totalSupply[a] \in Nat
  BY DEF IInv, TypeOK
<1>2. VirtualShares \in Nat \ {0}
  BY VaultConstants
<1>. QED  BY <1>1, <1>2

\* A step that leaves a vault's assets and shares alone keeps a share's worth.
LEMMA WorthStays ==
    ASSUME IInv, NEW a \in Agents,
           totalAssets'[a] = totalAssets[a], totalSupply'[a] = totalSupply[a]
    PROVE  WorthKept(a)
<1>. DEFINE Q == totalAssets[a] + 1
            T == totalSupply[a] + VirtualShares
<1>1. Q \in Nat /\ T \in Nat
  BY PoolType
<1>2. WorthKept(a) <=> Q * T >= Q * T
  BY DEF WorthKept
<1>. HIDE DEF Q, T
<1>. QED  BY <1>1, <1>2

\* Entering at a price no better than the pool's keeps every share's worth.
LEMMA EnterKeepsWorth ==
    ASSUME IInv, NEW a \in Agents, NEW u, NEW r, NEW assets \in Nat, NEW minted \in Nat,
           Enter(a, u, r, assets, minted),
           minted * (totalAssets[a] + 1) <= assets * (totalSupply[a] + VirtualShares)
    PROVE  \A c \in Agents : WorthKept(c)
<1>1. /\ totalAssets' = [totalAssets EXCEPT ![a] = totalAssets[a] + assets]
      /\ totalSupply' = [totalSupply EXCEPT ![a] = totalSupply[a] + minted]
      /\ totalAssets \in [Agents -> Nat] /\ totalSupply \in [Agents -> Nat]
  BY DEF Enter, IInv, TypeOK
<1>2. ASSUME NEW c \in Agents, c # a PROVE WorthKept(c)
  BY <1>1, <1>2, WorthStays
<1>3. WorthKept(a)
  <2>. DEFINE Q == totalAssets[a] + 1
              T == totalSupply[a] + VirtualShares
  <2>1. totalAssets'[a] + 1 = Q + assets /\ totalSupply'[a] + VirtualShares = T + minted
    BY <1>1, PoolType, VaultConstants
  <2>2. Q \in Nat /\ T \in Nat /\ minted * Q <= assets * T
    BY PoolType
  <2>3. WorthKept(a) <=> (Q + assets) * T >= Q * (T + minted)
    BY <2>1 DEF WorthKept
  <2>. HIDE DEF Q, T
  <2>. QED  BY <2>2, <2>3, EnterWorth
<1>. QED  BY <1>2, <1>3

\* Leaving with no more than the burned shares are worth does too.
LEMMA LeaveKeepsWorth ==
    ASSUME IInv, NEW a \in Agents, NEW u, NEW assets \in Nat, NEW burned \in Nat,
           Leave(a, u, assets, burned),
           assets * (totalSupply[a] + VirtualShares) <= burned * (totalAssets[a] + 1)
    PROVE  \A c \in Agents : WorthKept(c)
<1>1. /\ totalAssets' = [totalAssets EXCEPT ![a] = totalAssets[a] - assets]
      /\ totalSupply' = [totalSupply EXCEPT ![a] = totalSupply[a] - burned]
      /\ totalAssets \in [Agents -> Nat] /\ totalSupply \in [Agents -> Nat]
  BY DEF Leave, IInv, TypeOK
<1>2. ASSUME NEW c \in Agents, c # a PROVE WorthKept(c)
  BY <1>1, <1>2, WorthStays
<1>3. WorthKept(a)
  <2>. DEFINE Q == totalAssets[a] + 1
              T == totalSupply[a] + VirtualShares
  <2>0. /\ totalAssets'[a] = totalAssets[a] - assets
        /\ totalSupply'[a] = totalSupply[a] - burned
    BY <1>1
  <2>1. totalAssets'[a] + 1 = Q - assets /\ totalSupply'[a] + VirtualShares = T - burned
    BY <2>0, PoolType, VaultConstants
  <2>2. Q \in Nat /\ T \in Nat /\ assets * T <= burned * Q
    BY PoolType
  <2>3. WorthKept(a) <=> (Q - assets) * T >= Q * (T - burned)
    BY <2>1 DEF WorthKept
  <2>. HIDE DEF Q, T
  <2>. QED  BY <2>2, <2>3, LeaveWorth
<1>. QED  BY <1>2, <1>3

\* Backers never lower what a share is worth: each of the four conversions
\* rounds in the pool's favour.
LEMMA BackersKeepWorth ==
    ASSUME IInv, BackerStep
    PROVE  \A c \in Agents : WorthKept(c)
<1>1. PICK a \in Agents, u \in Backers :
          \/ \E assets \in DepositAmounts :
                \/ \E r \in Backers : Deposit(a, u, r, assets)
                \/ Withdraw(a, u, assets)
                \/ Donate(a, u, assets)
          \/ \E amount \in ShareAmounts :
                \/ \E r \in Backers : Mint(a, u, r, amount)
                \/ Redeem(a, u, amount)
                \/ \E to \in Backers : TransferShares(a, u, to, amount)
  BY DEF BackerStep
<1>2. \A x \in DepositAmounts \cup ShareAmounts : x \in Nat
  BY BettingConstants
<1>. DEFINE Q == totalAssets[a] + 1
            T == totalSupply[a] + VirtualShares
<1>3. /\ Q \in Nat \ {0} /\ T \in Nat \ {0}
      /\ totalAssets[a] \in Nat /\ totalSupply[a] \in Nat
  BY PoolType
<1>4. \A x \in Nat :
          /\ SharesFor(x, totalSupply[a], totalAssets[a]) = MulDiv(x, T, Q)
          /\ SharesForUp(x, totalSupply[a], totalAssets[a]) = MulDivUp(x, T, Q)
          /\ AssetsFor(x, totalSupply[a], totalAssets[a]) = MulDiv(x, Q, T)
          /\ AssetsForUp(x, totalSupply[a], totalAssets[a]) = MulDivUp(x, Q, T)
  BY DEF SharesFor, SharesForUp, AssetsFor, AssetsForUp
<1>. HIDE DEF Q, T
<1>5. ASSUME NEW x \in Nat
      PROVE  /\ MulDiv(x, T, Q) \in Nat /\ MulDiv(x, T, Q) * Q <= x * T
             /\ MulDivUp(x, T, Q) \in Nat /\ x * T <= MulDivUp(x, T, Q) * Q
             /\ MulDiv(x, Q, T) \in Nat /\ MulDiv(x, Q, T) * T <= x * Q
             /\ MulDivUp(x, Q, T) \in Nat /\ x * Q <= MulDivUp(x, Q, T) * T
  BY <1>3, MulDivBounds, MulDivUpBounds
<1>6. ASSUME NEW x \in DepositAmounts, NEW r \in Backers, Deposit(a, u, r, x)
      PROVE  \A c \in Agents : WorthKept(c)
  BY <1>2, <1>4, <1>5, <1>6, EnterKeepsWorth DEF Deposit, Q, T
<1>7. ASSUME NEW x \in DepositAmounts, Withdraw(a, u, x)
      PROVE  \A c \in Agents : WorthKept(c)
  BY <1>2, <1>4, <1>5, <1>7, LeaveKeepsWorth DEF Withdraw, Q, T
<1>8. ASSUME NEW x \in ShareAmounts, NEW r \in Backers, Mint(a, u, r, x)
      PROVE  \A c \in Agents : WorthKept(c)
  BY <1>2, <1>4, <1>5, <1>8, EnterKeepsWorth DEF Mint, Q, T
<1>9. ASSUME NEW x \in ShareAmounts, Redeem(a, u, x)
      PROVE  \A c \in Agents : WorthKept(c)
  BY <1>2, <1>4, <1>5, <1>9, LeaveKeepsWorth DEF Redeem, Q, T
<1>10. ASSUME NEW x \in ShareAmounts, NEW to \in Backers, TransferShares(a, u, to, x)
       PROVE  \A c \in Agents : WorthKept(c)
  BY <1>10, WorthStays DEF TransferShares
<1>11. ASSUME NEW x \in DepositAmounts, Donate(a, u, x)
       PROVE  \A c \in Agents : WorthKept(c)
  <2>1. /\ totalAssets' = [totalAssets EXCEPT ![a] = totalAssets[a] + x]
        /\ totalSupply' = totalSupply /\ totalAssets \in [Agents -> Nat] /\ x \in Nat
    BY <1>2, <1>11 DEF Donate, IInv, TypeOK
  <2>2. ASSUME NEW c \in Agents, c # a PROVE WorthKept(c)
    BY <2>1, <2>2, WorthStays
  <2>3. WorthKept(a)
    <3>1. totalAssets'[a] + 1 = Q + x
      BY <1>3, <2>1 DEF Q
    <3>2. WorthKept(a) <=> (Q + x) * T >= Q * T
      BY <2>1, <3>1 DEF WorthKept, Q, T
    <3>3. Q * T <= (Q + x) * T
      BY <1>3, <2>1, MulMono
    <3>. QED  BY <1>3, <2>1, <3>2, <3>3
  <2>. QED  BY <2>2, <2>3
<1>. QED  BY <1>1, <1>6, <1>7, <1>8, <1>9, <1>10, <1>11

\* Settling a bet costs its vault at most the liability it releases.
LEMMA SettleCost ==
    ASSUME IInv, SettleStep, NEW a \in Agents
    PROVE  \/ WorthKept(a)
           \/ /\ totalSupply'[a] = totalSupply[a]
              /\ totalAssets[a] - totalAssets'[a] <=
                    lockedLiability[a] - lockedLiability'[a]
<1>1. PICK b \in BetIds : SettleBatch(b)
  BY DEF SettleStep
<1>. DEFINE ag == bets[b].agentId
            freed == Liability(b)
            stake == bets[b].stake
<1>2. bets[b].status = "Open" /\ bets[b] \in Bet /\ BetSound(bets[b])
  BY <1>1 DEF SettleBatch, SettleVoided, SettleWon, SettleLost, Settleable, IInv, TypeOK,
              BetsSound
<1>3. ag \in Agents /\ freed \in Nat /\ stake \in Nat
  BY <1>2 DEF BetSound, Bet, Liability
<1>4. /\ totalSupply' = totalSupply
      /\ lockedLiability' = [lockedLiability EXCEPT ![ag] = lockedLiability[ag] - freed]
      /\ \/ totalAssets' = totalAssets
         \/ totalAssets' = [totalAssets EXCEPT ![ag] = totalAssets[ag] - freed]
         \/ totalAssets' = [totalAssets EXCEPT ![ag] = totalAssets[ag] + stake]
  BY <1>1 DEF SettleBatch, SettleVoided, SettleWon, SettleLost, ReleaseVoided,
              SettleAgentLost, SettleAgentWon, Release
<1>5. totalAssets \in [Agents -> Nat] /\ lockedLiability \in [Agents -> Nat]
  BY DEF IInv, TypeOK
<1>. HIDE DEF ag, freed, stake
<1>6. CASE a # ag
  BY <1>4, <1>5, <1>6, WorthStays
<1>7. CASE a = ag
  <2>1. /\ lockedLiability'[a] = lockedLiability[a] - freed
        /\ \/ totalAssets'[a] = totalAssets[a]
           \/ totalAssets'[a] = totalAssets[a] - freed
           \/ totalAssets'[a] = totalAssets[a] + stake
    BY <1>3, <1>4, <1>5, <1>7
  <2>2. totalAssets[a] \in Nat /\ lockedLiability[a] \in Nat
    BY <1>5
  <2>3. totalAssets[a] - totalAssets'[a] <= lockedLiability[a] - lockedLiability'[a]
    BY <1>3, <2>1, <2>2
  <2>. QED  BY <1>4, <2>3
<1>. QED  BY <1>6, <1>7

\* Nothing else touches a pool or its shares, but a harvest.
LEMMA PoolsLeftAlone ==
    ASSUME [Next]_vars, ~BackerStep, ~SettleStep, ~HarvestStep
    PROVE  UNCHANGED <<totalAssets, totalSupply, highWaterMark>>
<1>1. FanStep => UNCHANGED <<totalAssets, totalSupply, highWaterMark>>
  <2>1. ASSUME NEW u, NEW m, NEW side, NEW total, NEW minPayout, NEW ladder,
               PlaceBet(u, m, side, total, minPayout, ladder)
        PROVE  UNCHANGED <<totalAssets, totalSupply, highWaterMark>>
    BY <2>1 DEF PlaceBet
  <2>2. ASSUME NEW u, NEW b, Claim(u, b)
        PROVE  UNCHANGED <<totalAssets, totalSupply, highWaterMark>>
    BY <2>2 DEF Claim, vaultVars
  <2>. QED  BY <2>1, <2>2 DEF FanStep
<1>2. AdminStep \/ OperatorStep \/ SchedulerStep \/ SettlerStep \/ Tick \/ UNCHANGED vars
        => UNCHANGED <<totalAssets, totalSupply, highWaterMark>>
  BY DEF AdminStep, OperatorStep, SchedulerStep, SettlerStep, Tick, vars, vaultVars
<1>. QED  BY <1>1, <1>2 DEF Next

\* The backers of a vault are never diluted: a share is worth less only after a
\* lost bet, by what it had locked, or a harvest.
THEOREM BackersKept == Spec => BackersNeverDiluted
<1>1. ASSUME IInv, [Next]_vars
      PROVE  \A a \in Agents :
                \/ WorthKept(a)
                \/ /\ totalSupply'[a] = totalSupply[a]
                   /\ totalAssets[a] - totalAssets'[a] <=
                         lockedLiability[a] - lockedLiability'[a]
                \/ Harvest(a)
  <2>1. CASE BackerStep
    BY <1>1, <2>1, BackersKeepWorth
  <2>2. CASE SettleStep
    BY <1>1, <2>2, SettleCost
  <2>3. CASE HarvestStep
    <3>1. PICK h \in Agents : Harvest(h)
      BY <2>3 DEF HarvestStep
    <3>2. ASSUME NEW a \in Agents, a # h PROVE WorthKept(a)
      <4>1. totalAssets'[a] = totalAssets[a] /\ totalSupply'[a] = totalSupply[a]
        BY <1>1, <3>1, <3>2 DEF Harvest, IInv, TypeOK
      <4>. QED  BY <1>1, <4>1, WorthStays
    <3>. QED  BY <3>1, <3>2
  <2>4. CASE ~BackerStep /\ ~SettleStep /\ ~HarvestStep
    BY <1>1, <2>4, PoolsLeftAlone, WorthStays
  <2>. QED  BY <2>1, <2>2, <2>3, <2>4
<1>2. IInv /\ [Next]_vars =>
          [\A a \in Agents :
              \/ (totalAssets'[a] + 1) * (totalSupply[a] + VirtualShares) >=
                    (totalAssets[a] + 1) * (totalSupply'[a] + VirtualShares)
              \/ /\ totalSupply'[a] = totalSupply[a]
                 /\ totalAssets[a] - totalAssets'[a] <=
                       lockedLiability[a] - lockedLiability'[a]
              \/ Harvest(a)]_vars
  BY <1>1 DEF WorthKept
<1>. QED  BY <1>2, Invariant, PTL DEF Spec, BackersNeverDiluted

\* The shares a harvest mints, in terms of the pool and the shares conversions
\* divide by.
LEMMA FeeSharesAre ==
    ASSUME NEW a, totalAssets[a] \in Nat, FeeAssets(a) \in Nat
    PROVE  LET Q == totalAssets[a] + 1
               T == totalSupply[a] + VirtualShares
               F == FeeAssets(a)
           IN  FeeShares(a) = IF F = 0 \/ Q <= F THEN 0 ELSE MulDiv(F, T, Q - F)
<1>. DEFINE pool == totalAssets[a]
            F == FeeAssets(a)
<1>1. pool + 1 - F = (pool + 1) - F
  <2>. HIDE DEF pool, F
  <2>1. pool \in Nat /\ F \in Nat
    BY DEF pool, F
  <2>. QED  BY <2>1
<1>. QED  BY <1>1 DEF FeeShares

\* What a harvest takes: at most the fee's part of the gain above the mark, to
\* one unit of rounding; and the mark it leaves is the price it leaves.
LEMMA HarvestWithinGain ==
    ASSUME IInv, NEW a \in Agents, Harvest(a)
    PROVE  /\ highWaterMark'[a] = PricePerShare(a)'
           /\ highWaterMark'[a] >= highWaterMark[a]
           /\ (PricePerShare(a)' - highWaterMark[a]) * BPS + BPS >
                 (PricePerShare(a) - highWaterMark[a]) * (BPS - PerformanceFeeBps)
<1>. DEFINE S == totalSupply[a]
            Q == totalAssets[a] + 1
            T == S + VirtualShares
            P == PricePerShare(a)
            P2 == PricePerShare(a)'
            H == highWaterMark[a]
            G == P - H
            F == FeeAssets(a)
            M == FeeShares(a)
            fee == PerformanceFeeBps
            gain == MulDiv(G, S, Wad)
<1>1. /\ Q \in Nat \ {0} /\ S \in Nat /\ T \in Nat \ {0} /\ S <= T
      /\ H \in Nat /\ Wad \in Nat \ {0} /\ fee \in Nat /\ fee <= 5000
      /\ BPS \in Nat \ {0} /\ BPS = 10000
  <2>1. VirtualShares \in Nat \ {0} /\ Wad \in Nat \ {0} /\ fee \in 0..5000
    BY VaultConstants
  <2>2. BPS \in Nat \ {0} /\ BPS = 10000
    BY DEF BPS
  <2>3. H \in Nat
    BY DEF IInv, TypeOK
  <2>4. /\ totalAssets[a] \in Nat /\ totalAssets[a] + 1 \in Nat \ {0} /\ S \in Nat
        /\ T \in Nat \ {0} /\ S <= T
    BY <2>1, PoolType
  <2>. QED  BY <2>1, <2>2, <2>3, <2>4
<1>2. totalAssets'[a] = totalAssets[a] /\ totalSupply'[a] = S + M
  BY DEF Harvest, IInv, TypeOK
<1>3. P = MulDiv(Wad, Q, T) /\ P > H
  BY DEF PricePerShare, AssetsFor, Harvest
<1>4. P2 = AssetsFor(Wad, totalSupply'[a], totalAssets'[a])
  BY DEF PricePerShare, AssetsFor, MulDiv
<1>5. P2 = MulDiv(Wad, Q, S + M + VirtualShares)
  BY <1>2, <1>4 DEF AssetsFor
<1>6. highWaterMark'[a] = P2
  <2>1. highWaterMark'[a] = AssetsFor(Wad, S + M, totalAssets[a])
    BY DEF Harvest, IInv, TypeOK
  <2>. QED  BY <1>2, <1>4, <2>1
<1>7. F = MulDiv(gain, fee, BPS)
  BY DEF FeeAssets
<1>8. totalAssets[a] \in Nat /\ F \in Nat =>
          M = IF F = 0 \/ Q <= F THEN 0 ELSE MulDiv(F, T, Q - F)
  BY FeeSharesAre
<1>18. totalAssets[a] \in Nat
  BY PoolType
<1>. HIDE DEF S, Q, P, P2, H, F, M, fee
<1>0. Q \in Nat /\ T \in Nat /\ Wad \in Nat
  BY <1>1
<1>9. P \in Nat /\ P * T <= Wad * Q
  <2>1. MulDiv(Wad, Q, T) \in Nat /\ MulDiv(Wad, Q, T) * T <= Wad * Q
    <3>1. T \in Nat \ {0}
      BY <1>1
    <3>. QED  BY <1>0, <3>1, MulDivBounds
  <2>. QED  BY <1>3, <2>1
<1>10. G \in Nat /\ G > 0
  BY <1>1, <1>3, <1>9
<1>. HIDE DEF G
<1>11. gain \in Nat /\ gain * Wad <= G * S
  BY <1>1, <1>10, MulDivBounds
<1>. HIDE DEF gain
<1>12. F \in Nat /\ F * BPS <= gain * fee
  BY <1>1, <1>7, <1>11, MulDivBounds
<1>13. (F * BPS) * Wad <= (G * S) * fee
  <2>1. (F * BPS) * Wad <= (gain * fee) * Wad
    BY <1>1, <1>11, <1>12, MulMono, Regroup
  <2>2. (gain * fee) * Wad = (gain * Wad) * fee
    BY <1>1, <1>11
  <2>3. (gain * Wad) * fee <= (G * S) * fee
    BY <1>1, <1>10, <1>11, MulMono, Regroup
  <2>4. /\ (F * BPS) * Wad \in Int /\ (gain * fee) * Wad \in Int /\ (G * S) * fee \in Int
    BY <1>1, <1>10, <1>11, <1>12
  <2>. QED  BY <2>1, <2>2, <2>3, <2>4
<1>14. /\ M \in Nat
       /\ M > 0 => F <= Q /\ M * (Q - F) <= F * T
  <2>1. CASE F = 0 \/ Q <= F
    BY <1>8, <1>12, <1>18, <2>1
  <2>2. CASE ~(F = 0 \/ Q <= F)
    <3>1. Q - F \in Nat \ {0}
      BY <1>1, <1>12, <2>2
    <3>2. MulDiv(F, T, Q - F) \in Nat /\ MulDiv(F, T, Q - F) * (Q - F) <= F * T
      BY <1>1, <1>12, <3>1, MulDivBounds
    <3>. QED  BY <1>1, <1>8, <1>12, <1>18, <2>2, <3>2
  <2>. QED  BY <2>1, <2>2
<1>15. P2 \in Nat /\ Wad * Q < (P2 + 1) * (T + M)
  <2>1. S + M + VirtualShares = T + M /\ T + M \in Nat \ {0}
    BY <1>1, <1>14, VaultConstants
  <2>2. P2 = MulDiv(Wad, Q, T + M)
    BY <1>5, <2>1
  <2>3. /\ MulDiv(Wad, Q, T + M) \in Nat
        /\ Wad * Q < (MulDiv(Wad, Q, T + M) + 1) * (T + M)
    BY <1>0, <2>1, MulDivBounds
  <2>. QED  BY <2>2, <2>3
<1>16. P * BPS < (P2 + 1) * BPS + G * fee
  <2>1. CASE M > 0
    BY <1>1, <1>9, <1>10, <1>12, <1>13, <1>14, <1>15, <2>1, DilutionWithinFee
  <2>2. CASE M = 0
    <3>1. P2 = P
      <4>1. S + M + VirtualShares = T
        BY <1>1, <2>2
      <4>. QED  BY <1>3, <1>5, <4>1
    <3>2. G * fee \in Nat
      BY <1>1, <1>10
    <3>. QED  BY <1>1, <1>9, <3>1, <3>2
  <2>. QED  BY <1>14, <2>1, <2>2
<1>17. (P2 - H) * BPS + BPS > G * (BPS - fee)
  <2>1. G * (BPS - fee) = G * BPS - G * fee
    BY <1>1, <1>10
  <2>2. G * BPS = P * BPS - H * BPS
    BY <1>1, <1>9 DEF G
  <2>3. (P2 - H) * BPS = P2 * BPS - H * BPS /\ (P2 + 1) * BPS = P2 * BPS + BPS
    BY <1>1, <1>15
  <2>4. G * fee \in Int /\ P * BPS \in Int /\ H * BPS \in Int /\ P2 * BPS \in Int
    BY <1>1, <1>9, <1>10, <1>15
  <2>. QED  BY <1>1, <1>16, <2>1, <2>2, <2>3, <2>4
<1>19. P2 >= H
  <2>1. G * (BPS - fee) >= 0
    <3>1. BPS - fee \in Nat
      BY <1>1
    <3>2. G * (BPS - fee) \in Nat
      BY <1>10, <3>1
    <3>. QED  BY <3>2
  <2>. SUFFICES ASSUME P2 + 1 <= H PROVE FALSE
    BY <1>1, <1>15
  <2>2. (P2 + 1) * BPS <= H * BPS
    BY <1>1, <1>15, MulMono
  <2>3. (P2 - H) * BPS = P2 * BPS - H * BPS /\ (P2 + 1) * BPS = P2 * BPS + BPS
    BY <1>1, <1>15
  <2>4. P2 * BPS \in Int /\ H * BPS \in Int /\ G * (BPS - fee) \in Int
    BY <1>1, <1>10, <1>15
  <2>. QED  BY <1>1, <1>17, <2>1, <2>2, <2>3, <2>4
<1>. QED  BY <1>6, <1>17, <1>19 DEF P, P2, H, G, fee

\* Only a harvest moves the mark, never down, and it never takes more than the
\* fee's part of the gain since the mark.
THEOREM FeeKeptWithinGain == Spec => FeeWithinGain
<1>1. ASSUME IInv, [Next]_vars, NEW a \in Agents, highWaterMark'[a] # highWaterMark[a]
      PROVE  Harvest(a)
  <2>1. CASE HarvestStep
    <3>1. PICK h \in Agents : Harvest(h)
      BY <2>1 DEF HarvestStep
    <3>2. a = h
      BY <1>1, <3>1 DEF Harvest, IInv, TypeOK
    <3>. QED  BY <3>1, <3>2
  <2>2. CASE BackerStep
    <3>1. ASSUME NEW c, NEW u, NEW r, NEW x,
                 \/ Deposit(c, u, r, x) \/ Withdraw(c, u, x) \/ Donate(c, u, x)
                 \/ Mint(c, u, r, x) \/ Redeem(c, u, x) \/ TransferShares(c, u, r, x)
          PROVE  UNCHANGED highWaterMark
      BY <3>1 DEF Deposit, Withdraw, Donate, Mint, Redeem, TransferShares, Enter, Leave
    <3>2. UNCHANGED highWaterMark
      BY <2>2, <3>1 DEF BackerStep
    <3>. QED  BY <1>1, <3>2
  <2>3. CASE SettleStep
    BY <1>1, <2>3 DEF SettleStep, SettleBatch
  <2>4. CASE ~BackerStep /\ ~SettleStep /\ ~HarvestStep
    BY <1>1, <2>4, PoolsLeftAlone
  <2>. QED  BY <2>1, <2>2, <2>3, <2>4
<1>2. IInv /\ [Next]_vars =>
          [\A a \in Agents :
              Harvest(a) \/ highWaterMark'[a] # highWaterMark[a] =>
                  /\ highWaterMark'[a] = PricePerShare(a)'
                  /\ highWaterMark'[a] >= highWaterMark[a]
                  /\ (PricePerShare(a)' - highWaterMark[a]) * BPS + BPS >
                        (PricePerShare(a) - highWaterMark[a]) * (BPS - PerformanceFeeBps)]_vars
  BY <1>1, HarvestWithinGain
<1>. QED  BY <1>2, Invariant, PTL DEF Spec, FeeWithinGain
=============================================================================
