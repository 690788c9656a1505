---------------------------- MODULE CustodyProofs ----------------------------
(***************************************************************************)
(* What the contracts owe and where it is kept: markets only move on, an   *)
(* agent's signing keys stay indexed, a stake struck in the settling delay *)
(* is only ever refunded, the router's escrow and each vault's reserves    *)
(* cover every open bet to the unit, and the contracts keep the fan's book *)
(* (WagerBook). Types and solvency are BettingProofs'.                     *)
(***************************************************************************)
EXTENDS BettingProofs, Screens

USE DEF ChainTypeOK, MarketTypeOK, VaultTypeOK, RegistryTypeOK, RouterTypeOK

-----------------------------------------------------------------------------
(* Markets *)

\* What the markets need to only move on: the id openMarket will hand out next
\* has never been used.
FreshMarkets == \A m \in Markets : m > marketCount => markets[m] = NoMarket

\* Only the scheduler and the settler touch a market.
LEMMA MarketsLeftAlone ==
    ASSUME [Next]_vars, ~SchedulerStep, ~SettlerStep
    PROVE  UNCHANGED marketVars
BY DEF Next, AdminStep, OperatorStep, BackerStep, FanStep, SettleStep, HarvestStep,
       Tick, vars

\* What one step of the scheduler or the settler does to the markets: it writes
\* one of them, and that one moves on.
LEMMA MarketStepEffect ==
    ASSUME TypeOK, FreshMarkets, SchedulerStep \/ SettlerStep
    PROVE  \/ UNCHANGED <<marketCount, markets>>
           \/ \E m \in Markets :
                 /\ markets' = [markets EXCEPT ![m] = markets'[m]]
                 /\ \/ /\ UNCHANGED marketCount
                       /\ markets[m].state \notin {"None", "Resolved", "Voided"}
                       /\ markets'[m].closesAt = markets[m].closesAt
                       /\ Stage(markets'[m]) >= Stage(markets[m])
                    \/ /\ m = marketCount + 1 /\ marketCount' = m
                       /\ markets[m] = NoMarket
<1>. USE DEF Market, MarketStates, Outcomes
<1>1. /\ \A m \in Markets : markets[m] \in Market
      /\ markets \in [Markets -> Market] /\ marketCount \in Nat
  BY DEF TypeOK
<1>. DEFINE Effect(m) ==
                 /\ markets' = [markets EXCEPT ![m] = markets'[m]]
                 /\ \/ /\ UNCHANGED marketCount
                       /\ markets[m].state \notin {"None", "Resolved", "Voided"}
                       /\ markets'[m].closesAt = markets[m].closesAt
                       /\ Stage(markets'[m]) >= Stage(markets[m])
                    \/ /\ m = marketCount + 1 /\ marketCount' = m
                       /\ markets[m] = NoMarket
<1>2. ASSUME NEW t \in Templates, NEW enabled \in BOOLEAN, SetTemplate(t, enabled)
      PROVE  UNCHANGED <<marketCount, markets>>
  BY <1>2 DEF SetTemplate
<1>3. CreateMatch => UNCHANGED <<marketCount, markets>>
  BY DEF CreateMatch
<1>4. ASSUME NEW id \in Matches, NEW t \in Templates, NEW d \in BettingTimes,
             OpenMarket(id, t, now + d)
      PROVE  \E m \in Markets : Effect(m)
  <2>1. Effect(marketCount + 1)
    BY <1>1, <1>4 DEF OpenMarket, FreshMarkets
  <2>. QED  BY <1>4, <2>1 DEF OpenMarket
<1>5. ASSUME NEW m \in Markets, Suspend(m) \/ Resume(m) \/ Close(m, TRUE)
      PROVE  Effect(m)
  <2>1. PICK state \in {"Open", "Suspended", "Closed"} :
            markets' = [markets EXCEPT ![m].state = state]
    BY <1>5 DEF Suspend, Resume, Close
  <2>2. markets'[m] = [markets[m] EXCEPT !.state = state]
    BY <1>1, <2>1
  <2>3. markets[m].state \in {"Open", "Suspended"} /\ UNCHANGED marketCount
    BY <1>5 DEF Suspend, Resume, Close, Running
  <2>. QED  BY <1>1, <2>1, <2>2, <2>3 DEF Stage
<1>6. ASSUME NEW m \in Markets, NEW outcome \in {"Yes", "No"}, NEW ts,
             Resolve(m, outcome, ts)
      PROVE  Effect(m)
  BY <1>1, <1>6 DEF Resolve, Resolution, CanResolve, Running, Stage
<1>7. ASSUME NEW m \in Markets, VoidMarket(m)
      PROVE  Effect(m)
  BY <1>1, <1>7 DEF VoidMarket, Voiding, CanVoid, Stage
<1>. HIDE DEF Effect
<1>8. SchedulerStep => UNCHANGED <<marketCount, markets>> \/ \E m \in Markets : Effect(m)
  BY <1>2, <1>3, <1>4, <1>5 DEF SchedulerStep
<1>9. SettlerStep => \E m \in Markets : Effect(m)
  BY <1>6, <1>7 DEF SettlerStep
<1>. QED  BY <1>8, <1>9 DEF Effect

\* Every step hands out market ids in order.
LEMMA StepFreshMarkets ==
    ASSUME TypeOK, FreshMarkets, [Next]_vars
    PROVE  FreshMarkets'
<1>1. CASE UNCHANGED <<marketCount, markets>>
  BY <1>1 DEF FreshMarkets
<1>2. ASSUME NEW m \in Markets, markets' = [markets EXCEPT ![m] = markets'[m]],
             \/ UNCHANGED marketCount /\ markets[m].state # "None"
             \/ m = marketCount + 1 /\ marketCount' = m
      PROVE  FreshMarkets'
  <2>1. marketCount \in Nat /\ markets \in [Markets -> Market] /\ m \in Nat
    BY MarketConstants DEF TypeOK
  <2>2. \A k \in Markets : k \in Nat /\ (k # m => markets'[k] = markets[k])
    BY <1>2, <2>1, MarketConstants
  <2>3. NoMarket.state = "None"
    BY DEF NoMarket
  <2>. QED  BY <1>2, <2>1, <2>2, <2>3 DEF FreshMarkets
<1>3. CASE SchedulerStep \/ SettlerStep
  BY <1>1, <1>2, <1>3, MarketStepEffect
<1>4. CASE ~SchedulerStep /\ ~SettlerStep
  BY <1>1, <1>4, MarketsLeftAlone DEF marketVars
<1>. QED  BY <1>3, <1>4

\* What MarketsOnlyAdvance says of one step.
LEMMA StepMarketsAdvance ==
    ASSUME TypeOK, FreshMarkets, [Next]_vars, NEW k \in Markets
    PROVE  /\ Stage(markets'[k]) >= Stage(markets[k])
           /\ Settled(k) => markets'[k] = markets[k]
<1>1. CASE UNCHANGED markets
  BY <1>1 DEF Stage
<1>2. CASE SchedulerStep \/ SettlerStep
  <2>1. PICK m \in Markets :
            /\ markets' = [markets EXCEPT ![m] = markets'[m]]
            /\ \/ /\ markets[m].state \notin {"None", "Resolved", "Voided"}
                  /\ Stage(markets'[m]) >= Stage(markets[m])
               \/ markets[m] = NoMarket
            \/ UNCHANGED markets
    BY <1>2, MarketStepEffect
  <2>2. CASE k # m
    BY <2>1, <2>2, <1>1 DEF TypeOK, Stage
  <2>3. CASE k = m /\ markets[m] = NoMarket
    BY <2>3 DEF NoMarket, Stage, Settled
  <2>. QED  BY <1>1, <2>1, <2>2, <2>3 DEF Settled
<1>3. CASE ~SchedulerStep /\ ~SettlerStep
  BY <1>1, <1>3, MarketsLeftAlone DEF marketVars
<1>. QED  BY <1>2, <1>3

\* Market ids are handed out in order, once.
LEMMA FreshMarketsInvariant == Spec => []FreshMarkets
<1>1. Init => FreshMarkets
  BY DEF Init, MarketInit, FreshMarkets
<1>2. TypeOK /\ FreshMarkets /\ [Next]_vars => FreshMarkets'
  BY StepFreshMarkets
<1>. QED  BY <1>1, <1>2, TypeCorrect, PTL DEF Spec

\* A market only moves on through its life, and once settled it keeps its outcome
\* and the time of its event for good, whoever calls MarketManager and when.
THEOREM MarketsAdvance == Spec => MarketsOnlyAdvance
<1>1. TypeOK /\ FreshMarkets /\ [Next]_vars =>
        [\A m \in Markets :
            /\ Stage(markets'[m]) >= Stage(markets[m])
            /\ Settled(m) => markets'[m] = markets[m]]_marketVars
  BY StepMarketsAdvance
<1>. QED  BY <1>1, TypeCorrect, FreshMarketsInvariant, PTL DEF Spec, MarketsOnlyAdvance

-----------------------------------------------------------------------------
(* Agents and their keys *)

\* What the reverse lookup needs to stay right: the agent register will write
\* next has no key yet.
FreshAgents == \A a \in Agents : a > agentCount => agents[a] = NoAgent

SignersInv == FreshAgents /\ SignersIndexed

\* Registering, rotating and switching keep keys and agents matched.
LEMMA StepSigners ==
    ASSUME TypeOK, SignersInv, [Next]_vars
    PROVE  SignersInv'
<1>1. /\ agents \in [Agents -> Agent] /\ agentCount \in Nat
      /\ agentIdOfSigner \in [Signers -> Agents \cup {0}]
      /\ \A a \in Agents : a \in Nat \ {0}
      /\ \A s \in Signers : s # None
  BY RegistryConstants DEF TypeOK
<1>2. CASE UNCHANGED <<agentCount, agents, agentIdOfSigner>>
  BY <1>2 DEF SignersInv, FreshAgents, SignersIndexed
<1>3. ASSUME NEW u \in Users, NEW s \in Signers, Register(u, s)
      PROVE  SignersInv'
  <2>. DEFINE a == agentCount + 1
  <2>1. /\ a \in Agents /\ agentCount' = a /\ agentIdOfSigner[s] = 0
        /\ agents' = [agents EXCEPT ![a] = [operator |-> u, quoteSigner |-> s,
                                            enabled |-> TRUE]]
        /\ agentIdOfSigner' = [agentIdOfSigner EXCEPT ![s] = a]
    BY <1>3 DEF Register, SignerUnused
  <2>2. agents[a].quoteSigner = None
    BY <1>1, <2>1 DEF SignersInv, FreshAgents, NoAgent
  <2>3. FreshAgents'
    BY <1>1, <2>1 DEF SignersInv, FreshAgents
  <2>4. ASSUME NEW b \in Agents, NEW k \in Signers
        PROVE  agentIdOfSigner'[k] = b <=> agents'[b].quoteSigner = k
    <3>1. agentIdOfSigner[k] = b <=> agents[b].quoteSigner = k
      BY DEF SignersInv, SignersIndexed
    <3>2. agentIdOfSigner[s] = b <=> agents[b].quoteSigner = s
      BY DEF SignersInv, SignersIndexed
    <3>3. agentIdOfSigner'[k] = IF k = s THEN a ELSE agentIdOfSigner[k]
      BY <1>1, <2>1
    <3>4. agents'[b].quoteSigner = IF b = a THEN s ELSE agents[b].quoteSigner
      BY <1>1, <2>1
    <3>. HIDE DEF a
    <3>. QED  BY <1>1, <2>1, <2>2, <3>1, <3>2, <3>3, <3>4
  <2>. QED  BY <2>3, <2>4 DEF SignersInv, SignersIndexed
<1>4. ASSUME NEW u \in Users, NEW a \in Agents, NEW s \in Signers,
             SetQuoteSigner(a, u, s)
      PROVE  SignersInv'
  <2>. DEFINE old == agents[a].quoteSigner
  <2>1. /\ agents[a].operator # None /\ agentIdOfSigner[s] = 0
        /\ agents' = [agents EXCEPT ![a].quoteSigner = s]
        /\ agentIdOfSigner' = [agentIdOfSigner EXCEPT ![old] = 0, ![s] = a]
        /\ agentCount' = agentCount
    BY <1>4 DEF SetQuoteSigner, Exists, SignerUnused
  <2>2. FreshAgents'
    <3>1. ~(a > agentCount)
      BY <2>1 DEF SignersInv, FreshAgents, NoAgent
    <3>. QED  BY <1>1, <2>1, <3>1 DEF SignersInv, FreshAgents
  <2>3. ASSUME NEW b \in Agents, NEW k \in Signers
        PROVE  agentIdOfSigner'[k] = b <=> agents'[b].quoteSigner = k
    <3>1. /\ agentIdOfSigner[k] = b <=> agents[b].quoteSigner = k
          /\ agentIdOfSigner[s] = b <=> agents[b].quoteSigner = s
          /\ agentIdOfSigner[k] = a <=> old = k
      BY DEF SignersInv, SignersIndexed
    <3>2. agentIdOfSigner'[k] = IF k = s THEN a
                                ELSE IF k = old THEN 0 ELSE agentIdOfSigner[k]
      BY <1>1, <2>1
    <3>3. agents'[b].quoteSigner = IF b = a THEN s ELSE agents[b].quoteSigner
      BY <1>1, <2>1
    <3>4. k = old => (agents[b].quoteSigner = k <=> b = a)
      BY <3>1
    <3>. HIDE DEF old
    <3>. QED  BY <1>1, <2>1, <3>1, <3>2, <3>3, <3>4
  <2>. QED  BY <2>2, <2>3 DEF SignersInv, SignersIndexed
<1>5. ASSUME NEW a \in Agents, NEW caller, NEW enabled \in BOOLEAN,
             SetEnabled(a, caller, enabled)
      PROVE  SignersInv'
  <2>1. /\ agents[a].operator # None
        /\ agents' = [agents EXCEPT ![a].enabled = enabled]
        /\ UNCHANGED <<agentCount, agentIdOfSigner>>
    BY <1>5 DEF SetEnabled, Exists
  <2>2. FreshAgents'
    <3>1. ~(a > agentCount)
      BY <2>1 DEF SignersInv, FreshAgents, NoAgent
    <3>. QED  BY <1>1, <2>1, <3>1 DEF SignersInv, FreshAgents
  <2>3. \A b \in Agents : agents'[b].quoteSigner = agents[b].quoteSigner
    BY <1>1, <2>1
  <2>. QED  BY <2>1, <2>2, <2>3 DEF SignersInv, SignersIndexed
<1>6. CASE AdminStep
  BY <1>2, <1>5, <1>6 DEF AdminStep, SetBetRouter
<1>7. CASE OperatorStep
  BY <1>3, <1>4, <1>5, <1>7 DEF OperatorStep
<1>8. CASE ~AdminStep /\ ~OperatorStep
  BY <1>2, <1>8 DEF Next, SchedulerStep, SettlerStep, BackerStep, FanStep, SettleStep,
                    HarvestStep, Tick, vars, registryVars
<1>. QED  BY <1>6, <1>7, <1>8

\* A key signs for the agent AgentRegistry's reverse lookup names, and for no
\* other, after any registrations and rotations.
THEOREM SignersAlwaysIndexed == Spec => []SignersIndexed
<1>1. Init => SignersInv
  <2>1. \A a \in Agents : a # 0
    BY RegistryConstants
  <2>. QED  BY <2>1, RegistryConstants
            DEF Init, RegistryInit, SignersInv, FreshAgents, SignersIndexed, NoAgent
<1>2. TypeOK /\ SignersInv /\ [Next]_vars => SignersInv'
  BY StepSigners
<1>3. SignersInv => SignersIndexed
  BY DEF SignersInv
<1>. QED  BY <1>1, <1>2, <1>3, TypeCorrect, PTL DEF Spec

-----------------------------------------------------------------------------
(* What placing a bet writes *)

\* Counting the members of a set of numbers up to each of them numbers them
\* 1, 2, ... without a gap.
LEMMA Ranks ==
    ASSUME NEW n \in Nat, NEW F \in SUBSET (1..n)
    PROVE  /\ Cardinality(F) \in Nat
           /\ [i \in F |-> Cardinality({j \in F : j <= i})]
                 \in Bijection(F, 1..Cardinality(F))
<1>. DEFINE below(i) == {j \in F : j <= i}
            rank == [i \in F |-> Cardinality(below(i))]
            K == Cardinality(F)
<1>1. IsFiniteSet(F) /\ K \in Nat
  <2>1. IsFiniteSet(1..n)
    BY FS_Interval
  <2>2. IsFiniteSet(F)
    BY <2>1, FS_Subset
  <2>. QED  BY <2>2, FS_CardinalityType
<1>2. ASSUME NEW i \in F
      PROVE  /\ below(i) \in SUBSET F /\ IsFiniteSet(below(i))
             /\ Cardinality(below(i)) \in 1..K
  <2>1. below(i) \in SUBSET F /\ i \in below(i)
    OBVIOUS
  <2>. HIDE DEF below
  <2>2. /\ IsFiniteSet(below(i)) /\ Cardinality(below(i)) <= K
    BY <1>1, <2>1, FS_Subset
  <2>3. Cardinality(below(i)) \in Nat /\ Cardinality(below(i)) # 0
    BY <2>1, <2>2, FS_CardinalityType, FS_EmptySet
  <2>. HIDE DEF K
  <2>. QED  BY <1>1, <2>1, <2>2, <2>3
<1>3. ASSUME NEW i \in F, NEW j \in F, i < j
      PROVE  Cardinality(below(i)) # Cardinality(below(j))
  <2>0. \A k \in F : k \in Nat
    OBVIOUS
  <2>1. \A k \in F : k <= i => k <= j
    BY <1>3, <2>0
  <2>2. below(i) \in SUBSET below(j)
    BY <2>1
  <2>3. j \in below(j) /\ j \notin below(i)
    BY <1>3, <2>0
  <2>4. IsFiniteSet(below(j))
    BY <1>2
  <2>. HIDE DEF below
  <2>. QED  BY <2>2, <2>3, <2>4, FS_Subset
<1>4. rank \in [F -> 1..K]
  <2>. HIDE DEF below, K
  <2>. QED  BY <1>2
<1>5. ASSUME NEW i \in F, NEW j \in F, rank[i] = rank[j] PROVE i = j
  <2>1. rank[i] = Cardinality(below(i)) /\ rank[j] = Cardinality(below(j))
    OBVIOUS
  <2>2. ~(i < j) /\ ~(j < i)
    BY <1>3, <1>5, <2>1
  <2>. QED  BY <2>2
<1>6. rank \in Injection(F, 1..K)
  <2>. HIDE DEF rank, K
  <2>. QED  BY <1>4, <1>5 DEF Injection, IsInjective
<1>7. IsFiniteSet(1..K) /\ Cardinality(1..K) = K
  <2>. HIDE DEF K
  <2>1. /\ IsFiniteSet(1..K)
        /\ Cardinality(1..K) = IF 1 > K THEN 0 ELSE K - 1 + 1
    BY <1>1, FS_Interval
  <2>. QED  BY <1>1, <2>1
<1>8. rank \in Surjection(F, 1..K)
  <2>. HIDE DEF rank
  <2>. QED  BY <1>6, <1>7, FS_Injection
<1>9. rank \in Bijection(F, 1..K)
  BY <1>6, <1>8 DEF Bijection
<1>. QED  BY <1>1, <1>9

\* placeBet gives the rungs that take something the next ids, one each, and
\* leaves every other bet as it is.
BetsStruck(u, m, side, stakes, ladder) ==
    LET filled == Filled(stakes)
        fresh == betCount + 1 .. betCount'
    IN  /\ filled \subseteq 1..Len(ladder) /\ filled # {}
        /\ betCount' \in Nat /\ betCount < betCount' /\ betCount' <= MaxBets
        /\ \A i \in filled :
              /\ BetIdOf(i, stakes) \in fresh
              /\ bets'[BetIdOf(i, stakes)] = NewBet(u, m, side, i, stakes, ladder)
        /\ \A i, j \in filled : BetIdOf(i, stakes) = BetIdOf(j, stakes) => i = j
        /\ \A b \in fresh : \E i \in filled : BetIdOf(i, stakes) = b
        /\ \A b \in BetIds : b \notin fresh => bets'[b] = bets[b]

\* placeBet numbers its fills from betCount + 1, one id per rung that takes
\* something, and writes no other bet (BetRouter.placeBet).
LEMMA PlaceBetWrites ==
    ASSUME IInv, NEW u \in Fans, NEW m \in Markets, NEW side \in Side,
           NEW total \in Nat, NEW minPayout \in Nat, NEW ladder \in Ladders,
           PlaceBet(u, m, side, total, minPayout, ladder)
    PROVE  BetsStruck(u, m, side, Stakes(total, ladder, side), ladder)
<1>. DEFINE n == Len(ladder)
            stakes == Stakes(total, ladder, side)
            filled == Filled(stakes)
            K == Cardinality(filled)
            below(i) == {j \in filled : j <= i}
            rank == [i \in filled |-> Cardinality(below(i))]
            written == {BetIdOf(i, stakes) : i \in filled}
            rungOf(b) == CHOOSE i \in filled : BetIdOf(i, stakes) = b
<1>1. /\ n \in Nat /\ CanPlace(m, side, total, ladder) /\ total > 0
      /\ stakes \in [1..n -> Nat] /\ SumTo(stakes, n) = total
  <2>1. n \in Nat /\ CanPlace(m, side, total, ladder)
    BY LadderType DEF PlaceBet
  <2>2. stakes \in [1..n -> Nat] /\ SumTo(stakes, n) = total
    BY <2>1, PlacedStakes
  <2>. QED  BY <2>1, <2>2 DEF CanPlace
<1>2. /\ written \subseteq BetIds /\ betCount' = betCount + K
      /\ bets' = [b \in BetIds |-> IF b \in written
                                   THEN NewBet(u, m, side, rungOf(b), stakes, ladder)
                                   ELSE bets[b]]
  BY DEF PlaceBet
<1>3. filled \in SUBSET (1..n) /\ betCount \in Nat
  BY <1>1 DEF Filled, IInv, TypeOK
<1>4. filled # {}
  <2>. SUFFICES ASSUME filled = {} PROVE FALSE
    OBVIOUS
  <2>. HIDE DEF stakes, n
  <2>1. stakes \in [1..n -> Int] /\ \A i \in 1..n : stakes[i] = 0
    BY <1>1 DEF Filled
  <2>2. SumTo(stakes, n) = 0
    BY <1>1, <2>1, TotalOfZeros
  <2>. QED  BY <1>1, <2>2
<1>. HIDE DEF n, stakes, filled
<1>5. K \in Nat /\ rank \in Bijection(filled, 1..K)
  BY <1>1, <1>3, Ranks
<1>6. \A i \in filled : BetIdOf(i, stakes) = betCount + rank[i]
  BY DEF BetIdOf, filled
<1>. HIDE DEF rank, K
<1>7. /\ rank \in [filled -> 1..K]
      /\ \A i, j \in filled : rank[i] = rank[j] => i = j
      /\ \A k \in 1..K : \E i \in filled : rank[i] = k
  <2>. DEFINE T == 1..K
  <2>. HIDE DEF T
  <2>1. rank \in Bijection(filled, T)
    BY <1>5 DEF T
  <2>2. /\ rank \in [filled -> T]
        /\ \A i, j \in filled : rank[i] = rank[j] => i = j
        /\ \A k \in T : \E i \in filled : rank[i] = k
    BY <2>1, Fun_BijectionProperties
  <2>. QED  BY <2>2 DEF T
<1>8. ASSUME NEW i \in filled
      PROVE  BetIdOf(i, stakes) \in betCount + 1 .. betCount'
  <2>1. rank[i] \in 1..K
    BY <1>7
  <2>. QED  BY <1>2, <1>3, <1>5, <1>6, <2>1
<1>9. \A i, j \in filled : BetIdOf(i, stakes) = BetIdOf(j, stakes) => i = j
  <2>. SUFFICES ASSUME NEW i \in filled, NEW j \in filled,
                       BetIdOf(i, stakes) = BetIdOf(j, stakes)
                PROVE  i = j
    OBVIOUS
  <2>1. rank[i] \in Nat /\ rank[j] \in Nat
    BY <1>7
  <2>2. rank[i] = rank[j]
    BY <1>3, <1>6, <2>1
  <2>. QED  BY <1>7, <2>2
<1>10. ASSUME NEW b \in betCount + 1 .. betCount'
       PROVE  \E i \in filled : BetIdOf(i, stakes) = b
  <2>1. b - betCount \in 1..K /\ betCount + (b - betCount) = b
    BY <1>2, <1>3, <1>5, <1>10
  <2>2. PICK i \in filled : rank[i] = b - betCount
    BY <1>7, <2>1
  <2>. QED  BY <1>6, <2>1, <2>2
<1>11. written = betCount + 1 .. betCount'
  BY <1>8, <1>10
<1>12. betCount' \in Nat /\ betCount < betCount' /\ betCount' <= MaxBets
  <2>1. PICK i \in filled : TRUE
    BY <1>4
  <2>2. K >= 1
    BY <1>5, <1>7, <2>1
  <2>. HIDE DEF written
  <2>3. betCount' \in Nat /\ betCount < betCount'
    BY <1>2, <1>3, <1>5, <2>2
  <2>4. betCount' \in written
    BY <1>3, <1>11, <2>3
  <2>. QED  BY <1>2, <2>3, <2>4 DEF BetIds
<1>13. ASSUME NEW i \in filled
       PROVE  bets'[BetIdOf(i, stakes)] = NewBet(u, m, side, i, stakes, ladder)
  <2>. DEFINE b == BetIdOf(i, stakes)
  <2>1. b \in written /\ b \in BetIds
    BY <1>2
  <2>2. rungOf(b) = i
    BY <1>9
  <2>. HIDE DEF rungOf, b, written
  <2>3. bets'[b] = NewBet(u, m, side, rungOf(b), stakes, ladder)
    BY <1>2, <2>1
  <2>. QED  BY <2>2, <2>3 DEF b
<1>14. ASSUME NEW b \in BetIds, b \notin betCount + 1 .. betCount'
       PROVE  bets'[b] = bets[b]
  BY <1>2, <1>11, <1>14
<1>15. filled \subseteq 1..Len(ladder)
  BY <1>3 DEF n
<1>16. BetsStruck(u, m, side, stakes, ladder)
  BY <1>4, <1>8, <1>9, <1>10, <1>12, <1>13, <1>14, <1>15 DEF filled, BetsStruck
<1>. QED  BY <1>16 DEF stakes

-----------------------------------------------------------------------------
(* The other steps that touch bets *)

\* Bets, claims and escrow are the fans' and settleBatch's alone, and so is the
\* liability that vaults book.
LEMMA BetsLeftAlone ==
    ASSUME [Next]_vars, ~FanStep, ~SettleStep
    PROVE  /\ UNCHANGED <<betCount, bets, claimed, escrow>>
           /\ UNCHANGED <<lockedLiability, marketExposure>>
<1>1. ASSUME NEW a \in Agents, NEW u \in Backers, NEW amount, NEW r,
             \/ Deposit(a, u, r, amount) \/ Withdraw(a, u, amount) \/ Donate(a, u, amount)
             \/ Mint(a, u, r, amount) \/ Redeem(a, u, amount)
             \/ TransferShares(a, u, r, amount)
      PROVE  UNCHANGED <<lockedLiability, marketExposure>>
  BY <1>1 DEF Deposit, Withdraw, Donate, Mint, Redeem, TransferShares, Enter, Leave
<1>2. BackerStep => UNCHANGED <<lockedLiability, marketExposure>>
  BY <1>1 DEF BackerStep
<1>3. HarvestStep => UNCHANGED <<lockedLiability, marketExposure>>
  BY DEF HarvestStep, Harvest
<1>4. BackerStep \/ HarvestStep => UNCHANGED <<betCount, bets, claimed, escrow>>
  BY DEF BackerStep, HarvestStep, routerVars
<1>5. AdminStep \/ OperatorStep \/ SchedulerStep \/ SettlerStep \/ Tick \/ UNCHANGED vars
        => /\ UNCHANGED <<betCount, bets, claimed, escrow>>
           /\ UNCHANGED <<lockedLiability, marketExposure>>
  BY DEF AdminStep, OperatorStep, SchedulerStep, SettlerStep, Tick, vars, routerVars,
         vaultVars
<1>. QED  BY <1>2, <1>3, <1>4, <1>5 DEF Next

\* settleBatch ends one open bet of a settled market; one that is paid or
\* forfeited was not sniped; the money that moves is the stake or the liability.
LEMMA SettleWrites ==
    ASSUME IInv, SettleStep
    PROVE  \E b \in BetIds, status \in {"Won", "Lost", "Voided"} :
              /\ bets[b].status = "Open" /\ Settled(bets[b].marketId)
              /\ bets' = [bets EXCEPT ![b] = [bets[b] EXCEPT !.status = status]]
              /\ status \in {"Won", "Lost"} => ~Sniped(b)
              /\ Release(bets[b].agentId, bets[b].marketId, Liability(b))
              /\ escrow' = CASE status = "Won" -> escrow + Liability(b)
                             [] status = "Lost" -> escrow - bets[b].stake
                             [] status = "Voided" -> escrow
              /\ UNCHANGED <<betCount, claimed, marketVars>>
<1>1. PICK b \in BetIds : SettleBatch(b)
  BY DEF SettleStep
<1>2. UNCHANGED <<betCount, claimed, marketVars>>
  BY <1>1 DEF SettleStep, SettleBatch
<1>3. SettleVoided(b) \/ SettleWon(b) \/ SettleLost(b)
  BY <1>1 DEF SettleBatch
<1>4. \A status : SetStatus(b, status) =>
          bets' = [bets EXCEPT ![b] = [bets[b] EXCEPT !.status = status]]
  BY DEF SetStatus
<1>5. CASE SettleVoided(b)
  <2>1. /\ bets[b].status = "Open" /\ Settled(bets[b].marketId)
        /\ SetStatus(b, "Voided") /\ escrow' = escrow
        /\ Release(bets[b].agentId, bets[b].marketId, Liability(b))
    BY <1>5 DEF SettleVoided, Settleable, ReleaseVoided
  <2>. QED  BY <1>2, <1>4, <2>1
<1>6. CASE SettleWon(b)
  <2>1. /\ bets[b].status = "Open" /\ Settled(bets[b].marketId) /\ ~Sniped(b)
        /\ SetStatus(b, "Won") /\ escrow' = escrow + Liability(b)
        /\ Release(bets[b].agentId, bets[b].marketId, Liability(b))
    BY <1>6 DEF SettleWon, Settleable, Refunded, SettleAgentLost
  <2>. QED  BY <1>2, <1>4, <2>1
<1>7. CASE SettleLost(b)
  <2>1. /\ bets[b].status = "Open" /\ Settled(bets[b].marketId) /\ ~Sniped(b)
        /\ SetStatus(b, "Lost") /\ escrow' = escrow - bets[b].stake
        /\ Release(bets[b].agentId, bets[b].marketId, Liability(b))
    BY <1>7 DEF SettleLost, Settleable, Refunded, SettleAgentWon
  <2>. QED  BY <1>2, <1>4, <2>1
<1>. QED  BY <1>3, <1>5, <1>6, <1>7

\* A fan's step strikes bets or collects one.
LEMMA FanCases ==
    ASSUME FanStep
    PROVE  /\ UNCHANGED <<now, marketVars, registryVars>>
           /\ \/ \E u \in Fans, m \in Markets, side \in Side, total \in StakeAmounts,
                    minPayout \in MinPayouts, ladder \in Ladders :
                    /\ total \in Nat /\ minPayout \in Nat
                    /\ PlaceBet(u, m, side, total, minPayout, ladder)
              \/ \E u \in Fans, b \in BetIds : Claim(u, b)
BY BettingConstants DEF FanStep

-----------------------------------------------------------------------------
(* When bets were struck *)

\* What LateBetsRefunded needs: every bet, open ones too, was struck while its
\* market took bets, and what a paid or forfeited bet was decided by is final.
StruckInTime ==
    \A b \in BetIds :
        bets[b].status # "None" => bets[b].placedAt < markets[bets[b].marketId].closesAt

DecidedFairly ==
    \A b \in BetIds :
        bets[b].status \in {"Won", "Lost"} =>
            Settled(bets[b].marketId) /\ ~Sniped(b)

TimeInv == StruckInTime /\ DecidedFairly

\* A market on which bets were struck keeps its closing time, and one that is
\* settled does not change.
LEMMA StepTimes ==
    ASSUME IInv, FreshMarkets, TimeInv, [Next]_vars
    PROVE  TimeInv'
<1>1. /\ bets \in [BetIds -> Bet] /\ now \in Nat /\ markets \in [Markets -> Market]
      /\ \A b \in BetIds : bets[b].placedAt \in Nat
      /\ \A b \in BetIds : bets[b].status # "None" => bets[b].marketId \in Markets
  BY DEF IInv, TypeOK, BetsSound, BetSound, Bet
<1>2. ASSUME UNCHANGED <<bets, markets>> PROVE TimeInv'
  BY <1>2 DEF TimeInv, StruckInTime, DecidedFairly, Sniped, Settled
<1>3. ASSUME SchedulerStep \/ SettlerStep PROVE TimeInv'
  <2>1. UNCHANGED bets
    BY <1>3 DEF SchedulerStep, SettlerStep, routerVars
  <2>2. ASSUME NEW m \in Markets, markets' = [markets EXCEPT ![m] = markets'[m]],
               \/ /\ markets[m].state \notin {"None", "Resolved", "Voided"}
                  /\ markets'[m].closesAt = markets[m].closesAt
               \/ markets[m] = NoMarket
        PROVE  TimeInv'
    <3>1. ~Settled(m) /\ \A k \in Markets : k # m => markets'[k] = markets[k]
      BY <1>1, <2>2 DEF Settled, NoMarket
    <3>2. ASSUME NEW b \in BetIds, bets[b].status # "None"
          PROVE  bets[b].placedAt < markets'[bets[b].marketId].closesAt
      <4>1. bets[b].placedAt < markets[bets[b].marketId].closesAt
        BY <3>2 DEF TimeInv, StruckInTime
      <4>2. CASE bets[b].marketId = m
        <5>1. markets[m] # NoMarket
          BY <1>1, <4>1, <4>2 DEF NoMarket
        <5>. QED  BY <2>2, <4>1, <4>2, <5>1
      <4>. QED  BY <1>1, <3>1, <3>2, <4>1, <4>2
    <3>3. ASSUME NEW b \in BetIds, bets[b].status \in {"Won", "Lost"}
          PROVE  /\ Settled(bets[b].marketId)
                 /\ markets'[bets[b].marketId] = markets[bets[b].marketId]
                 /\ ~Sniped(b)
      BY <1>1, <3>1, <3>3 DEF TimeInv, DecidedFairly
    <3>4. StruckInTime'
      BY <2>1, <3>2 DEF StruckInTime
    <3>5. DecidedFairly'
      BY <2>1, <3>3 DEF DecidedFairly, Settled, Sniped
    <3>. QED  BY <3>4, <3>5 DEF TimeInv
  <2>. QED  BY <1>2, <1>3, <2>1, <2>2, MarketStepEffect DEF IInv
<1>4. ASSUME NEW u \in Fans, NEW m \in Markets, NEW side \in Side, NEW total \in Nat,
             NEW minPayout \in Nat, NEW ladder \in Ladders,
             PlaceBet(u, m, side, total, minPayout, ladder), UNCHANGED <<now, marketVars>>
      PROVE  TimeInv'
  <2>1. /\ now < markets[m].closesAt /\ UNCHANGED markets
    BY <1>4 DEF PlaceBet, CanPlace, IsBettable, marketVars
  <2>2. ASSUME NEW b \in BetIds, bets'[b] # bets[b]
        PROVE  /\ bets'[b].status = "Open" /\ bets'[b].placedAt = now
               /\ bets'[b].marketId = m
    <3>0. BetsStruck(u, m, side, Stakes(total, ladder, side), ladder)
      BY <1>4, PlaceBetWrites
    <3>1. PICK i : bets'[b] = NewBet(u, m, side, i, Stakes(total, ladder, side), ladder)
      BY <2>2, <3>0 DEF BetsStruck
    <3>. QED  BY <3>1 DEF NewBet
  <2>3. StruckInTime'
    BY <2>1, <2>2 DEF TimeInv, StruckInTime
  <2>4. DecidedFairly'
    BY <2>1, <2>2 DEF TimeInv, DecidedFairly, Settled, Sniped
  <2>. QED  BY <2>3, <2>4 DEF TimeInv
<1>5. ASSUME SettleStep PROVE TimeInv'
  <2>1. PICK b \in BetIds, status \in {"Won", "Lost", "Voided"} :
            /\ bets[b].status = "Open" /\ Settled(bets[b].marketId)
            /\ bets' = [bets EXCEPT ![b] = [bets[b] EXCEPT !.status = status]]
            /\ status \in {"Won", "Lost"} => ~Sniped(b)
            /\ UNCHANGED marketVars
    BY <1>5, SettleWrites
  <2>2. \A c \in BetIds :
            /\ bets'[c].marketId = bets[c].marketId
            /\ bets'[c].placedAt = bets[c].placedAt
            /\ bets'[c].status = IF c = b THEN status ELSE bets[c].status
    BY <1>1, <2>1 DEF Bet
  <2>3. markets' = markets
    BY <2>1 DEF marketVars
  <2>4. StruckInTime'
    BY <2>1, <2>2, <2>3 DEF TimeInv, StruckInTime
  <2>5. DecidedFairly'
    BY <2>1, <2>2, <2>3 DEF TimeInv, DecidedFairly, Settled, Sniped
  <2>. QED  BY <2>4, <2>5 DEF TimeInv
<1>6. ASSUME FanStep PROVE TimeInv'
  <2>1. CASE \E u \in Fans, b \in BetIds : Claim(u, b)
    BY <1>2, <1>6, <2>1 DEF FanStep, Claim, marketVars
  <2>. QED  BY <1>4, <1>6, <2>1, FanCases
<1>7. CASE ~FanStep /\ ~SettleStep /\ ~SchedulerStep /\ ~SettlerStep
  BY <1>2, <1>7, BetsLeftAlone, MarketsLeftAlone DEF marketVars
<1>. QED  BY <1>3, <1>5, <1>6, <1>7

\* No bet that is paid or forfeited was struck after its market closed, or less
\* than DelaySeconds before the event it was decided by.
THEOREM LateBetsAlwaysRefunded == Spec => []LateBetsRefunded
<1>1. Init => TimeInv
  BY DEF Init, RouterInit, NoBet, TimeInv, StruckInTime, DecidedFairly
<1>2. IInv /\ FreshMarkets /\ TimeInv /\ [Next]_vars => TimeInv'
  BY StepTimes
<1>3. IInv /\ TimeInv => LateBetsRefunded
  <2>. SUFFICES ASSUME IInv, TimeInv, NEW b \in BetIds, bets[b].status \in {"Won", "Lost"}
                PROVE  LET market == markets[bets[b].marketId]
                       IN  /\ bets[b].placedAt < market.closesAt
                           /\ \/ market.qualifyingEventTs = 0
                              \/ bets[b].placedAt + DelaySeconds <= market.qualifyingEventTs
    BY DEF LateBetsRefunded
  <2>1. bets[b].placedAt < markets[bets[b].marketId].closesAt /\ ~Sniped(b)
    BY DEF TimeInv, StruckInTime, DecidedFairly
  <2>2. /\ bets[b].placedAt + DelaySeconds \in Nat
        /\ markets[bets[b].marketId].qualifyingEventTs \in Nat
    <3>1. bets[b] \in Bet /\ bets[b].marketId \in Markets /\ markets \in [Markets -> Market]
      BY DEF IInv, TypeOK, BetsSound, BetSound
    <3>. QED  BY <3>1, RouterConstants DEF Bet, Market
  <2>. QED  BY <2>1, <2>2 DEF Sniped
<1>. QED  BY <1>1, <1>2, <1>3, Invariant, FreshMarketsInvariant, PTL DEF Spec

-----------------------------------------------------------------------------
(* Custody and bookings *)

\* What the sums need: ids not handed out yet hold nothing, and only bets that
\* ended with something owed are claimed.
FreshBets == \A b \in BetIds : b > betCount => bets[b] = NoBet

ClaimsOwed == \A b \in BetIds : claimed[b] => bets[b].status \in {"Won", "Voided"}

CustodyInv == FreshBets /\ ClaimsOwed /\ EscrowBacksBets /\ LiabilityBooked

\* What is owed on a bet is an amount, whatever its status.
LEMMA OutstandingType ==
    /\ TypeOK => \A b \in BetIds : Outstanding(b) \in Nat
    /\ TypeOK' => \A b \in BetIds : Outstanding(b)' \in Nat
<1>1. ASSUME TypeOK, NEW b \in BetIds PROVE Outstanding(b) \in Nat
  <2>1. bets[b].stake \in Nat /\ bets[b].payout \in Nat
    BY <1>1 DEF TypeOK, Bet
  <2>. QED  BY <2>1 DEF Outstanding, Owed
<1>2. ASSUME TypeOK', NEW b \in BetIds PROVE Outstanding(b)' \in Nat
  <2>1. bets'[b].stake \in Nat /\ bets'[b].payout \in Nat
    BY <1>2 DEF TypeOK, Bet
  <2>. QED  BY <2>1 DEF Outstanding, Owed
<1>. QED  BY <1>1, <1>2

\* Striking bets adds the stake to what the router owes.
LEMMA PlaceBetOwes ==
    ASSUME IInv, IInv', CustodyInv, NEW u \in Fans, NEW m \in Markets, NEW side \in Side,
           NEW total \in Nat, NEW minPayout \in Nat, NEW ladder \in Ladders,
           PlaceBet(u, m, side, total, minPayout, ladder)
    PROVE  FreshBets' /\ ClaimsOwed' /\ EscrowBacksBets'
<1>. DEFINE n == Len(ladder)
            stakes == Stakes(total, ladder, side)
            filled == Filled(stakes)
            fresh == betCount + 1 .. betCount'
            id == [i \in filled |-> BetIdOf(i, stakes)]
            before == [b \in BetIds |-> Outstanding(b)]
            after == [b \in BetIds |-> Outstanding(b)']
<1>1. /\ n \in Nat /\ stakes \in [1..n -> Nat] /\ SumTo(stakes, n) = total
      /\ escrow' = escrow + total /\ UNCHANGED claimed
  BY LadderType, PlacedStakes DEF PlaceBet
<1>0. betCount \in Nat
  BY DEF IInv, TypeOK
<1>11. BetsStruck(u, m, side, stakes, ladder)
  BY PlaceBetWrites
<1>. HIDE DEF stakes
<1>2. /\ filled \subseteq 1..n
      /\ betCount' \in Nat /\ betCount < betCount' /\ betCount' <= MaxBets
      /\ \A i \in filled :
            /\ BetIdOf(i, stakes) \in fresh
            /\ bets'[BetIdOf(i, stakes)] = NewBet(u, m, side, i, stakes, ladder)
      /\ \A i, j \in filled : BetIdOf(i, stakes) = BetIdOf(j, stakes) => i = j
      /\ \A b \in fresh : \E i \in filled : BetIdOf(i, stakes) = b
      /\ \A b \in BetIds : b \notin fresh => bets'[b] = bets[b]
  BY <1>11 DEF BetsStruck
<1>. HIDE DEF n
<1>3. \A b \in fresh : b \in BetIds /\ b > betCount /\ bets[b] = NoBet /\ ~claimed[b]
  <2>1. \A b \in fresh : b \in BetIds /\ b > betCount
    BY <1>0, <1>2, RouterConstants DEF BetIds
  <2>2. \A b \in BetIds : b > betCount => bets[b].status = "None"
    BY DEF CustodyInv, FreshBets, NoBet
  <2>. QED  BY <2>1, <2>2 DEF CustodyInv, FreshBets, ClaimsOwed, IInv, TypeOK
<1>4. FreshBets'
  <2>. SUFFICES ASSUME NEW b \in BetIds, b > betCount' PROVE bets'[b] = NoBet
    BY DEF FreshBets
  <2>1. b \notin fresh /\ b > betCount
    BY <1>0, <1>2 DEF BetIds
  <2>. QED  BY <1>2, <2>1 DEF CustodyInv, FreshBets
<1>5. ClaimsOwed'
  <2>. SUFFICES ASSUME NEW b \in BetIds, claimed'[b]
                PROVE  bets'[b].status \in {"Won", "Voided"}
    BY DEF ClaimsOwed
  <2>1. b \notin fresh
    BY <1>1, <1>3
  <2>. QED  BY <1>1, <1>2, <2>1 DEF CustodyInv, ClaimsOwed
<1>6. before \in [1..MaxBets -> Int] /\ after \in [1..MaxBets -> Int]
  BY OutstandingType DEF IInv, BetIds
<1>7. id \in [filled -> 1..MaxBets]
  BY <1>2, <1>3 DEF BetIds
<1>8. TermsAdded(before, MaxBets, stakes, n, after, filled, id)
  <2>1. \A i \in (1..n) \ filled : stakes[i] = 0
    BY <1>1 DEF Filled
  <2>2. ASSUME NEW i \in filled
        PROVE  after[id[i]] = before[id[i]] + stakes[i]
    <3>1. PICK b \in BetIds : b = BetIdOf(i, stakes)
      BY <1>2, <1>3
    <3>2. bets[b] = NoBet /\ bets'[b] = NewBet(u, m, side, i, stakes, ladder)
      BY <1>2, <1>3, <3>1
    <3>3. bets[b].status = "None" /\ bets'[b].status = "Open" /\ bets'[b].stake = stakes[i]
      BY <3>2 DEF NoBet, NewBet
    <3>4. Outstanding(b) = 0 /\ Outstanding(b)' = stakes[i]
      BY <3>3 DEF Outstanding
    <3>5. before[b] = 0 /\ after[b] = stakes[i] /\ id[i] = b
      BY <3>1, <3>4
    <3>6. stakes[i] \in Nat
      BY <1>1, <1>2
    <3>. HIDE DEF id, before, after
    <3>. QED  BY <3>5, <3>6
  <2>3. ASSUME NEW b \in 1..MaxBets, \A i \in filled : id[i] # b
        PROVE  after[b] = before[b]
    <3>1. b \in BetIds /\ b \notin fresh
      BY <1>2, <2>3 DEF BetIds
    <3>2. bets'[b] = bets[b] /\ claimed'[b] = claimed[b]
      BY <1>1, <1>2, <3>1
    <3>. QED  BY <3>1, <3>2 DEF Outstanding
  <2>4. \A i, j \in filled : id[i] = id[j] => i = j
    BY <1>2
  <2>. HIDE DEF filled, id, before, after
  <2>. QED  BY <2>1, <2>2, <2>3, <2>4 DEF TermsAdded
<1>. HIDE DEF filled, id, before, after
<1>9. SumTo(after, MaxBets) = SumTo(before, MaxBets) + SumTo(stakes, n)
  <2>1. stakes \in [1..n -> Int] /\ MaxBets \in Nat /\ filled \in SUBSET (1..n)
    BY <1>1, <1>2, RouterConstants
  <2>. QED  BY <1>1, <1>6, <1>7, <1>8, <2>1, TotalGrows, ZenonT(30)
<1>10. EscrowBacksBets'
  BY <1>1, <1>9 DEF CustodyInv, EscrowBacksBets, before, after
<1>. QED  BY <1>4, <1>5, <1>10

\* Changing one bet changes what is owed by as much.
LEMMA OwedMoves ==
    ASSUME IInv, IInv', NEW b \in BetIds,
           \A c \in BetIds : c # b => bets'[c] = bets[c] /\ claimed'[c] = claimed[c]
    PROVE  SumTo([c \in BetIds |-> Outstanding(c)], MaxBets)' =
           SumTo([c \in BetIds |-> Outstanding(c)], MaxBets)
              - Outstanding(b) + Outstanding(b)'
<1>. DEFINE before == [c \in BetIds |-> Outstanding(c)]
            after == [c \in BetIds |-> Outstanding(c)']
<1>1. before \in [1..MaxBets -> Int] /\ after \in [1..MaxBets -> Int]
  BY OutstandingType DEF IInv, BetIds
<1>2. \A c \in 1..MaxBets : c # b => after[c] = before[c]
  BY DEF Outstanding, BetIds
<1>3. before[b] = Outstanding(b) /\ after[b] = Outstanding(b)'
  OBVIOUS
<1>4. b \in 1..MaxBets /\ MaxBets \in Nat
  BY RouterConstants DEF BetIds
<1>. HIDE DEF before, after
<1>5. SumTo(after, MaxBets) = SumTo(before, MaxBets) - before[b] + after[b]
  BY <1>1, <1>2, <1>4, TotalChange
<1>. QED  BY <1>3, <1>5 DEF before, after

\* Settling moves in or out of escrow what the bet's outcome is worth.
LEMMA SettleOwes ==
    ASSUME IInv, IInv', CustodyInv, SettleStep
    PROVE  FreshBets' /\ ClaimsOwed' /\ EscrowBacksBets'
<1>1. PICK b \in BetIds, status \in {"Won", "Lost", "Voided"} :
          /\ bets[b].status = "Open"
          /\ bets' = [bets EXCEPT ![b] = [bets[b] EXCEPT !.status = status]]
          /\ escrow' = CASE status = "Won" -> escrow + Liability(b)
                         [] status = "Lost" -> escrow - bets[b].stake
                         [] status = "Voided" -> escrow
          /\ UNCHANGED <<betCount, claimed>>
  BY SettleWrites
<1>2. bets \in [BetIds -> Bet] /\ bets[b] \in Bet /\ claimed[b] \in BOOLEAN
  BY DEF IInv, TypeOK
<1>3. /\ bets'[b].status = status /\ bets'[b].stake = bets[b].stake
      /\ bets'[b].payout = bets[b].payout
      /\ \A c \in BetIds : c # b => bets'[c] = bets[c]
  BY <1>1, <1>2 DEF Bet
<1>4. ~claimed[b]
  BY <1>1 DEF CustodyInv, ClaimsOwed
<1>5. FreshBets' /\ ClaimsOwed'
  <2>1. b <= betCount
    <3>. SUFFICES ASSUME b > betCount PROVE FALSE
      BY DEF IInv, TypeOK, BetIds
    <3>. QED  BY <1>1 DEF CustodyInv, FreshBets, NoBet
  <2>2. b \in Nat /\ betCount \in Nat
    BY DEF BetIds, IInv, TypeOK
  <2>3. FreshBets'
    BY <1>1, <1>3, <2>1, <2>2 DEF CustodyInv, FreshBets
  <2>4. ClaimsOwed'
    BY <1>1, <1>3, <1>4 DEF CustodyInv, ClaimsOwed
  <2>. QED  BY <2>3, <2>4
<1>6. Outstanding(b) = bets[b].stake
  BY <1>1 DEF Outstanding
<1>7. Outstanding(b)' = CASE status = "Won" -> bets[b].payout
                          [] status = "Lost" -> 0
                          [] status = "Voided" -> bets[b].stake
  BY <1>1, <1>3, <1>4 DEF Outstanding, Owed
<1>8. SumTo([c \in BetIds |-> Outstanding(c)], MaxBets)' =
      SumTo([c \in BetIds |-> Outstanding(c)], MaxBets) - Outstanding(b) + Outstanding(b)'
  BY <1>1, <1>3, OwedMoves
<1>9. escrow' = escrow - Outstanding(b) + Outstanding(b)'
  <2>1. bets[b].stake \in Nat /\ bets[b].payout \in Nat /\ escrow \in Nat
    BY <1>2 DEF IInv, TypeOK, Bet
  <2>2. CASE status = "Won"
    BY <1>1, <1>6, <1>7, <2>1, <2>2 DEF Liability
  <2>3. CASE status = "Lost"
    BY <1>1, <1>6, <1>7, <2>1, <2>3
  <2>4. CASE status = "Voided"
    BY <1>1, <1>6, <1>7, <2>1, <2>4
  <2>. QED  BY <2>2, <2>3, <2>4
<1>10. EscrowBacksBets'
  BY <1>8, <1>9 DEF CustodyInv, EscrowBacksBets
<1>. QED  BY <1>5, <1>10

\* Claiming pays out exactly what was owed.
LEMMA ClaimOwes ==
    ASSUME IInv, IInv', CustodyInv, NEW u \in Fans, NEW b \in BetIds, Claim(u, b)
    PROVE  FreshBets' /\ ClaimsOwed' /\ EscrowBacksBets'
<1>1. /\ ~claimed[b] /\ Owed(bets[b]) > 0 /\ escrow' = escrow - Owed(bets[b])
      /\ claimed' = [claimed EXCEPT ![b] = TRUE] /\ UNCHANGED <<betCount, bets>>
  BY DEF Claim
<1>2. claimed'[b] = TRUE /\ \A c \in BetIds : c # b => claimed'[c] = claimed[c]
  BY <1>1 DEF IInv, TypeOK
<1>3. bets[b].status \in {"Won", "Voided"}
  BY <1>1 DEF Owed
<1>4. FreshBets' /\ ClaimsOwed'
  <2>1. FreshBets'
    BY <1>1 DEF CustodyInv, FreshBets
  <2>2. ClaimsOwed'
    BY <1>1, <1>2, <1>3 DEF CustodyInv, ClaimsOwed
  <2>. QED  BY <2>1, <2>2
<1>5. Outstanding(b) = Owed(bets[b]) /\ Outstanding(b)' = 0
  BY <1>1, <1>2, <1>3 DEF Outstanding
<1>6. SumTo([c \in BetIds |-> Outstanding(c)], MaxBets)' =
      SumTo([c \in BetIds |-> Outstanding(c)], MaxBets) - Outstanding(b) + Outstanding(b)'
  BY <1>1, <1>2, OwedMoves
<1>7. escrow' = escrow - Outstanding(b) + Outstanding(b)'
  <2>1. Outstanding(b) \in Nat /\ escrow \in Nat
    BY OutstandingType DEF IInv, TypeOK
  <2>. QED  BY <1>1, <1>5, <2>1
<1>8. EscrowBacksBets'
  BY <1>6, <1>7 DEF CustodyInv, EscrowBacksBets
<1>. QED  BY <1>4, <1>8

\* What bet b books with agent a on the markets in ms: a term of OpenLiability.
Booked(a, ms, b) ==
    IF bets[b].status = "Open" /\ bets[b].agentId = a /\ bets[b].marketId \in ms
    THEN Liability(b) ELSE 0

\* What a bet books is a number, before a step and after it.
LEMMA BookedType ==
    ASSUME NEW a, NEW ms
    PROVE  /\ TypeOK => \A b \in BetIds : Booked(a, ms, b) \in Int
           /\ TypeOK' => \A b \in BetIds : Booked(a, ms, b)' \in Int
<1>1. ASSUME TypeOK, NEW b \in BetIds PROVE Booked(a, ms, b) \in Int
  <2>1. bets[b].stake \in Nat /\ bets[b].payout \in Nat
    BY <1>1 DEF TypeOK, Bet
  <2>. QED  BY <2>1 DEF Booked, Liability
<1>2. ASSUME TypeOK', NEW b \in BetIds PROVE Booked(a, ms, b)' \in Int
  <2>1. bets'[b].stake \in Nat /\ bets'[b].payout \in Nat
    BY <1>2 DEF TypeOK, Bet
  <2>. QED  BY <2>1 DEF Booked, Liability
<1>. QED  BY <1>1, <1>2

\* The sum is a number.
LEMMA OpenLiabilityType ==
    ASSUME IInv, NEW a, NEW ms
    PROVE  OpenLiability(a, ms) \in Int
<1>. DEFINE terms == [c \in BetIds |-> Booked(a, ms, c)]
<1>1. terms \in [1..MaxBets -> Int] /\ MaxBets \in Nat
  BY BookedType, RouterConstants DEF IInv, BetIds
<1>2. OpenLiability(a, ms) = SumTo(terms, MaxBets)
  BY DEF OpenLiability, Booked
<1>. HIDE DEF terms
<1>3. RunningTotal(terms, MaxBets) \in [0..MaxBets -> Int]
  BY <1>1, RunningTotalDef
<1>. QED  BY <1>1, <1>2, <1>3 DEF SumTo

\* Changing what one bet books changes the sum by as much.
LEMMA BookedMoves ==
    ASSUME IInv, IInv', NEW a, NEW ms, NEW b \in BetIds,
           \A c \in BetIds : c # b => Booked(a, ms, c)' = Booked(a, ms, c)
    PROVE  OpenLiability(a, ms)' =
           OpenLiability(a, ms) - Booked(a, ms, b) + Booked(a, ms, b)'
<1>. DEFINE before == [c \in BetIds |-> Booked(a, ms, c)]
            after == [c \in BetIds |-> Booked(a, ms, c)']
<1>1. before \in [1..MaxBets -> Int] /\ after \in [1..MaxBets -> Int]
  BY BookedType DEF IInv, BetIds
<1>2. \A c \in 1..MaxBets : c # b => after[c] = before[c]
  BY DEF BetIds
<1>3. before[b] = Booked(a, ms, b) /\ after[b] = Booked(a, ms, b)'
  OBVIOUS
<1>4. b \in 1..MaxBets /\ MaxBets \in Nat
  BY RouterConstants DEF BetIds
<1>5. OpenLiability(a, ms) = SumTo(before, MaxBets)
  BY DEF OpenLiability, Booked
<1>6. OpenLiability(a, ms)' = SumTo(after, MaxBets)
  BY DEF OpenLiability, Booked
<1>. HIDE DEF before, after
<1>7. SumTo(after, MaxBets) = SumTo(before, MaxBets) - before[b] + after[b]
  BY <1>1, <1>2, <1>4, TotalChange
<1>. QED  BY <1>3, <1>5, <1>6, <1>7

\* When no bet books anything else, neither does the sum.
LEMMA BookedStays ==
    ASSUME NEW a, NEW ms,
           \A c \in BetIds : Booked(a, ms, c)' = Booked(a, ms, c)
    PROVE  OpenLiability(a, ms)' = OpenLiability(a, ms)
<1>. DEFINE before == [c \in BetIds |-> Booked(a, ms, c)]
            after == [c \in BetIds |-> Booked(a, ms, c)']
<1>1. OpenLiability(a, ms) = SumTo(before, MaxBets)
  BY DEF OpenLiability, Booked
<1>2. OpenLiability(a, ms)' = SumTo(after, MaxBets)
  BY DEF OpenLiability, Booked
<1>3. after = before
  OBVIOUS
<1>. QED  BY <1>1, <1>2, <1>3

\* Placing a bet adds to the sum exactly what lockLiability is told to lock.
LEMMA PlaceBetBooks ==
    ASSUME IInv, IInv', CustodyInv, NEW u \in Fans, NEW m \in Markets, NEW side \in Side,
           NEW total \in Nat, NEW minPayout \in Nat, NEW ladder \in Ladders,
           PlaceBet(u, m, side, total, minPayout, ladder),
           NEW a \in Agents, NEW ms
    PROVE  LET fills == Liabilities(Stakes(total, ladder, side), ladder, side)
           IN  OpenLiability(a, ms)' =
                  OpenLiability(a, ms)
                     + (IF a \in DOMAIN fills /\ m \in ms THEN fills[a] ELSE 0)
<1>. DEFINE stakes == Stakes(total, ladder, side)
            filled == Filled(stakes)
            fills == Liabilities(stakes, ladder, side)
            fresh == betCount + 1 .. betCount'
<1>0. BetsStruck(u, m, side, stakes, ladder)
  BY PlaceBetWrites
<1>. HIDE DEF stakes
<1>1. /\ filled \subseteq 1..Len(ladder)
      /\ \A i \in filled :
            /\ BetIdOf(i, stakes) \in fresh
            /\ bets'[BetIdOf(i, stakes)] = NewBet(u, m, side, i, stakes, ladder)
      /\ \A i, j \in filled : BetIdOf(i, stakes) = BetIdOf(j, stakes) => i = j
      /\ \A b \in fresh : \E i \in filled : BetIdOf(i, stakes) = b
      /\ \A b \in BetIds : b \notin fresh => bets'[b] = bets[b]
      /\ betCount' \in Nat /\ betCount' <= MaxBets
  BY <1>0 DEF BetsStruck
<1>2. \A b \in fresh : b \in BetIds /\ Booked(a, ms, b) = 0
  <2>1. betCount \in Nat
    BY DEF IInv, TypeOK
  <2>2. \A b \in fresh : b \in BetIds /\ b > betCount
    BY <1>1, <2>1, RouterConstants DEF BetIds
  <2>. QED  BY <2>2 DEF CustodyInv, FreshBets, NoBet, Booked
<1>3. \A b \in BetIds : b \notin fresh => Booked(a, ms, b)' = Booked(a, ms, b)
  BY <1>1 DEF Booked, Liability
<1>4. ASSUME NEW i \in filled, NEW b, b = BetIdOf(i, stakes)
      PROVE  Booked(a, ms, b)' = IF ladder[i].quote.agentId = a /\ m \in ms
                                 THEN PayoutOf(i, stakes, ladder, side) - stakes[i]
                                 ELSE 0
  <2>1. bets'[b] = NewBet(u, m, side, i, stakes, ladder)
    BY <1>1, <1>4
  <2>2. /\ bets'[b].status = "Open" /\ bets'[b].agentId = ladder[i].quote.agentId
        /\ bets'[b].marketId = m /\ bets'[b].stake = stakes[i]
        /\ bets'[b].payout = PayoutOf(i, stakes, ladder, side)
    BY <2>1 DEF NewBet
  <2>. QED  BY <2>2 DEF Booked, Liability
<1>5. \A x \in DOMAIN fills : \E i \in filled :
          /\ ladder[i].quote.agentId = x
          /\ fills[x] = PayoutOf(i, stakes, ladder, side) - stakes[i]
  BY LiabilitiesLock DEF PlaceBet, stakes
<1>6. \A i \in filled : ladder[i].quote.agentId \in DOMAIN fills
  BY DEF Liabilities
<1>7. \A i, j \in filled : ladder[i].quote.agentId = ladder[j].quote.agentId => i = j
  <2>1. Ranked(ladder, side)
    BY DEF PlaceBet, CanPlace
  <2>2. DOMAIN ladder = 1..Len(ladder) /\ Len(ladder) \in Nat
    BY LadderType
  <2>3. \A i, j \in 1..Len(ladder) :
            i < j => ladder[i].quote.agentId # ladder[j].quote.agentId
    BY <2>1, <2>2 DEF Ranked
  <2>4. \A i, j \in filled : i = j \/ i < j \/ j < i
    BY <1>1, <2>2
  <2>. HIDE DEF filled
  <2>. QED  BY <1>1, <2>3, <2>4
<1>. HIDE DEF filled, fills
<1>8. CASE a \in DOMAIN fills /\ m \in ms
  <2>1. PICK i \in filled : /\ ladder[i].quote.agentId = a
                            /\ fills[a] = PayoutOf(i, stakes, ladder, side) - stakes[i]
    BY <1>5, <1>8
  <2>2. PICK b \in BetIds : b = BetIdOf(i, stakes)
    BY <1>1, <1>2
  <2>3. Booked(a, ms, b) = 0 /\ Booked(a, ms, b)' = fills[a]
    BY <1>1, <1>2, <1>4, <1>8, <2>1, <2>2
  <2>4. ASSUME NEW c \in BetIds, c # b PROVE Booked(a, ms, c)' = Booked(a, ms, c)
    <3>1. CASE c \in fresh
      <4>1. PICK j \in filled : c = BetIdOf(j, stakes)
        BY <1>1, <3>1
      <4>2. ladder[j].quote.agentId # a
        BY <1>7, <2>1, <2>2, <2>4, <4>1
      <4>3. Booked(a, ms, c)' = 0
        BY <1>4, <4>1, <4>2
      <4>. QED  BY <1>2, <3>1, <4>3
    <3>. QED  BY <1>3, <2>4, <3>1
  <2>5. OpenLiability(a, ms)' = OpenLiability(a, ms) - Booked(a, ms, b) + Booked(a, ms, b)'
    BY <2>4, BookedMoves
  <2>6. OpenLiability(a, ms) \in Int
    BY OpenLiabilityType
  <2>. QED  BY <1>8, <2>3, <2>5, <2>6 DEF stakes, fills
<1>9. CASE ~(a \in DOMAIN fills /\ m \in ms)
  <2>1. ASSUME NEW c \in BetIds PROVE Booked(a, ms, c)' = Booked(a, ms, c)
    <3>1. CASE c \in fresh
      <4>1. PICK j \in filled : c = BetIdOf(j, stakes)
        BY <1>1, <3>1
      <4>2. ~(ladder[j].quote.agentId = a /\ m \in ms)
        BY <1>6, <1>9
      <4>3. Booked(a, ms, c)' = 0
        BY <1>4, <4>1, <4>2
      <4>. QED  BY <1>2, <3>1, <4>3
    <3>. QED  BY <1>3, <3>1
  <2>2. OpenLiability(a, ms)' = OpenLiability(a, ms)
    BY <2>1, BookedStays
  <2>3. OpenLiability(a, ms) \in Int
    BY OpenLiabilityType
  <2>. QED  BY <1>9, <2>2, <2>3 DEF stakes, fills
<1>. QED  BY <1>8, <1>9

\* So placing a bet keeps the books of every vault.
LEMMA PlaceBetBooked ==
    ASSUME IInv, IInv', CustodyInv, NEW u \in Fans, NEW m \in Markets, NEW side \in Side,
           NEW total \in Nat, NEW minPayout \in Nat, NEW ladder \in Ladders,
           PlaceBet(u, m, side, total, minPayout, ladder)
    PROVE  LiabilityBooked'
<1>. DEFINE fills == Liabilities(Stakes(total, ladder, side), ladder, side)
<1>1. LockLiability(m, fills)
  BY DEF PlaceBet
<1>2. \A a \in DOMAIN fills : fills[a] \in Nat
  BY LiabilitiesLock DEF PlaceBet
<1>3. \A a \in Agents, ms \in SUBSET Markets :
          OpenLiability(a, ms)' =
             OpenLiability(a, ms) + (IF a \in DOMAIN fills /\ m \in ms THEN fills[a] ELSE 0)
  BY PlaceBetBooks
<1>. HIDE DEF fills
<1>4. SUFFICES ASSUME NEW a \in Agents
               PROVE  /\ lockedLiability'[a] = OpenLiability(a, Markets)'
                      /\ \A k \in Markets : marketExposure'[a][k] = OpenLiability(a, {k})'
  BY DEF LiabilityBooked
<1>5. /\ lockedLiability[a] = OpenLiability(a, Markets)
      /\ \A k \in Markets : marketExposure[a][k] = OpenLiability(a, {k})
  BY DEF CustodyInv, LiabilityBooked
<1>6. lockedLiability[a] \in Nat /\ marketExposure \in [Agents -> [Markets -> Nat]]
  BY DEF IInv, TypeOK
<1>7. lockedLiability'[a] = OpenLiability(a, Markets)'
  <2>1. OpenLiability(a, Markets)' =
            OpenLiability(a, Markets) + (IF a \in DOMAIN fills THEN fills[a] ELSE 0)
    BY <1>3
  <2>2. lockedLiability'[a] = IF a \in DOMAIN fills THEN lockedLiability[a] + fills[a]
                              ELSE lockedLiability[a]
    BY <1>1 DEF LockLiability
  <2>. QED  BY <1>5, <1>6, <2>1, <2>2
<1>8. ASSUME NEW k \in Markets PROVE marketExposure'[a][k] = OpenLiability(a, {k})'
  <2>1. OpenLiability(a, {k})' =
            OpenLiability(a, {k}) + (IF a \in DOMAIN fills /\ m = k THEN fills[a] ELSE 0)
    BY <1>3
  <2>2. marketExposure'[a] = IF a \in DOMAIN fills
                             THEN [marketExposure[a] EXCEPT ![m] = @ + fills[a]]
                             ELSE marketExposure[a]
    BY <1>1 DEF LockLiability
  <2>3. marketExposure[a] \in [Markets -> Nat] /\ marketExposure[a][k] \in Nat
    BY <1>6
  <2>4. marketExposure'[a][k] = IF a \in DOMAIN fills /\ m = k
                                THEN marketExposure[a][k] + fills[a]
                                ELSE marketExposure[a][k]
    BY <2>2, <2>3
  <2>. QED  BY <1>5, <2>1, <2>3, <2>4
<1>. QED  BY <1>7, <1>8

\* Settling releases what the bet had booked, in total and on its market, and
\* touches no other booking.
LEMMA SettleBooked ==
    ASSUME IInv, IInv', CustodyInv, SettleStep
    PROVE  LiabilityBooked'
<1>1. PICK b \in BetIds, status \in {"Won", "Lost", "Voided"} :
          /\ bets[b].status = "Open"
          /\ bets' = [bets EXCEPT ![b] = [bets[b] EXCEPT !.status = status]]
          /\ Release(bets[b].agentId, bets[b].marketId, Liability(b))
  BY SettleWrites
<1>2. /\ bets \in [BetIds -> Bet] /\ bets[b] \in Bet
      /\ bets[b].agentId \in Agents /\ bets[b].marketId \in Markets
  BY <1>1 DEF IInv, TypeOK, BetsSound, BetSound
<1>. DEFINE ag == bets[b].agentId
            m == bets[b].marketId
            freed == Liability(b)
<1>3. /\ bets'[b].status = status
      /\ \A c \in BetIds : c # b => bets'[c] = bets[c]
  BY <1>1, <1>2 DEF Bet
<1>4. freed \in Int
  BY <1>2 DEF Liability, Bet
<1>5. \A a \in Agents, ms \in SUBSET Markets :
          OpenLiability(a, ms)' =
             OpenLiability(a, ms) - (IF a = ag /\ m \in ms THEN freed ELSE 0)
  <2>. SUFFICES ASSUME NEW a \in Agents, NEW ms \in SUBSET Markets
                PROVE  OpenLiability(a, ms)' =
                          OpenLiability(a, ms) - (IF a = ag /\ m \in ms THEN freed ELSE 0)
    OBVIOUS
  <2>1. \A c \in BetIds : c # b => Booked(a, ms, c)' = Booked(a, ms, c)
    BY <1>3 DEF Booked, Liability
  <2>2. Booked(a, ms, b) = IF a = ag /\ m \in ms THEN freed ELSE 0
    BY <1>1 DEF Booked
  <2>3. Booked(a, ms, b)' = 0
    BY <1>3 DEF Booked
  <2>4. OpenLiability(a, ms)' = OpenLiability(a, ms) - Booked(a, ms, b) + Booked(a, ms, b)'
    BY <2>1, BookedMoves
  <2>5. OpenLiability(a, ms) \in Int
    BY OpenLiabilityType
  <2>. HIDE DEF freed, ag, m
  <2>. QED  BY <1>4, <2>2, <2>3, <2>4, <2>5
<1>6. /\ lockedLiability' = [lockedLiability EXCEPT ![ag] = @ - freed]
      /\ marketExposure' = [marketExposure EXCEPT ![ag][m] = @ - freed]
  BY <1>1 DEF Release
<1>7. ag \in Agents /\ m \in Markets
  BY <1>2
<1>. HIDE DEF ag, m, freed
<1>8. SUFFICES ASSUME NEW a \in Agents
               PROVE  /\ lockedLiability'[a] = OpenLiability(a, Markets)'
                      /\ \A k \in Markets : marketExposure'[a][k] = OpenLiability(a, {k})'
  BY DEF LiabilityBooked
<1>9. /\ lockedLiability[a] = OpenLiability(a, Markets)
      /\ \A k \in Markets : marketExposure[a][k] = OpenLiability(a, {k})
  BY DEF CustodyInv, LiabilityBooked
<1>10. /\ lockedLiability \in [Agents -> Nat]
       /\ marketExposure \in [Agents -> [Markets -> Nat]]
  BY DEF IInv, TypeOK
<1>11. lockedLiability'[a] = OpenLiability(a, Markets)'
  <2>1. OpenLiability(a, Markets)' =
            OpenLiability(a, Markets) - (IF a = ag THEN freed ELSE 0)
    BY <1>5, <1>7
  <2>2. lockedLiability'[a] = IF a = ag THEN lockedLiability[a] - freed
                              ELSE lockedLiability[a]
    BY <1>6, <1>10
  <2>. QED  BY <1>4, <1>9, <1>10, <2>1, <2>2
<1>12. ASSUME NEW k \in Markets PROVE marketExposure'[a][k] = OpenLiability(a, {k})'
  <2>1. OpenLiability(a, {k})' =
            OpenLiability(a, {k}) - (IF a = ag /\ m = k THEN freed ELSE 0)
    BY <1>5
  <2>2. marketExposure[a] \in [Markets -> Nat] /\ marketExposure[a][k] \in Nat
    BY <1>10
  <2>3. marketExposure'[a] = IF a = ag THEN [marketExposure[a] EXCEPT ![m] = @ - freed]
                             ELSE marketExposure[a]
    BY <1>6, <1>10
  <2>4. marketExposure'[a][k] = IF a = ag /\ m = k THEN marketExposure[a][k] - freed
                                ELSE marketExposure[a][k]
    BY <2>2, <2>3
  <2>. QED  BY <1>4, <1>9, <2>1, <2>2, <2>4
<1>. QED  BY <1>11, <1>12

\* While no bet and no booking changes, the books still agree.
LEMMA BooksStay ==
    ASSUME CustodyInv, UNCHANGED <<bets, lockedLiability, marketExposure>>
    PROVE  LiabilityBooked'
<1>1. \A a \in Agents, ms \in SUBSET Markets : OpenLiability(a, ms)' = OpenLiability(a, ms)
  <2>. SUFFICES ASSUME NEW a \in Agents, NEW ms \in SUBSET Markets
                PROVE  OpenLiability(a, ms)' = OpenLiability(a, ms)
    OBVIOUS
  <2>1. \A c \in BetIds : Booked(a, ms, c)' = Booked(a, ms, c)
    BY DEF Booked, Liability
  <2>. QED  BY <2>1, BookedStays
<1>2. \A k \in Markets : {k} \in SUBSET Markets
  OBVIOUS
<1>. QED  BY <1>1, <1>2 DEF CustodyInv, LiabilityBooked

\* Nothing is owed and nothing is held before the first bet.
LEMMA InitCustody == Init => CustodyInv
<1>. SUFFICES ASSUME Init PROVE CustodyInv
  OBVIOUS
<1>1. \A b \in BetIds : bets[b] = NoBet /\ bets[b].status = "None" /\ claimed[b] = FALSE
  BY DEF Init, RouterInit, NoBet
<1>2. FreshBets /\ ClaimsOwed
  BY <1>1 DEF FreshBets, ClaimsOwed
<1>3. MaxBets \in Nat /\ escrow = 0
  BY RouterConstants DEF Init, RouterInit
<1>4. EscrowBacksBets
  <2>. DEFINE terms == [b \in BetIds |-> Outstanding(b)]
  <2>1. terms \in [1..MaxBets -> Int] /\ \A k \in 1..MaxBets : terms[k] = 0
    BY <1>1 DEF Outstanding, BetIds
  <2>. HIDE DEF terms
  <2>2. SumTo(terms, MaxBets) = 0
    BY <1>3, <2>1, TotalOfZeros
  <2>. QED  BY <1>3, <2>2 DEF EscrowBacksBets, terms
<1>5. ASSUME NEW a, NEW ms PROVE OpenLiability(a, ms) = 0
  <2>. DEFINE terms == [b \in BetIds |-> Booked(a, ms, b)]
  <2>1. terms \in [1..MaxBets -> Int] /\ \A k \in 1..MaxBets : terms[k] = 0
    BY <1>1 DEF Booked, BetIds
  <2>2. OpenLiability(a, ms) = SumTo(terms, MaxBets)
    BY DEF OpenLiability, Booked
  <2>. HIDE DEF terms
  <2>. QED  BY <1>3, <2>1, <2>2, TotalOfZeros
<1>6. LiabilityBooked
  <2>1. \A a \in Agents : lockedLiability[a] = 0 /\ \A k \in Markets : marketExposure[a][k] = 0
    BY DEF Init, VaultInit
  <2>. QED  BY <1>5, <2>1 DEF LiabilityBooked
<1>. QED  BY <1>2, <1>4, <1>6 DEF CustodyInv

\* Every step keeps custody and bookings right.
LEMMA StepCustody ==
    ASSUME IInv, IInv', CustodyInv, [Next]_vars
    PROVE  CustodyInv'
<1>1. CASE FanStep
  <2>1. ASSUME NEW u \in Fans, NEW m \in Markets, NEW side \in Side, NEW total \in Nat,
               NEW minPayout \in Nat, NEW ladder \in Ladders,
               PlaceBet(u, m, side, total, minPayout, ladder)
        PROVE  CustodyInv'
    BY <2>1, PlaceBetOwes, PlaceBetBooked DEF CustodyInv
  <2>2. ASSUME NEW u \in Fans, NEW b \in BetIds, Claim(u, b) PROVE CustodyInv'
    <3>1. UNCHANGED <<bets, lockedLiability, marketExposure>>
      BY <2>2 DEF Claim, vaultVars
    <3>2. LiabilityBooked'
      BY <3>1, BooksStay
    <3>. QED  BY <2>2, <3>2, ClaimOwes DEF CustodyInv
  <2>. QED  BY <1>1, <2>1, <2>2, FanCases
<1>2. CASE SettleStep
  BY <1>2, SettleOwes, SettleBooked DEF CustodyInv
<1>3. CASE ~FanStep /\ ~SettleStep
  <2>1. /\ UNCHANGED <<betCount, bets, claimed, escrow>>
        /\ UNCHANGED <<lockedLiability, marketExposure>>
    BY <1>3, BetsLeftAlone
  <2>2. LiabilityBooked'
    BY <2>1, BooksStay
  <2>3. FreshBets' /\ ClaimsOwed'
    BY <2>1 DEF CustodyInv, FreshBets, ClaimsOwed
  <2>4. EscrowBacksBets'
    <3>1. \A b \in BetIds : Outstanding(b)' = Outstanding(b)
      BY <2>1 DEF Outstanding
    <3>. QED  BY <2>1, <3>1 DEF CustodyInv, EscrowBacksBets
  <2>. QED  BY <2>2, <2>3, <2>4 DEF CustodyInv
<1>. QED  BY <1>1, <1>2, <1>3

\* Custody and bookings agree with the open bets in every reachable state.
LEMMA CustodyInvariant == Spec => []CustodyInv
<1>1. IInv /\ IInv' /\ CustodyInv /\ [Next]_vars => CustodyInv'
  BY StepCustody
<1>. QED  BY <1>1, InitCustody, Invariant, PTL DEF Spec

\* The router's money is what it owes, whatever was struck, settled and
\* collected in whatever order.
THEOREM EscrowAlwaysBacked == Spec => []EscrowBacksBets
<1>1. CustodyInv => EscrowBacksBets
  BY DEF CustodyInv
<1>. QED  BY <1>1, CustodyInvariant, PTL

\* Every vault's books are the liabilities of its open bets, so no release can
\* be refused.
THEOREM LiabilityAlwaysBooked == Spec => []LiabilityBooked
<1>1. CustodyInv => LiabilityBooked
  BY DEF CustodyInv
<1>. QED  BY <1>1, CustodyInvariant, PTL

-----------------------------------------------------------------------------
(* The contracts keep the fan's book *)

\* A bet as the book sees it.
WagerOf(b) ==
    [fan |-> bets[b].bettor, stake |-> bets[b].stake, payout |-> bets[b].payout,
     state |-> IF claimed[b] THEN "Paid" ELSE bets[b].status]

AllWagers == [b \in BetIds |-> WagerOf(b)]

\* A router just deployed is an empty book.
LEMMA InitKeepsBook == Init => Book!BookInit
<1>. SUFFICES ASSUME Init PROVE Book!BookInit
  OBVIOUS
<1>1. betCount = 0 /\ escrow = 0 /\ bets = [b \in BetIds |-> NoBet]
      /\ claimed = [b \in BetIds |-> FALSE]
  BY DEF Init, RouterInit
<1>. QED  BY <1>1 DEF Book!BookInit, Book!Wagers, BetIds, NoBet

\* What the book holds per wager, in terms of the router's state.
LEMMA BookView ==
    /\ Book!bookVars = <<betCount, AllWagers, escrow>>
    /\ Book!Wagers = BetIds
BY DEF Book!bookVars, Book!Wagers, AllWagers, WagerOf, BetIds

\* The book adds up as the router's model does: both take Totals' SumTo.
LEMMA BookSum == ASSUME NEW f, NEW n PROVE Book!SumTo(f, n) = SumTo(f, n)
BY DEF Book!SumTo, Book!RunningTotal, SumTo, RunningTotal

\* New bets of one fan that add up to what the escrow took in are a Strike.
LEMMA BookStrike ==
    ASSUME NEW u \in Fans,
           betCount' \in betCount + 1 .. MaxBets,
           escrow' = escrow + SumTo([b \in BetIds |-> IF b \in betCount + 1 .. betCount'
                                                     THEN AllWagers'[b].stake ELSE 0], MaxBets),
           \A b \in BetIds \ (betCount + 1 .. betCount') : AllWagers'[b] = AllWagers[b],
           \A b \in betCount + 1 .. betCount' :
               /\ AllWagers'[b].fan = u /\ AllWagers'[b].state = "Open"
               /\ AllWagers'[b].stake > 0 /\ AllWagers'[b].payout >= AllWagers'[b].stake
    PROVE  Book!Strike
<1>1. Book!Wagers = BetIds
  BY BookView
<1>. QED  BY <1>1, BookSum DEF Book!Strike, AllWagers, WagerOf

\* Placing a bet strikes wagers that add up to its stake.
LEMMA PlaceBetStrikes ==
    ASSUME IInv, CustodyInv, NEW u \in Fans, NEW m \in Markets, NEW side \in Side,
           NEW total \in Nat, NEW minPayout \in Nat, NEW ladder \in Ladders,
           PlaceBet(u, m, side, total, minPayout, ladder)
    PROVE  Book!Strike
<1>. DEFINE n == Len(ladder)
            stakes == Stakes(total, ladder, side)
            filled == Filled(stakes)
            fresh == betCount + 1 .. betCount'
            id == [i \in filled |-> BetIdOf(i, stakes)]
            after == [b \in BetIds |-> IF b \in fresh THEN AllWagers'[b].stake ELSE 0]
            zeros == [b \in BetIds |-> 0]
<1>1. /\ n \in Nat /\ stakes \in [1..n -> Nat] /\ SumTo(stakes, n) = total
      /\ escrow' = escrow + total /\ UNCHANGED claimed
  BY LadderType, PlacedStakes DEF PlaceBet
<1>2. BetsStruck(u, m, side, stakes, ladder)
  BY PlaceBetWrites
<1>3. ASSUME NEW i \in filled
      PROVE  /\ stakes[i] \in Nat /\ stakes[i] > 0
             /\ PayoutOf(i, stakes, ladder, side) >= stakes[i]
  BY <1>3, RungLocks DEF PlaceBet
<1>. HIDE DEF n, stakes
<1>4. betCount \in Nat /\ betCount' \in Nat /\ betCount < betCount' /\ betCount' <= MaxBets
  BY <1>2 DEF BetsStruck, IInv, TypeOK
<1>5. \A b \in fresh : b \in BetIds /\ ~claimed[b]
  <2>1. \A b \in fresh : b \in BetIds /\ b > betCount
    BY <1>4, RouterConstants DEF BetIds
  <2>2. \A b \in BetIds : b > betCount => bets[b].status = "None"
    BY DEF CustodyInv, FreshBets, NoBet
  <2>. QED  BY <2>1, <2>2 DEF CustodyInv, ClaimsOwed
<1>6. ASSUME NEW b \in fresh
      PROVE  \E i \in filled : /\ BetIdOf(i, stakes) = b
                               /\ AllWagers'[b] = [fan |-> u, stake |-> stakes[i],
                                     payout |-> PayoutOf(i, stakes, ladder, side),
                                     state |-> "Open"]
  <2>1. PICK i \in filled : BetIdOf(i, stakes) = b
    BY <1>2 DEF BetsStruck
  <2>2. bets'[b] = NewBet(u, m, side, i, stakes, ladder)
    BY <1>2, <2>1 DEF BetsStruck
  <2>3. /\ bets'[b].bettor = u /\ bets'[b].stake = stakes[i] /\ bets'[b].status = "Open"
        /\ bets'[b].payout = PayoutOf(i, stakes, ladder, side)
    BY <2>2 DEF NewBet
  <2>4. claimed'[b] = FALSE
    BY <1>1, <1>5 DEF IInv, TypeOK
  <2>5. AllWagers'[b] = [fan |-> u, stake |-> stakes[i],
                         payout |-> PayoutOf(i, stakes, ladder, side), state |-> "Open"]
    BY <1>5, <2>3, <2>4 DEF AllWagers, WagerOf
  <2>. QED  BY <2>1, <2>5
<1>7. ASSUME NEW b \in BetIds, b \notin fresh PROVE AllWagers'[b] = AllWagers[b]
  <2>1. bets'[b] = bets[b] /\ claimed'[b] = claimed[b]
    BY <1>1, <1>2, <1>7 DEF BetsStruck
  <2>. QED  BY <2>1 DEF AllWagers, WagerOf
<1>8. ASSUME NEW b \in fresh
      PROVE  /\ AllWagers'[b].fan = u /\ AllWagers'[b].state = "Open"
             /\ AllWagers'[b].stake \in Nat /\ AllWagers'[b].stake > 0
             /\ AllWagers'[b].payout >= AllWagers'[b].stake
  <2>1. PICK i \in filled :
            AllWagers'[b] = [fan |-> u, stake |-> stakes[i],
                             payout |-> PayoutOf(i, stakes, ladder, side), state |-> "Open"]
    BY <1>6
  <2>2. /\ AllWagers'[b].fan = u /\ AllWagers'[b].state = "Open"
        /\ AllWagers'[b].stake = stakes[i]
        /\ AllWagers'[b].payout = PayoutOf(i, stakes, ladder, side)
    BY <2>1
  <2>. QED  BY <1>3, <2>2
<1>9. ASSUME NEW i \in filled
      PROVE  BetIdOf(i, stakes) \in fresh /\ AllWagers'[BetIdOf(i, stakes)].stake = stakes[i]
  <2>1. BetIdOf(i, stakes) \in fresh
    BY <1>2 DEF BetsStruck
  <2>2. \A j \in filled : BetIdOf(j, stakes) = BetIdOf(i, stakes) => j = i
    BY <1>2 DEF BetsStruck
  <2>3. PICK j \in filled :
            /\ BetIdOf(j, stakes) = BetIdOf(i, stakes)
            /\ AllWagers'[BetIdOf(i, stakes)] =
                  [fan |-> u, stake |-> stakes[j],
                   payout |-> PayoutOf(j, stakes, ladder, side), state |-> "Open"]
    BY <1>6, <2>1
  <2>4. j = i
    BY <2>2, <2>3
  <2>. QED  BY <2>1, <2>3, <2>4
<1>10. SumTo(after, MaxBets) = total
  <2>1. /\ after \in [1..MaxBets -> Int] /\ zeros \in [1..MaxBets -> Int]
        /\ \A k \in 1..MaxBets : zeros[k] = 0
    BY <1>8 DEF BetIds
  <2>2. filled \in SUBSET (1..n) /\ \A i \in (1..n) \ filled : stakes[i] = 0
    BY <1>1 DEF Filled
  <2>3. id \in [filled -> 1..MaxBets]
    BY <1>5, <1>9 DEF BetIds
  <2>4. ASSUME NEW i \in filled PROVE after[id[i]] = zeros[id[i]] + stakes[i]
    <3>1. BetIdOf(i, stakes) \in BetIds /\ BetIdOf(i, stakes) \in fresh
          /\ AllWagers'[BetIdOf(i, stakes)].stake = stakes[i]
      BY <1>5, <1>9
    <3>2. stakes[i] \in Nat
      BY <1>3
    <3>3. id[i] = BetIdOf(i, stakes)
      OBVIOUS
    <3>4. after[id[i]] = stakes[i] /\ zeros[id[i]] = 0
      BY <3>1, <3>3
    <3>. HIDE DEF after, zeros, id
    <3>. QED  BY <3>2, <3>4
  <2>5. ASSUME NEW b \in 1..MaxBets, \A i \in filled : id[i] # b
        PROVE  after[b] = zeros[b]
    <3>1. b \in BetIds
      BY DEF BetIds
    <3>2. b \notin fresh
      BY <1>2, <2>5 DEF BetsStruck
    <3>. QED  BY <3>1, <3>2
  <2>6. \A i, j \in filled : id[i] = id[j] => i = j
    BY <1>2 DEF BetsStruck
  <2>. HIDE DEF after, zeros, id, filled
  <2>7. TermsAdded(zeros, MaxBets, stakes, n, after, filled, id)
    BY <2>2, <2>4, <2>5, <2>6 DEF TermsAdded
  <2>8. MaxBets \in Nat /\ stakes \in [1..n -> Int] /\ n \in Nat
    BY <1>1, RouterConstants
  <2>9. SumTo(after, MaxBets) = SumTo(zeros, MaxBets) + SumTo(stakes, n)
    BY <2>1, <2>2, <2>3, <2>7, <2>8, TotalGrows, ZenonT(30)
  <2>10. SumTo(zeros, MaxBets) = 0 /\ SumTo(stakes, n) \in Nat
    BY <1>1, <2>1, <2>8, TotalOfZeros, TotalOfAmounts
  <2>. QED  BY <1>1, <2>9, <2>10
<1>11. betCount' \in betCount + 1 .. MaxBets
  BY <1>4, RouterConstants
<1>12. escrow' = escrow + SumTo([b \in BetIds |-> IF b \in betCount + 1 .. betCount'
                                                  THEN AllWagers'[b].stake ELSE 0], MaxBets)
  BY <1>1, <1>10
<1>. HIDE DEF filled, after, zeros, id
<1>13. \A b \in BetIds \ (betCount + 1 .. betCount') : AllWagers'[b] = AllWagers[b]
  BY <1>7
<1>14. \A b \in betCount + 1 .. betCount' :
          /\ AllWagers'[b].fan = u /\ AllWagers'[b].state = "Open"
          /\ AllWagers'[b].stake > 0 /\ AllWagers'[b].payout >= AllWagers'[b].stake
  BY <1>8
<1>. HIDE DEF fresh
<1>. QED  BY <1>11, <1>12, <1>13, <1>14, BookStrike

\* Settling ends one wager, and moves custody by what its end is worth.
LEMMA SettleEnds ==
    ASSUME IInv, CustodyInv, SettleStep
    PROVE  \E b \in BetIds, status \in {"Won", "Lost", "Voided"} : Book!End(b, status)
<1>1. PICK b \in BetIds, status \in {"Won", "Lost", "Voided"} :
          /\ bets[b].status = "Open"
          /\ bets' = [bets EXCEPT ![b] = [bets[b] EXCEPT !.status = status]]
          /\ escrow' = CASE status = "Won" -> escrow + Liability(b)
                         [] status = "Lost" -> escrow - bets[b].stake
                         [] status = "Voided" -> escrow
          /\ UNCHANGED <<betCount, claimed>>
  BY SettleWrites
<1>2. bets \in [BetIds -> Bet] /\ bets[b] \in Bet /\ escrow \in Nat
      /\ bets[b].stake \in Nat /\ bets[b].payout \in Nat
  BY DEF IInv, TypeOK, Bet
<1>3. claimed[b] = FALSE /\ claimed'[b] = FALSE
  BY <1>1 DEF CustodyInv, ClaimsOwed, IInv, TypeOK
<1>4. AllWagers[b].state = "Open" /\ AllWagers[b].stake = bets[b].stake
      /\ AllWagers[b].payout = bets[b].payout
  BY <1>1, <1>3 DEF AllWagers, WagerOf
<1>5. WagerOf(b)' = [WagerOf(b) EXCEPT !.state = status]
  <2>1. /\ bets'[b].bettor = bets[b].bettor /\ bets'[b].stake = bets[b].stake
        /\ bets'[b].payout = bets[b].payout /\ bets'[b].status = status
    BY <1>1, <1>2 DEF Bet
  <2>. QED  BY <1>3, <2>1 DEF WagerOf
<1>6. \A c \in BetIds : c # b => WagerOf(c)' = WagerOf(c)
  BY <1>1, <1>2 DEF WagerOf
<1>7. AllWagers' = [AllWagers EXCEPT ![b].state = status]
  BY <1>5, <1>6 DEF AllWagers
<1>8. Book!Due(AllWagers[b]) = bets[b].stake
  BY <1>4 DEF Book!Due
<1>9. Book!Due(AllWagers'[b]) = CASE status = "Won" -> bets[b].payout
                                  [] status = "Lost" -> 0
                                  [] status = "Voided" -> bets[b].stake
  <2>1. AllWagers'[b] = [WagerOf(b) EXCEPT !.state = status]
    BY <1>5 DEF AllWagers
  <2>2. /\ AllWagers'[b].state = status /\ AllWagers'[b].stake = bets[b].stake
        /\ AllWagers'[b].payout = bets[b].payout
    BY <2>1 DEF WagerOf
  <2>. QED  BY <2>2 DEF Book!Due
<1>10. escrow' = escrow - Book!Due(AllWagers[b]) + Book!Due(AllWagers'[b])
  <2>1. CASE status = "Won"
    BY <1>1, <1>2, <1>8, <1>9, <2>1 DEF Liability
  <2>2. CASE status = "Lost"
    BY <1>1, <1>2, <1>8, <1>9, <2>2
  <2>3. CASE status = "Voided"
    BY <1>1, <1>2, <1>8, <1>9, <2>3
  <2>. QED  BY <2>1, <2>2, <2>3
<1>11. Book!End(b, status)
  BY <1>1, <1>4, <1>7, <1>10 DEF Book!End, AllWagers, WagerOf
<1>. QED  BY <1>11

\* Claiming collects one wager.
LEMMA ClaimCollects ==
    ASSUME IInv, CustodyInv, NEW u \in Fans, NEW b \in BetIds, Claim(u, b)
    PROVE  Book!Collect(b)
<1>1. /\ claimed[b] = FALSE /\ Owed(bets[b]) > 0 /\ escrow' = escrow - Owed(bets[b])
      /\ claimed' = [claimed EXCEPT ![b] = TRUE] /\ UNCHANGED <<betCount, bets>>
  BY DEF Claim, IInv, TypeOK
<1>2. claimed'[b] = TRUE /\ \A c \in BetIds : c # b => claimed'[c] = claimed[c]
  BY <1>1 DEF IInv, TypeOK
<1>3. bets[b].status \in {"Won", "Voided"}
  BY <1>1 DEF Owed
<1>4. WagerOf(b)' = [WagerOf(b) EXCEPT !.state = "Paid"]
  BY <1>1, <1>2 DEF WagerOf
<1>5. \A c \in BetIds : c # b => WagerOf(c)' = WagerOf(c)
  BY <1>1, <1>2 DEF WagerOf
<1>6. AllWagers' = [AllWagers EXCEPT ![b].state = "Paid"]
  BY <1>4, <1>5 DEF AllWagers
<1>7. /\ AllWagers[b].state = bets[b].status /\ AllWagers[b].stake = bets[b].stake
      /\ AllWagers[b].payout = bets[b].payout
  BY <1>1 DEF AllWagers, WagerOf
<1>8. Book!Due(AllWagers[b]) = Owed(bets[b])
  BY <1>3, <1>7 DEF Book!Due, Owed
<1>. QED  BY <1>1, <1>3, <1>6, <1>7, <1>8 DEF Book!Collect, AllWagers, WagerOf

\* Every step of the contracts is a step of the book, or none.
LEMMA StepKeepsBook ==
    ASSUME IInv, CustodyInv, [Next]_vars
    PROVE  [Book!BookNext]_(Book!bookVars)
<1>1. CASE FanStep
  <2>1. ASSUME NEW u \in Fans, NEW m \in Markets, NEW side \in Side, NEW total \in Nat,
               NEW minPayout \in Nat, NEW ladder \in Ladders,
               PlaceBet(u, m, side, total, minPayout, ladder)
        PROVE  Book!BookNext
    BY <2>1, PlaceBetStrikes DEF Book!BookNext
  <2>2. ASSUME NEW u \in Fans, NEW b \in BetIds, Claim(u, b) PROVE Book!BookNext
    BY <2>2, ClaimCollects, BookView DEF Book!BookNext
  <2>. QED  BY <1>1, <2>1, <2>2, FanCases
<1>2. CASE SettleStep
  <2>1. PICK b \in BetIds, status \in {"Won", "Lost", "Voided"} : Book!End(b, status)
    BY <1>2, SettleEnds
  <2>. QED  BY <2>1, BookView DEF Book!BookNext
<1>3. CASE ~FanStep /\ ~SettleStep
  <2>1. UNCHANGED <<betCount, bets, claimed, escrow>>
    BY <1>3, BetsLeftAlone
  <2>2. UNCHANGED Book!bookVars
    BY <2>1 DEF Book!bookVars
  <2>. QED  BY <2>2
<1>. QED  BY <1>1, <1>2, <1>3

\* The contracts implement the fan's book: over any run, terms are fixed when a
\* bet is struck, each bet ends once and is collected once, and custody moves by
\* exactly what that changes.
THEOREM FansBookKept == Spec => KeepsBook
<1>1. IInv /\ CustodyInv /\ [Next]_vars => [Book!BookNext]_(Book!bookVars)
  BY StepKeepsBook
<1>. QED  BY <1>1, InitKeepsBook, Invariant, CustodyInvariant, PTL
          DEF Spec, KeepsBook, Book!BookSpec

-----------------------------------------------------------------------------
(* The screens.  Whoever moves money by a screen or a command takes the    *)
(* contracts' own steps, and payments into a vault are no bet of anyone.   *)

\* What the screens' steps keep: the contracts' invariant, and a clock that
\* never falls back.
ScreensInv == IInv /\ now >= StartTime

\* The transactions that have rows are the contracts' steps, but for what is
\* paid into a vault.
LEMMA IndexedIsBetting ==
    ASSUME TypeOK, IndexedNext, ~PaidInStep
    PROVE  Next
<1>1. CASE SchedulerIndexed
  BY <1>1, Zenon DEF SchedulerIndexed, MarketFrame, SchedulerStep, Next
<1>2. CASE SettlerIndexed
  BY <1>2, Zenon DEF SettlerIndexed, MarketFrame, SettlerStep, Next
<1>3. CASE BackerIndexed
  BY <1>3, ZenonT(40) DEF BackerIndexed, BackerFrame, BackerStep, Next
<1>4. CASE FanIndexed
  BY <1>4, Zenon DEF FanIndexed, FanFrame, FanStep, Next
<1>5. CASE SettleIndexed
  BY <1>5, Zenon DEF SettleIndexed, FanFrame, SettleStep, Next
<1>6. CASE HarvestIndexed
  BY <1>6, Zenon DEF HarvestIndexed, HarvestStep, Next
<1>7. CASE RegistryIndexed
  <2>1. ASSUME NEW u \in Users, NEW s \in Signers, Register(u, s),
               UNCHANGED <<now, balanceOf, marketVars, totalAssets, lockedLiability,
                           marketExposure, totalSupply, shares, highWaterMark,
                           lastDepositAt, routerVars>>
        PROVE  Next
    BY <2>1 DEF OperatorStep, Next
  <2>2. ASSUME NEW a \in Agents, NEW u \in Users \cup {Owner}, NEW s \in Signers,
               SetQuoteSigner(a, u, s), KeyFrame
        PROVE  Next
    <3>1. u \in Users
      BY <2>2 DEF SetQuoteSigner, Exists, TypeOK, Agent
    <3>. QED  BY <2>2, <3>1 DEF KeyFrame, OperatorStep, vaultVars, Next
  <2>3. ASSUME NEW a \in Agents, NEW u \in Users \cup {Owner}, NEW enabled \in BOOLEAN,
               SetEnabled(a, u, enabled), KeyFrame
        PROVE  Next
    <3>1. u \in Users \/ u = Owner
      OBVIOUS
    <3>2. CASE u = Owner
      BY <2>3, <3>2 DEF KeyFrame, AdminStep, Next
    <3>3. CASE u \in Users
      BY <2>3, <3>3 DEF KeyFrame, OperatorStep, vaultVars, Next
    <3>. QED  BY <3>1, <3>2, <3>3
  <2>. QED  BY <1>7, <2>1, <2>2, <2>3 DEF RegistryIndexed
<1>8. CASE QuietStep
  BY <1>8 DEF QuietStep, KeyFrame, MarketFrame, AdminStep, SchedulerStep, Next
<1>9. CASE TickIndexed
  BY <1>9 DEF TickIndexed, Next
<1>. QED  BY <1>1, <1>2, <1>3, <1>4, <1>5, <1>6, <1>7, <1>8, <1>9 DEF IndexedNext

\* A vault changed as a backer may change it leaves the rest of the invariant.
LEMMA BackerFrameInv ==
    ASSUME IInv, BackerFrame, VaultTypeOK', balanceOf' \in [Users -> Nat], VaultInv'
    PROVE  IInv'
<1>1. BetsSound'
  BY DEF IInv, BetsSound, BackerFrame, routerVars
<1>. QED  BY <1>1 DEF IInv, TypeOK, BackerFrame, marketVars, registryVars, routerVars

\* Taking everything out leaves a vault sound.
LEMMA AllTakenOutInv ==
    ASSUME IInv, NEW a \in Agents, NEW u \in Users,
           SheetWithdraw(a, u) \/ WithdrawCommandAll(a, u)
    PROVE  VaultTypeOK' /\ balanceOf' \in [Users -> Nat] /\ VaultInv'
<1>. DEFINE pool == totalAssets[a]
            supply == totalSupply[a]
            worth == MaxWithdraw(a, u)
            most == MaxRedeem(a, u)
<1>1. /\ pool \in Nat /\ supply \in Nat /\ shares[a][u] \in Nat
      /\ FreeCapital(a) \in Nat
  BY FreeCapitalValue DEF IInv, TypeOK
<1>2. worth \in Nat /\ most \in Nat
  <2>1. AssetsFor(shares[a][u], supply, pool) \in Nat /\ SharesFor(FreeCapital(a), supply, pool) \in Nat
    BY <1>1, ConversionType
  <2>. QED  BY <1>1, <2>1 DEF MaxWithdraw, MaxRedeem, Lesser
<1>3. CASE SheetWithdraw(a, u)
  <2>1. Leave(a, u, worth, SharesForUp(worth, supply, pool))
    BY <1>3 DEF SheetWithdraw, WithdrawAssets, Withdraw, Position
  <2>2. SharesForUp(worth, supply, pool) \in Nat /\ worth <= FreeCapital(a)
    BY <1>1, <1>2, ConversionType, ExitWithinFreeCapital
  <2>. HIDE DEF worth
  <2>. QED  BY <1>2, <2>1, <2>2, LeaveInv
<1>4. CASE WithdrawCommandAll(a, u)
  <2>1. Leave(a, u, AssetsFor(most, supply, pool), most)
    BY <1>4 DEF WithdrawCommandAll, RedeemAll, Redeem, Position
  <2>2. AssetsFor(most, supply, pool) \in Nat /\ AssetsFor(most, supply, pool) <= FreeCapital(a)
    BY <1>1, <1>2, ConversionType, ExitWithinFreeCapital
  <2>. HIDE DEF most
  <2>. QED  BY <1>2, <2>1, <2>2, LeaveInv
<1>. QED  BY <1>3, <1>4

\* Each step keeps the invariant.
LEMMA ScreensStepInv ==
    ASSUME ScreensInv, [ScreensNext]_allVars
    PROVE  ScreensInv'
<1>1. IInv /\ now >= StartTime /\ now \in Nat /\ StartTime \in Nat
  BY ChainConstants DEF ScreensInv, IInv, TypeOK
<1>2. /\ \A u \in Backers : u \in Users
      /\ \A x \in DepositAmounts \cup HoldFees : x \in Nat
  BY BettingConstants, HoldFeesAssumption
<1>3. CASE Next
  <2>1. IInv'
    BY <1>1, <1>3, StepInv
  <2>2. CASE Tick
    BY <1>1, <2>1, <2>2 DEF Tick, TickBlock, ScreensInv
  <2>3. CASE ~Tick
    <3>1. now' = now
      BY <1>3, <2>3, Zenon DEF Next, AdminStep, OperatorStep, SchedulerStep, SettlerStep,
                               BackerStep, FanStep, SettleStep, HarvestStep
    <3>. QED  BY <1>1, <2>1, <3>1 DEF ScreensInv
  <2>. QED  BY <2>2, <2>3
<1>4. CASE PaidInStep
  <2>1. PICK a \in Agents, u \in Backers, x \in Nat : Donate(a, u, x) /\ BackerFrame
    BY <1>2, <1>4 DEF PaidInStep, HoldFeePaid, GiftPaid
  <2>2. VaultTypeOK' /\ balanceOf' \in [Users -> Nat] /\ VaultInv'
    BY <1>1, <1>2, <2>1, DonateInv
  <2>3. now' = now
    BY <2>1 DEF BackerFrame
  <2>. QED  BY <1>1, <2>1, <2>2, <2>3, BackerFrameInv DEF ScreensInv
<1>5. CASE AmountStep
  <2>1. BackerStep
    BY <1>5, Zenon DEF AmountStep, SheetDeposit, Back, WithdrawCommand, WithdrawAssets,
                       BackerFrame, BackerStep
  <2>. QED  BY <1>3, <2>1 DEF Next
<1>6. CASE AllStep
  <2>1. PICK a \in Agents, u \in Backers :
            (SheetWithdraw(a, u) \/ WithdrawCommandAll(a, u)) /\ BackerFrame
    BY <1>6 DEF AllStep
  <2>2. VaultTypeOK' /\ balanceOf' \in [Users -> Nat] /\ VaultInv'
    BY <1>1, <1>2, <2>1, AllTakenOutInv
  <2>3. now' = now
    BY <2>1 DEF BackerFrame
  <2>. QED  BY <1>1, <2>1, <2>2, <2>3, BackerFrameInv DEF ScreensInv
<1>7. CASE HarvestFees
  <2>1. HarvestStep
    BY <1>7, Zenon DEF HarvestFees, HarvestStep
  <2>. QED  BY <1>3, <2>1 DEF Next
<1>8. CASE UNCHANGED allVars
  <2>1. UNCHANGED vars
    BY <1>8 DEF allVars
  <2>2. now' = now
    BY <2>1 DEF vars
  <2>. QED  BY <1>1, <2>1, <2>2, StepInv DEF ScreensInv
<1>9. IndexedNext /\ ~PaidInStep => Next
  BY <1>1, IndexedIsBetting DEF IInv
<1>. QED  BY <1>3, <1>4, <1>5, <1>6, <1>7, <1>8, <1>9 DEF ScreensNext

\* Whatever is moved by a screen or a command, the invariant stays.
LEMMA ScreensInvariant == ScreensSpec => []ScreensInv
<1>1. Init => ScreensInv
  BY InitInv, ChainConstants DEF ScreensInv, Init
<1>. QED  BY <1>1, ScreensStepInv, PTL DEF ScreensSpec

-----------------------------------------------------------------------------
(* Taking all out.  With Q the pool's assets and one, T the shares that    *)
(* conversions divide by, s of them held: what is left is rounded down.    *)

\* Asking for all s are worth, W, burns b shares, rounded up: what the rest
\* are worth rounds down to nothing.
LEMMA NothingLeft ==
    ASSUME NEW Q \in Nat \ {0}, NEW T \in Nat \ {0}, NEW s \in Nat, NEW W \in Nat, NEW b \in Nat,
           W < Q, b <= s, s < T,
           W * T <= s * Q, s * Q < (W + 1) * T,
           W * T <= b * Q, b * Q < W * T + Q
    PROVE  (s - b) * (Q - W) < T - b
<1>. DEFINE c == s - b
            d == T - b
            X == Q - W
            R == s * Q - W * T
            E == b * Q - W * T
<1>1. c \in Nat /\ d \in Nat \ {0} /\ X \in Nat \ {0}
  OBVIOUS
<1>2. R \in Nat /\ E \in Nat /\ R <= T - 1
  <2>1. s * Q \in Nat /\ W * T \in Nat /\ b * Q \in Nat /\ (W + 1) * T = W * T + T
    OBVIOUS
  <2>. QED  BY <2>1
<1>3. c * Q = R - E
  OBVIOUS
<1>4. d * Q = T * X - E
  OBVIOUS
<1>. HIDE DEF c, d, X, R, E
<1>. SUFFICES ASSUME d <= c * X PROVE FALSE
  <2>1. c * X \in Nat
    BY <1>1
  <2>. QED  BY <1>1, <2>1 DEF c, d, X
<1>5. d * Q <= (c * X) * Q
  BY <1>1, MulMono
<1>6. (c * X) * Q = X * (R - E)
  BY <1>1, <1>2, <1>3
<1>7. X * (R - E) <= X * (T - 1 - E)
  BY <1>1, <1>2
<1>8. X * (T - 1 - E) = T * X - X - X * E
  BY <1>1, <1>2
<1>9. E <= X * E
  BY <1>1, <1>2
<1>10. T * X \in Nat /\ X * E \in Nat
  BY <1>1, <1>2
<1>. QED  BY <1>1, <1>2, <1>4, <1>5, <1>6, <1>7, <1>8, <1>9, <1>10

\* Redeeming n of the s shares, as many as the assets stand for, pays P: what
\* the rest are worth is less than two base units.
LEMMA OneUnitLeft ==
    ASSUME NEW Q \in Nat \ {0}, NEW T \in Nat \ {0}, NEW s \in Nat, NEW n \in Nat, NEW P \in Nat,
           P < Q, n <= s, s < T,
           P * T <= n * Q, n * Q < (P + 1) * T,
           n * Q <= (Q - 1) * T, (Q - 1) * T < (n + 1) * Q
    PROVE  (s - n) * (Q - P) < 2 * (T - n)
<1>. DEFINE c == s - n
            d == T - n
            X == Q - P
            f == (Q - 1) * T - n * Q
            r == n * Q - P * T
<1>1. c \in Nat /\ d \in Nat \ {0} /\ X \in Nat \ {0}
  OBVIOUS
<1>2. f \in Nat /\ r \in Nat /\ f < Q /\ r < T
  <2>1. /\ n * Q \in Nat /\ P * T \in Nat /\ (Q - 1) * T \in Nat
        /\ (n + 1) * Q = n * Q + Q /\ (P + 1) * T = P * T + T
    OBVIOUS
  <2>. QED  BY <2>1
<1>3. c * Q <= T - 1
  <2>1. s * Q <= (T - 1) * Q
    BY MulMono
  <2>2. c * Q = s * Q - n * Q /\ (T - 1) * Q = T * Q - Q /\ (Q - 1) * T = T * Q - T
    OBVIOUS
  <2>3. s * Q \in Nat /\ n * Q \in Nat /\ T * Q \in Nat /\ c * Q \in Nat /\ (Q - 1) * T \in Nat
    BY <1>1
  <2>4. n * Q = T * Q - T - f
    BY <2>2, <2>3
  <2>. HIDE DEF c, f
  <2>. QED  BY <1>2, <2>1, <2>2, <2>3, <2>4
<1>4. d * Q = T + f
  OBVIOUS
<1>5. T * X = T + f + r
  OBVIOUS
<1>. HIDE DEF c, d, X, f, r
<1>. SUFFICES ASSUME 2 * d <= c * X PROVE FALSE
  <2>1. c * X \in Nat
    BY <1>1
  <2>. QED  BY <1>1, <2>1 DEF c, d, X
<1>6. (2 * d) * Q <= (c * X) * Q
  BY <1>1, MulMono
<1>7. (2 * d) * Q = 2 * (T + f)
  BY <1>1, <1>2, <1>4
<1>8. (c * X) * Q = (c * Q) * X
  BY <1>1
<1>9. (c * Q) * X <= (T - 1) * X
  <2>1. c * Q \in Nat
    BY <1>1
  <2>. QED  BY <1>1, <1>3, <2>1, MulMono
<1>10. (T - 1) * X = T * X - X
  BY <1>1
<1>. QED  BY <1>1, <1>2, <1>5, <1>6, <1>7, <1>8, <1>9, <1>10

\* What rounding down makes of less than k times the divisor.
LEMMA MulDivBelow ==
    ASSUME NEW x \in Nat, NEW y \in Nat, NEW d \in Nat \ {0}, NEW k \in Nat, x * y < k * d
    PROVE  MulDiv(x, y, d) < k
<1>. DEFINE q == MulDiv(x, y, d)
<1>1. q \in Nat /\ q * d <= x * y
  BY MulDivBounds
<1>. HIDE DEF q
<1>. SUFFICES ASSUME k <= q PROVE FALSE
  BY <1>1 DEF q
<1>2. k * d <= q * d /\ k * d \in Nat /\ q * d \in Nat
  BY <1>1, MulMono
<1>3. x * y \in Nat
  OBVIOUS
<1>. QED  BY <1>1, <1>2, <1>3

\* Rounding up adds less than the divisor.
LEMMA MulDivUpAdds ==
    ASSUME NEW x \in Nat, NEW y \in Nat, NEW d \in Nat \ {0}
    PROVE  MulDivUp(x, y, d) * d < x * y + d
<1>. DEFINE a == x * y
            q == Quotient(a + d - 1, d)
<1>1. a \in Nat
  OBVIOUS
<1>2. MulDivUp(x, y, d) = q
  BY DEF MulDivUp, Quotient
<1>. HIDE DEF a
<1>3. q \in Nat /\ q * d <= a + d - 1
  BY <1>1, a + d - 1 \in Nat, QuotientBounds
<1>. HIDE DEF q
<1>4. q * d \in Nat
  BY <1>3
<1>5. q * d < a + d
  BY <1>1, <1>3, <1>4
<1>. QED  BY <1>2, <1>5 DEF a

\* A backer's part of a vault, in the terms of the conversions.
LEMMA PoolOfBacker ==
    ASSUME IInv, NEW a \in Agents, NEW u \in Users
    PROVE  /\ totalAssets[a] \in Nat /\ totalAssets[a] + 1 \in Nat \ {0}
           /\ totalSupply[a] \in Nat /\ totalSupply[a] + VirtualShares \in Nat \ {0}
           /\ shares[a][u] \in Nat /\ shares[a][u] < totalSupply[a] + VirtualShares
           /\ Worth(a, u) \in Nat /\ Worth(a, u) <= totalAssets[a]
           /\ lockedLiability[a] = 0 => FreeCapital(a) = totalAssets[a]
<1>1. shares[a][u] \in Nat /\ shares[a][u] <= totalSupply[a] /\ lockedLiability[a] \in Nat
  BY HoldingOfSupply DEF IInv, TypeOK, VaultInv
<1>2. VirtualShares \in Nat \ {0}
  BY VaultConstants
<1>3. shares[a][u] < totalSupply[a] + VirtualShares
  BY <1>1, <1>2, PoolType
<1>. DEFINE Q == totalAssets[a] + 1
            T == totalSupply[a] + VirtualShares
            s == shares[a][u]
<1>4. Q \in Nat \ {0} /\ T \in Nat \ {0} /\ s \in Nat /\ s < T
  BY <1>1, <1>3, PoolType
<1>5. Worth(a, u) = MulDiv(s, Q, T)
  BY DEF Worth, AssetsFor
<1>6. MulDiv(s, Q, T) \in Nat /\ MulDiv(s, Q, T) < Q
  <2>. HIDE DEF Q, T, s
  <2>1. s * Q < Q * T
    <3>1. s * Q + Q <= T * Q
      <4>1. (s + 1) * Q <= T * Q
        BY <1>4, MulMono
      <4>2. (s + 1) * Q = s * Q + Q
        BY <1>4
      <4>. QED  BY <4>1, <4>2
    <3>2. s * Q \in Nat /\ T * Q \in Nat /\ T * Q = Q * T
      BY <1>4
    <3>. QED  BY <1>4, <3>1, <3>2
  <2>. QED  BY <1>4, <2>1, MulDivBounds, MulDivBelow
<1>7. Worth(a, u) \in Nat /\ Worth(a, u) <= totalAssets[a]
  BY <1>5, <1>6, PoolType
<1>. QED  BY <1>1, <1>3, <1>7, PoolType, FreeCapitalValue

\* "Withdraw all" on the sheet of a vault that lends nothing.
LEMMA SheetTakesAll ==
    ASSUME IInv, NEW a \in Agents, NEW u \in Users, lockedLiability[a] = 0, SheetWithdraw(a, u)
    PROVE  ~(Worth(a, u)' > 0)
<1>. DEFINE A == totalAssets[a]
            S == totalSupply[a]
            s == shares[a][u]
            W == Worth(a, u)
            b == SharesForUp(W, S, A)
            Q == A + 1
            T == S + VirtualShares
<1>1. /\ A \in Nat /\ S \in Nat /\ s \in Nat /\ W \in Nat /\ W <= A
      /\ Q \in Nat \ {0} /\ T \in Nat \ {0} /\ s < T /\ FreeCapital(a) = A
  BY PoolOfBacker
<1>2. MaxWithdraw(a, u) = W
  <2>1. MaxWithdraw(a, u) > 0
    BY <1>1 DEF SheetWithdraw, Position
  <2>2. MaxWithdraw(a, u) = Lesser(W, FreeCapital(a))
    BY <2>1 DEF MaxWithdraw, Worth
  <2>. HIDE DEF W
  <2>. QED  BY <1>1, <2>2 DEF Lesser
<1>3. Leave(a, u, W, b)
  BY <1>2 DEF SheetWithdraw, WithdrawAssets, Withdraw, Position
<1>4. /\ totalAssets'[a] = A - W /\ totalSupply'[a] = S - b /\ shares'[a][u] = s - b
      /\ b <= s
  <2>1. b \in Nat
    BY <1>1, ConversionType
  <2>. HIDE DEF W, b
  <2>. QED  BY <1>1, <1>3, <2>1 DEF Leave, IInv, TypeOK
<1>5. /\ W * T <= s * Q /\ s * Q < (W + 1) * T
  <2>1. W = MulDiv(s, Q, T)
    BY DEF Worth, AssetsFor
  <2>. HIDE DEF W, s, Q, T
  <2>. QED  BY <1>1, <2>1, MulDivBounds
<1>6. /\ b \in Nat /\ W * T <= b * Q /\ b * Q < W * T + Q
  <2>1. b = MulDivUp(W, T, Q)
    BY DEF SharesForUp
  <2>. HIDE DEF W, Q, T, b
  <2>. QED  BY <1>1, <2>1, MulDivUpBounds, MulDivUpAdds
<1>7. (s - b) * (Q - W) < T - b
  <2>1. W < Q
    BY <1>1
  <2>. HIDE DEF W, Q, T, b, s
  <2>. QED  BY <1>1, <1>4, <1>5, <1>6, <2>1, NothingLeft
<1>8. Worth(a, u)' = MulDiv(s - b, Q - W, T - b)
  <2>1. Worth(a, u)' = MulDiv(shares'[a][u], totalAssets'[a] + 1, totalSupply'[a] + VirtualShares)
    BY DEF Worth, AssetsFor
  <2>2. totalAssets'[a] + 1 = Q - W /\ totalSupply'[a] + VirtualShares = T - b
    BY <1>1, <1>4, <1>6, VaultConstants
  <2>. QED  BY <1>4, <2>1, <2>2
<1>. HIDE DEF A, S, s, W, b, Q, T
<1>9. /\ s - b \in Nat /\ Q - W \in Nat /\ T - b \in Nat \ {0}
  BY <1>1, <1>4, <1>6 DEF Q
<1>10. MulDiv(s - b, Q - W, T - b) < 1
  BY <1>7, <1>9, MulDivBelow
<1>11. MulDiv(s - b, Q - W, T - b) \in Nat
  BY <1>9, MulDivBounds
<1>. QED  BY <1>8, <1>10, <1>11

\* Redeeming as many shares as the command may of a vault that lends nothing.
LEMMA CommandTakesAll ==
    ASSUME IInv, NEW a \in Agents, NEW u \in Users, lockedLiability[a] = 0,
           WithdrawCommandAll(a, u)
    PROVE  ~(Worth(a, u)' > 1)
<1>. DEFINE A == totalAssets[a]
            S == totalSupply[a]
            s == shares[a][u]
            Q == A + 1
            T == S + VirtualShares
            most == MulDiv(A, T, Q)
            n == MaxRedeem(a, u)
            P == MulDiv(n, Q, T)
<1>1. /\ A \in Nat /\ S \in Nat /\ s \in Nat
      /\ Q \in Nat \ {0} /\ T \in Nat \ {0} /\ s < T /\ FreeCapital(a) = A
  BY PoolOfBacker
<1>2. most \in Nat /\ most * Q <= A * T /\ A * T < (most + 1) * Q
  <2>. HIDE DEF A, Q, T
  <2>1. most \in Nat /\ most * Q <= A * T /\ A * T < (most + 1) * Q
    BY <1>1, MulDivBounds
  <2>. QED  BY <2>1
<1>3. n = Lesser(s, most)
  <2>1. MaxWithdraw(a, u) > 0
    BY DEF WithdrawCommandAll, CanTakeOut, Position
  <2>2. CooldownElapsed(a, u)
    BY <2>1 DEF MaxWithdraw
  <2>. QED  BY <1>1, <2>2 DEF MaxRedeem, SharesFor
<1>4. Leave(a, u, P, n)
  BY DEF WithdrawCommandAll, RedeemAll, Redeem, Position, AssetsFor
<1>5. n \in Nat /\ n <= s /\ (n = s \/ n = most) /\ n <= most
  <2>. HIDE DEF most, n, s
  <2>. QED  BY <1>1, <1>2, <1>3 DEF Lesser
<1>. HIDE DEF most, n
<1>6. P \in Nat /\ P * T <= n * Q /\ n * Q < (P + 1) * T
  <2>. HIDE DEF Q, T
  <2>1. MulDiv(n, Q, T) \in Nat /\ MulDiv(n, Q, T) * T <= n * Q
        /\ n * Q < (MulDiv(n, Q, T) + 1) * T
    BY <1>1, <1>5, MulDivBounds
  <2>. QED  BY <2>1
<1>. HIDE DEF P
<1>7. /\ totalAssets'[a] = A - P /\ totalSupply'[a] = S - n /\ shares'[a][u] = s - n
      /\ P <= A
  BY <1>1, <1>4, <1>5, <1>6 DEF Leave, IInv, TypeOK
<1>8. Worth(a, u)' = MulDiv(s - n, Q - P, T - n)
  <2>1. Worth(a, u)' = MulDiv(shares'[a][u], totalAssets'[a] + 1, totalSupply'[a] + VirtualShares)
    BY DEF Worth, AssetsFor
  <2>2. totalAssets'[a] + 1 = Q - P /\ totalSupply'[a] + VirtualShares = T - n
    BY <1>1, <1>5, <1>6, <1>7, VaultConstants
  <2>. QED  BY <1>7, <2>1, <2>2
<1>9. A = Q - 1 /\ P < Q
  BY <1>1, <1>6, <1>7
<1>. HIDE DEF A, S, s, Q, T
<1>10. /\ s - n \in Nat /\ Q - P \in Nat /\ T - n \in Nat \ {0}
  BY <1>1, <1>5, <1>6, <1>9
<1>11. (s - n) * (Q - P) < 2 * (T - n)
  <2>1. CASE n = s
    <3>1. s - n = 0
      BY <1>1, <2>1
    <3>2. (s - n) * (Q - P) = 0
      BY <1>10, <3>1
    <3>. QED  BY <1>10, <3>2
  <2>2. CASE n = most
    <3>1. n * Q <= (Q - 1) * T /\ (Q - 1) * T < (n + 1) * Q
      BY <1>2, <1>9, <2>2
    <3>. QED  BY <1>1, <1>5, <1>6, <1>9, <3>1, OneUnitLeft
  <2>. QED  BY <1>5, <2>1, <2>2
<1>12. MulDiv(s - n, Q - P, T - n) < 2
  BY <1>10, <1>11, MulDivBelow
<1>13. MulDiv(s - n, Q - P, T - n) \in Nat
  BY <1>10, MulDivBounds
<1>. QED  BY <1>8, <1>12, <1>13

\* Who may take nothing out of shares worth something, although no cooldown
\* runs, is kept by open bets.
LEMMA KeptByOpenBets ==
    ASSUME ScreensInv, NEW a \in Agents, NEW u \in Users,
           CapitalLocked(Position(a, u)), Worth(a, u) > 0
    PROVE  lockedLiability[a] > 0
<1>. SUFFICES ASSUME lockedLiability[a] = 0 PROVE FALSE
  BY DEF ScreensInv, IInv, TypeOK
<1>1. /\ Worth(a, u) \in Nat /\ Worth(a, u) <= totalAssets[a] /\ totalAssets[a] \in Nat
      /\ FreeCapital(a) = totalAssets[a]
  BY PoolOfBacker DEF ScreensInv
<1>2. now \in Nat /\ StartTime \in Nat /\ now >= StartTime /\ lastDepositAt[a][u] \in Nat
      /\ WithdrawalCooldownSeconds \in Nat /\ WithdrawalCooldownSeconds <= StartTime
  BY ChainConstants, VaultConstants, CooldownAssumption DEF ScreensInv, IInv, TypeOK
<1>3. MaxWithdraw(a, u) = 0 /\ ~CooldownActive(Position(a, u))
  BY DEF CapitalLocked, Position
<1>4. CooldownElapsed(a, u)
  BY <1>2, <1>3 DEF CooldownActive, Position, CooldownElapsed
<1>5. MaxWithdraw(a, u) = Lesser(Worth(a, u), FreeCapital(a))
  BY <1>4 DEF MaxWithdraw, Worth
<1>. QED  BY <1>1, <1>3, <1>5 DEF Lesser

\* Over any run of the contracts, the screens and the commands: taking out "all"
\* of a vault that lends nothing leaves nothing on the sheet and at most one
\* unit by the command, and a screen blames open bets only when there are some
\* (VaultSheet.tsx, withdraw.ts).
THEOREM AllIsTakenOut == ScreensSpec => AllMeansAll
<1>. DEFINE AllTaken ==
                \A a \in Agents, u \in Backers :
                   /\ lockedLiability[a] = 0 =>
                         /\ Worth(a, u)' > 0 => ~SheetWithdraw(a, u)
                         /\ Worth(a, u)' > 1 => ~WithdrawCommandAll(a, u)
                   /\ CapitalLocked(Position(a, u)) /\ Worth(a, u) > 0 => lockedLiability[a] > 0
<1>1. ScreensInv => AllTaken
  <2>. SUFFICES ASSUME ScreensInv, NEW a \in Agents, NEW u \in Backers
                PROVE  /\ lockedLiability[a] = 0 =>
                             /\ Worth(a, u)' > 0 => ~SheetWithdraw(a, u)
                             /\ Worth(a, u)' > 1 => ~WithdrawCommandAll(a, u)
                       /\ CapitalLocked(Position(a, u)) /\ Worth(a, u) > 0 =>
                             lockedLiability[a] > 0
    OBVIOUS
  <2>1. u \in Users /\ IInv
    BY BettingConstants DEF ScreensInv
  <2>. QED  BY <2>1, SheetTakesAll, CommandTakesAll, KeptByOpenBets
<1>2. ScreensInv /\ [ScreensNext]_allVars => [AllTaken]_allVars
  BY <1>1
<1>. HIDE DEF AllTaken
<1>3. ScreensSpec => [][AllTaken]_allVars
  BY <1>2, ScreensInvariant, PTL DEF ScreensSpec
<1>. QED  BY <1>3 DEF AllTaken, AllMeansAll
=============================================================================
