--------------------------- MODULE MarketManager ---------------------------
(***************************************************************************)
(* Life of a micro-market: contracts/src/MarketManager.sol.  The two roles *)
(* are actors here: the scheduler opens, suspends, resumes and closes      *)
(* early; the settler, which is the SettlementReceiver, resolves and       *)
(* voids.  Solidity's mappings are total functions whose default is the    *)
(* zero value.  The window and the team filter of a market are checked on  *)
(* the way in and never read again on chain, so they are left out.         *)
(*                                                                         *)
(* What every contract shares comes first: the block clock and the users'  *)
(* nUSD.  nUSD is an ERC-20 with no hooks (contracts/src/NinetyUSD.sol), so *)
(* a balance is a number; the balances of the vaults and of the router are *)
(* variables of their own modules.                                         *)
(***************************************************************************)
EXTENDS Integers

CONSTANTS
    Users,          \* externally owned accounts
    None,           \* address(0)
    StartTime,      \* block.timestamp when the model starts
    MaxTime         \* bound on the clock

ASSUME ChainConstants ==
    StartTime \in Nat /\ MaxTime \in Nat /\ None \notin Users

VARIABLES
    now,            \* block.timestamp
    balanceOf       \* nUSD held by each user

Times == StartTime..MaxTime

ChainTypeOK ==
    /\ now \in Nat
    /\ balanceOf \in [Users -> Nat]

\* The clock of the chain moves on between two transactions.
TickBlock ==
    /\ now < MaxTime
    /\ now' = now + 1

-----------------------------------------------------------------------------
(* Markets *)

CONSTANTS
    Matches,        \* 1..n: ids createMatch may hand out
    Markets,        \* 1..n: ids openMarket may hand out
    Templates       \* questions the platform knows

ASSUME MarketConstants ==
    /\ Matches \subseteq Nat \ {0}
    /\ Markets \subseteq Nat \ {0}

VARIABLES
    matchCount,         \* _matchCount; a match exists when its id is 1..matchCount
    marketCount,        \* _marketCount
    templateEnabled,
    markets             \* _markets

marketVars == <<matchCount, marketCount, templateEnabled, markets>>

MarketStates == {"None", "Open", "Suspended", "Closed", "Resolved", "Voided"}
Outcomes == {"Unresolved", "Yes", "No", "Void"}

Market == [matchId : Matches \cup {0},
           closesAt : Nat,
           qualifyingEventTs : Nat,
           state : MarketStates,
           outcome : Outcomes]

\* The zero value of an unwritten storage slot.
NoMarket == [matchId |-> 0, closesAt |-> 0, qualifyingEventTs |-> 0,
             state |-> "None", outcome |-> "Unresolved"]

MarketTypeOK ==
    /\ matchCount \in Nat
    /\ marketCount \in Nat
    /\ templateEnabled \in [Templates -> BOOLEAN]
    /\ markets \in [Markets -> Market]

MarketInit ==
    /\ matchCount = 0
    /\ marketCount = 0
    /\ templateEnabled = [t \in Templates |-> FALSE]
    /\ markets = [m \in Markets |-> NoMarket]

-----------------------------------------------------------------------------
(* Views *)

MatchExists(id) == id \in 1..matchCount

IsBettable(m) == markets[m].state = "Open" /\ now < markets[m].closesAt

\* Open or Suspended: close, and resolve on its way through, accept both.
Running(m) == markets[m].state \in {"Open", "Suspended"}

Settled(m) == markets[m].state \in {"Resolved", "Voided"}

-----------------------------------------------------------------------------
(* Configuration, by the admin *)

SetTemplate(t, enabled) ==
    /\ templateEnabled' = [templateEnabled EXCEPT ![t] = enabled]
    /\ UNCHANGED <<matchCount, marketCount, markets>>

-----------------------------------------------------------------------------
(* The scheduler *)

CreateMatch ==
    /\ matchCount + 1 \in Matches
    /\ matchCount' = matchCount + 1
    /\ UNCHANGED <<marketCount, templateEnabled, markets>>

OpenMarket(id, t, closesAt) ==
    /\ marketCount + 1 \in Markets
    /\ MatchExists(id)
    /\ templateEnabled[t]
    /\ closesAt > now
    /\ marketCount' = marketCount + 1
    /\ markets' = [markets EXCEPT ![marketCount + 1] =
                     [NoMarket EXCEPT !.matchId = id,
                                      !.closesAt = closesAt,
                                      !.state = "Open"]]
    /\ UNCHANGED <<matchCount, templateEnabled>>

Suspend(m) ==
    /\ markets[m].state = "Open"
    /\ markets' = [markets EXCEPT ![m].state = "Suspended"]
    /\ UNCHANGED <<matchCount, marketCount, templateEnabled>>

Resume(m) ==
    /\ markets[m].state = "Suspended"
    /\ markets' = [markets EXCEPT ![m].state = "Open"]
    /\ UNCHANGED <<matchCount, marketCount, templateEnabled>>

\* Anyone may close after closesAt; before it only the scheduler.
Close(m, byScheduler) ==
    /\ Running(m)
    /\ now >= markets[m].closesAt \/ byScheduler
    /\ markets' = [markets EXCEPT ![m].state = "Closed"]
    /\ UNCHANGED <<matchCount, marketCount, templateEnabled>>

-----------------------------------------------------------------------------
(* The settler *)

\* A market whose betting time is over is closed on the way through.
CanResolve(m) ==
    \/ Running(m) /\ now >= markets[m].closesAt
    \/ markets[m].state = "Closed"

Resolution(m, outcome, qualifyingEventTs) ==
    [markets[m] EXCEPT !.state = "Resolved", !.outcome = outcome,
                       !.qualifyingEventTs = qualifyingEventTs]

Resolve(m, outcome, qualifyingEventTs) ==
    /\ outcome \in {"Yes", "No"}
    /\ CanResolve(m)
    /\ markets' = [markets EXCEPT ![m] = Resolution(m, outcome, qualifyingEventTs)]
    /\ UNCHANGED <<matchCount, marketCount, templateEnabled>>

CanVoid_AfterResolve(m) == markets[m].state \notin {"None", "Voided"}
CanVoid(m) == markets[m].state \notin {"None", "Resolved", "Voided"}

Voiding(m) == [markets[m] EXCEPT !.state = "Voided", !.outcome = "Void"]

VoidMarket(m) ==
    /\ CanVoid(m)
    /\ markets' = [markets EXCEPT ![m] = Voiding(m)]
    /\ UNCHANGED <<matchCount, marketCount, templateEnabled>>

-----------------------------------------------------------------------------
(* Properties *)

\* How far a market is through its life.  Suspending and resuming go back
\* and forth on one stage.
Stage(market) == CASE market.state = "None" -> 0
                   [] market.state \in {"Open", "Suspended"} -> 1
                   [] market.state = "Closed" -> 2
                   [] OTHER -> 3

\* A market only moves on: what has closed never takes bets again, an id is
\* never handed out twice, and a settled market keeps its outcome and the
\* time of its event for good, which settleBatch may read much later.
MarketsOnlyAdvance ==
    [][\A m \in Markets :
          /\ Stage(markets'[m]) >= Stage(markets[m])
          /\ Settled(m) => markets'[m] = markets[m]]_marketVars
=============================================================================
