------------------------------ MODULE Indexer ------------------------------
(***************************************************************************)
(* What the browser knows of the chain at second hand.  The chain holds    *)
(* the bets struck on one agent's prices and the memories its operator     *)
(* saved (BetRouter.sol, AgentMemory.sol), and logs an event for each      *)
(* change; the indexer's handlers (indexer/src/EventHandlers.ts) apply     *)
(* the events to its rows in order, some time later.                       *)
(***************************************************************************)
EXTENDS Naturals, Sequences, SequencesExt, FiniteSetsExt, TLC

CONSTANTS
    Markets,
    Outcomes,           \* a market may be resolved to
    Stake, Payout,      \* of every bet
    MaxBets,            \* bound: bets struck
    MaxTrail,           \* bound: events the indexer trails by before the next bet or save
    None

ASSUME IndexerConstants == Stake \in Nat \ {0} /\ Payout \in Nat \ {0}

VARIABLES
    outcome,    \* market |-> its result, or None while it is open
    bets,       \* _bets and claimed, by betId
    saves,      \* the memories behind memoryCommit, by memoryVersion
    log,        \* events the indexer has yet to handle
    rows        \* the indexer's: bet and memory

chainVars == <<outcome, bets, saves>>
indexerVars == <<outcome, bets, saves, log, rows>>

BetSides == {"Yes", "No"}
Final == {"Won", "Lost", "Voided"}

Logged(event) ==
    /\ Len(log) < MaxTrail
    /\ log' = Append(log, event)

IndexerInit ==
    /\ outcome = [m \in Markets |-> None]
    /\ bets = <<>>
    /\ saves = <<>>
    /\ log = <<>>
    /\ rows = [bet |-> <<>>, memory |-> None]

-----------------------------------------------------------------------------
(* On chain *)

Placed(m, s) == [market |-> m, side |-> s, status |-> "Open", claimed |-> FALSE]

\* A bet is one fill or several, struck at once.
PlaceFills(m, s, n) ==
    /\ outcome[m] = None
    /\ Len(bets) + n <= MaxBets
    /\ Len(log) < MaxTrail
    /\ bets' = bets \o [i \in 1..n |-> Placed(m, s)]
    /\ log' = log \o [i \in 1..n |-> [event |-> "BetPlaced", id |-> Len(bets) + i]]
    /\ UNCHANGED <<outcome, saves, rows>>

PlaceBet(m, s) == PlaceFills(m, s, 1)

ResolveMarket(m, result) ==
    /\ outcome[m] = None
    /\ outcome' = [outcome EXCEPT ![m] = result]
    /\ UNCHANGED <<bets, saves, log, rows>>

\* That a bet struck just before the event is void too is Betting's.
StatusOf(id) ==
    LET result == outcome[bets[id].market]
    IN  CASE result = "Void" -> "Voided"
          [] result = bets[id].side -> "Won"
          [] OTHER -> "Lost"

\* settleBatch, a bet at a time and in any order.
SettleBet(id) ==
    /\ bets[id].status = "Open" /\ outcome[bets[id].market] # None
    /\ bets' = [bets EXCEPT ![id].status = StatusOf(id)]
    /\ Logged([event |-> "BetSettled", id |-> id, status |-> StatusOf(id)])
    /\ UNCHANGED <<outcome, saves, rows>>

Owed(b) == CASE b.status = "Won" -> Payout
             [] b.status = "Voided" -> Stake
             [] OTHER -> 0

Claimable(b) == IF b.claimed THEN 0 ELSE Owed(b)

\* claim skips what is already claimed or owes nothing, in whatever order the
\* caller listed them; it does not revert.
ClaimBets(ids) ==
    LET due == {id \in ids : Claimable(bets[id]) > 0}
    IN  /\ bets' = [id \in DOMAIN bets |->
                       [bets[id] EXCEPT !.claimed = @ \/ id \in due]]
        /\ \E order \in SetToSeqs(due) :
              log' = log \o [i \in DOMAIN order |-> [event |-> "BetClaimed", id |-> order[i]]]
        /\ UNCHANGED <<outcome, saves, rows>>

SaveMemory(memory) ==
    /\ saves' = Append(saves, memory)
    /\ Logged([event |-> "MemorySaved", version |-> Len(saves) + 1, memory |-> memory])
    /\ UNCHANGED <<outcome, bets, rows>>

-----------------------------------------------------------------------------
(* The indexer's handlers *)

\* f, with the value of x put in or replaced.
Put(f, x, value) == [y \in DOMAIN f \cup {x} |-> IF y = x THEN value ELSE f[y]]

\* A bet's row from its events; one without a row is passed over.
Handled(r, e) ==
    CASE e.event = "BetPlaced" ->
           [r EXCEPT !.bet = Put(@, e.id, [status |-> "Open", claimed |-> FALSE])]
      [] e.event = "MemorySaved" ->
           [r EXCEPT !.memory = [version |-> e.version, memory |-> e.memory]]
      [] e.event = "BetSettled" /\ e.id \in DOMAIN r.bet ->
           [r EXCEPT !.bet[e.id].status = e.status]
      [] e.event = "BetClaimed" /\ e.id \in DOMAIN r.bet ->
           [r EXCEPT !.bet[e.id].claimed = TRUE]
      [] OTHER -> r

Index ==
    /\ log # <<>>
    /\ rows' = Handled(rows, Head(log))
    /\ log' = Tail(log)
    /\ UNCHANGED chainVars
=============================================================================
