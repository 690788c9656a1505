------------------------- MODULE SettlementWatcher -------------------------
(***************************************************************************)
(* Settling every market that closes: cre/watcher/settlement-watcher.ts    *)
(* with the workflow it runs (cre/ninety-settlement/workflow.ts), the      *)
(* receiver, the markets, and an indexer that trails the chain.  A wager   *)
(* stands for an open bet: its market and the liability it locks.          *)
(*                                                                         *)
(* closedLog is the chain's MarketClosed logs in order, each in a          *)
(* transaction of its own.  The watcher reads, awaits and writes in        *)
(* several steps; bets, closes, late reports and crashes come between      *)
(* them.                                                                   *)
(***************************************************************************)
EXTENDS SettlementReceiver, SequencesExt

CONSTANTS
    Opened,         \* the markets that are open at the start: match and closing time
    Wagers,         \* [market, liability] records
    Answers,        \* what the match-data service may answer
    TxsPerBlock,    \* room for a block's transactions in producedAt
    MaxAttempts,    \* MAX_ATTEMPTS
    IndexLag,       \* attempts after which the indexer has caught up
    DiskSurvives,   \* whether the saved cursor outlives a restart
    MaxFaults,      \* bound: failed requests, killed runs and dropped transactions
    MaxCrashes      \* bound on crashes of the watcher

ASSUME WatcherConstants ==
    /\ Opened \in [Markets -> [matchId : Matches, closesAt : Nat]]
    /\ \A w \in Wagers : w.market \in Markets /\ w.liability \in Nat
    /\ Answers \subseteq {"Yes", "No", "Void", "Failed"}
    /\ TxsPerBlock \in Nat \ {0}
    /\ MaxAttempts \in Nat \ {0} /\ IndexLag \in Nat
    /\ DiskSurvives \in BOOLEAN
    /\ MaxFaults \in Nat /\ MaxCrashes \in Nat

VARIABLES
    openBets,       \* the wagers that are open on chain
    closedLog,      \* the MarketClosed logs: [market, block, txIndex] records
    indexed,        \* the chain as the indexer last saw it
    flight,         \* reports sent to the receiver that have not landed
    cursor,         \* the saved cursor: logs scanned, as a place in closedLog
    queue,          \* pending markets, in memory only
    step,           \* where the loop is: what the head of the queue awaits
    faults, crashes \* how many there have been

watcherVars == <<cursor, queue, step>>

allVars == <<now, balanceOf, marketVars, receiverVars, openBets, closedLog,
             indexed, flight, watcherVars, faults, crashes>>

ChainView == [matchCount |-> matchCount,
              running |-> {m \in Markets : Running(m)},
              openBets |-> openBets]

Item == [market : Markets, at : Nat, stage : {"report", "bets"},
         attempts : 0..MaxAttempts - 1]

Steps == {"Idle", "Running", "Settling", "Down"}

\* A report's place among its match's: that of its close in the chain, not the
\* time its market was to close at.
ReportProducedAt_ClosesAt(log) == markets[log.market].closesAt
ReportProducedAt(log) == log.block * TxsPerBlock + log.txIndex

OutcomeByte(outcome) ==
    CASE outcome = "Yes" -> OutcomeYes
      [] outcome = "No" -> OutcomeNo
      [] outcome = "Void" -> OutcomeVoid

\* One report per market; event times are left out.
Report(log, outcome) ==
    [matchId |-> markets[log.market].matchId, producedAt |-> ReportProducedAt(log),
     markets |-> <<[marketId |-> log.market, outcome |-> OutcomeByte(outcome),
                    qualifyingEventTs |-> 0]>>]

WatcherTypeOK ==
    /\ ChainTypeOK /\ MarketTypeOK /\ ReceiverTypeOK
    /\ openBets \subseteq Wagers
    /\ closedLog \in Seq([market : Markets, block : StartTime..MaxTime, txIndex : Nat])
    /\ indexed.openBets \subseteq Wagers
    /\ cursor \in 0..Len(closedLog)
    /\ queue \in Seq(Item)
    /\ step \in Steps
    /\ step \in {"Running", "Settling"} => queue # <<>>
    /\ faults \in 0..MaxFaults /\ crashes \in 0..MaxCrashes

\* Every match and market of the model exists when it starts, the markets open
\* for bets; the deployment's reports come through the simulation forwarder.
Init ==
    /\ now = StartTime
    /\ balanceOf = [u \in Users |-> 0]
    /\ matchCount \in {n \in Matches : \A id \in Matches : id <= n}
    /\ marketCount \in {n \in Markets : \A m \in Markets : m <= n}
    /\ templateEnabled = [t \in Templates |-> TRUE]
    /\ markets = [m \in Markets |-> [NoMarket EXCEPT !.matchId = Opened[m].matchId,
                                                    !.closesAt = Opened[m].closesAt,
                                                    !.state = "Open"]]
    /\ simEnabled = TRUE
    /\ simAttestor \in Attestors \ {None}
    /\ productionLocked = FALSE
    /\ expectedWorkflow = None
    /\ lastProducedAt = [id \in Matches |-> 0]
    /\ simNonce = [id \in Matches |-> 0]
    /\ openBets = {}
    /\ closedLog = <<>>
    /\ indexed = [matchCount |-> 0, running |-> {}, openBets |-> {}]
    /\ flight = {}
    /\ cursor = 0
    /\ queue = <<>>
    /\ step = "Idle"
    /\ faults = 0 /\ crashes = 0

-----------------------------------------------------------------------------
(* The chain and the indexer *)

Bet(w) ==
    /\ w \notin openBets
    /\ IsBettable(w.market)
    /\ openBets' = openBets \cup {w}
    /\ UNCHANGED <<now, balanceOf, marketVars, receiverVars, closedLog, indexed,
                   flight, watcherVars, faults, crashes>>

ClosedInBlock(b) == {i \in DOMAIN closedLog : closedLog[i].block = b}

\* The scheduler closes a market, or, after its time, anybody; in this block
\* while there is room in it.
CloseLogged(m, byScheduler) ==
    /\ Close(m, byScheduler)
    /\ Cardinality(ClosedInBlock(now)) < TxsPerBlock
    /\ closedLog' = Append(closedLog, [market |-> m, block |-> now,
                                      txIndex |-> Cardinality(ClosedInBlock(now))])
    /\ UNCHANGED <<now, balanceOf, receiverVars, openBets, indexed, flight,
                   watcherVars, faults, crashes>>

Tick ==
    /\ TickBlock
    /\ UNCHANGED <<balanceOf, marketVars, receiverVars, openBets, closedLog,
                   indexed, flight, watcherVars, faults, crashes>>

\* The indexer's view jumps to the chain's from time to time.
Index ==
    /\ indexed # ChainView
    /\ indexed' = ChainView
    /\ UNCHANGED <<now, balanceOf, marketVars, receiverVars, openBets, closedLog,
                   flight, watcherVars, faults, crashes>>

\* A report reaches the receiver and is taken or refused; the workflow
\* names no workflow identity and goes through the simulation forwarder.
Land(r) ==
    /\ r \in flight
    /\ flight' = flight \ {r}
    /\ IF ReportAccepted("Simulation", None, r.report, r.signature)
       THEN OnReport("Simulation", None, r.report, r.signature)
       ELSE UNCHANGED <<marketVars, receiverVars>>
    /\ UNCHANGED <<now, balanceOf, openBets, closedLog, indexed, watcherVars,
                   faults, crashes>>

\* A transaction that is never mined.
Drop(r) ==
    /\ r \in flight
    /\ faults < MaxFaults
    /\ faults' = faults + 1
    /\ flight' = flight \ {r}
    /\ UNCHANGED <<now, balanceOf, marketVars, receiverVars, openBets, closedLog,
                   indexed, watcherVars, crashes>>

-----------------------------------------------------------------------------
(* The loop.  Scanning comes first; then the head of the queue gets one    *)
(* attempt, strictly in the order the markets closed.                      *)

Scanned(from, to) ==
    [i \in 1..to - from |-> [market |-> closedLog[from + i].market, at |-> from + i,
                             stage |-> "report", attempts |-> 0]]

\* One batch of logs: queued, and only then is the cursor written.
Scan ==
    /\ step = "Idle"
    /\ \E to \in cursor + 1..Len(closedLog) :
          /\ queue' = queue \o Scanned(cursor, to)
          /\ cursor' = to
    /\ UNCHANGED <<now, balanceOf, marketVars, receiverVars, openBets, closedLog,
                   indexed, flight, step, faults, crashes>>

\* The sweep closes what the indexer shows running past its closing time.
Sweep(m) ==
    /\ step = "Idle"
    /\ m \in indexed.running
    /\ CloseLogged(m, FALSE)

\* The item the loop works on: always the one that closed first.
Current == 1
HeadItem == queue[Current]

\* The exposure the vaults show on a market: settleBets trusts it, and not
\* the indexer, on whether a bet is left.
Exposed(m) == \E w \in openBets : w.market = m /\ w.liability > 0
NothingLeft_TrustsIndexer(m) == TRUE
NothingLeft(m) == ~Exposed(m)

\* After an attempt the item leaves the queue, or stays for another try.
Succeed == /\ queue' = RemoveAt(queue, Current)
           /\ step' = "Idle"
GiveUpAt_OneEarly == MaxAttempts - 1
GiveUpAt == MaxAttempts
Fail == /\ queue' = IF HeadItem.attempts + 1 >= GiveUpAt
                    THEN RemoveAt(queue, Current)
                    ELSE [queue EXCEPT ![Current].attempts = @ + 1]
        /\ step' = "Idle"

\* The fixtures the workflow can ask about are rebuilt from the indexer before
\* each run.
Mapped(match) == match <= indexed.matchCount

\* The indexer trails by about 45 s; the attempts wait 10, 20, 30 s more
\* each time, so from attempt IndexLag on it shows the market as it closed.
CaughtUp(m) == /\ Mapped(markets[m].matchId)
               /\ \A w \in openBets : w.market = m => w \in indexed.openBets

Attempting(stage) ==
    /\ step = "Idle" /\ queue # <<>>
    /\ HeadItem.stage = stage
    /\ HeadItem.attempts >= IndexLag => CaughtUp(HeadItem.market)

OffChain == <<now, balanceOf, marketVars, receiverVars, closedLog, indexed, cursor,
              crashes>>

\* Nobody bet on it: left unresolved for good.
SkipEmpty ==
    /\ Attempting("report")
    /\ ~Settled(HeadItem.market) /\ ~Exposed(HeadItem.market)
    /\ Succeed
    /\ UNCHANGED <<OffChain, openBets, flight, faults>>

AlreadySettled ==
    /\ Attempting("report")
    /\ Settled(HeadItem.market)
    /\ queue' = [queue EXCEPT ![Current].stage = "bets"]
    /\ UNCHANGED <<OffChain, openBets, flight, step, faults>>

MatchNotIndexed ==
    /\ Attempting("report")
    /\ ~Settled(HeadItem.market) /\ Exposed(HeadItem.market)
    /\ ~Mapped(markets[HeadItem.market].matchId)
    /\ Fail
    /\ UNCHANGED <<OffChain, openBets, flight, faults>>

ThisRun == [process |-> crashes, attempt |-> HeadItem.attempts]

\* The attestor's key signs the report it is sent with, for the nonce its
\* match is at.
Attestation(match) == [key |-> simAttestor, nonce |-> simNonce[match]]

\* What a run of the workflow sends for a market it finds closed.
Submission(item, outcome) ==
    [report |-> Report(closedLog[item.at], outcome),
     signature |-> Attestation(markets[item.market].matchId),
     run |-> ThisRun]

\* What is fetched stops the run unless it is one of three outcomes.
FetchSettlement(answer) == answer \in {"Yes", "No", "Void"}

\* The workflow reads the market, asks for the outcome, reads the nonce, sends.
StartRun ==
    /\ Attempting("report")
    /\ Exposed(HeadItem.market)
    /\ markets[HeadItem.market].state = "Closed"
    /\ Mapped(markets[HeadItem.market].matchId)
    /\ \E answer \in Answers :
          IF FetchSettlement(answer)
          THEN /\ flight' = flight \cup {Submission(HeadItem, answer)}
               /\ UNCHANGED faults
          ELSE /\ faults < MaxFaults /\ faults' = faults + 1
               /\ UNCHANGED flight
    /\ step' = "Running"
    /\ UNCHANGED <<OffChain, openBets, queue>>

RunOver == \A r \in flight :
              r.report.markets[1].marketId = HeadItem.market => r.run # ThisRun

\* A clean run is no proof: the market's own state is.
Confirmed(m) == Settled(m)

RunEnds ==
    /\ step = "Running"
    /\ RunOver
    /\ IF Confirmed(HeadItem.market)
       THEN /\ queue' = [queue EXCEPT ![Current].stage = "bets"]
            /\ step' = "Settling"
       ELSE Fail
    /\ UNCHANGED <<OffChain, openBets, flight, faults>>

\* A request throws, or a run is stuck and killed: what it had sent stays
\* in flight.
Throw ==
    /\ step \in {"Idle", "Running", "Settling"} /\ queue # <<>>
    /\ faults < MaxFaults
    /\ faults' = faults + 1
    /\ Fail
    /\ UNCHANGED <<OffChain, openBets, flight>>

Seen(m) == {w \in indexed.openBets : w.market = m}

\* settleBets in the attempt that resolved the market, or in a later one.
\* Bets that are settled already are skipped by settleBatch.
SettleBets ==
    /\ Attempting("bets") \/ step = "Settling"
    /\ openBets' = openBets \ Seen(HeadItem.market)
    /\ \E m \in {HeadItem.market} : IF NothingLeft(m)' THEN Succeed ELSE Fail
    /\ UNCHANGED <<OffChain, flight, faults>>

\* The process stops; the queue was only in memory.
Crash ==
    /\ step # "Down"
    /\ crashes < MaxCrashes
    /\ crashes' = crashes + 1
    /\ queue' = <<>>
    /\ step' = "Down"
    /\ UNCHANGED <<now, balanceOf, marketVars, receiverVars, openBets, closedLog,
                   indexed, flight, cursor, faults>>

\* It starts again from the saved cursor; where the disk was wiped, from two
\* hours back, which is before every close of the model.
Restart_FromLatest ==
    /\ step = "Down"
    /\ step' = "Idle"
    /\ cursor' = IF DiskSurvives THEN cursor ELSE Len(closedLog)
    /\ UNCHANGED <<now, balanceOf, marketVars, receiverVars, openBets, closedLog,
                   indexed, flight, queue, faults, crashes>>
Restart ==
    /\ step = "Down"
    /\ step' = "Idle"
    /\ cursor' = IF DiskSurvives THEN cursor ELSE 0
    /\ UNCHANGED <<now, balanceOf, marketVars, receiverVars, openBets, closedLog,
                   indexed, flight, queue, faults, crashes>>

-----------------------------------------------------------------------------
WatcherStep ==
    \/ Scan \/ SkipEmpty \/ AlreadySettled \/ MatchNotIndexed \/ StartRun
    \/ RunEnds \/ SettleBets \/ Restart

Next ==
    \/ WatcherStep \/ Throw \/ Crash \/ Index \/ Tick
    \/ \E w \in Wagers : Bet(w)
    \/ \E m \in Markets : CloseLogged(m, TRUE) \/ CloseLogged(m, FALSE) \/ Sweep(m)
    \/ \E r \in flight : Land(r) \/ Drop(r)

\* The loop runs for ever, the indexer keeps indexing, blocks keep coming and
\* what was sent is mined.  Nobody but the sweep has to close a market.
Fairness ==
    /\ WF_allVars(WatcherStep) /\ WF_allVars(Index) /\ WF_allVars(Tick)
    /\ \A m \in Markets : WF_allVars(Sweep(m))
    /\ WF_allVars(\E r \in flight : Land(r))

Spec == Init /\ [][Next]_allVars /\ Fairness

-----------------------------------------------------------------------------
(* Properties *)

\* A pending market's report is never too old for the receiver: nothing of
\* its match that closed later was reported first.  That is why the loop
\* goes strictly in close order; a stale report would never be accepted.
PendingNeverStale ==
    \A i \in DOMAIN queue :
        LET m == queue[i].market
        IN  queue[i].stage = "report" /\ ~Settled(m) /\ Exposed(m) =>
               ReportProducedAt(closedLog[queue[i].at]) > lastProducedAt[markets[m].matchId]

\* Every close with money in it is still to be scanned or still pending:
\* the cursor never passes it for nothing, the attempts are enough for an
\* indexer that lags and a request that fails, and a restart looks back.
NothingForgotten ==
    \A i \in 1..Len(closedLog) :
        Exposed(closedLog[i].market) =>
            i > cursor \/ step = "Down" \/ \E k \in DOMAIN queue : queue[k].at = i

\* Every bet that locks liability is settled in the end: the watcher's
\* "Settles every market that closes, end to end".
EveryBetSettles ==
    \A w \in Wagers :
        w.liability > 0 => (w \in openBets ~> w \notin openBets)
=============================================================================
