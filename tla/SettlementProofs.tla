-------------------------- MODULE SettlementProofs --------------------------
(***************************************************************************)
(* Proofs about the watcher, for any markets, matches, wagers, crashes and *)
(* lag of the indexer: the report of a pending market is never too old for *)
(* the receiver, and no market with money in it is forgotten.              *)
(*                                                                         *)
(* Both rest on one order.  Closes get growing places in the chain, the    *)
(* queue holds them in that order, and a report that was sent, or that was *)
(* the last to be accepted, has nothing exposed that closed before it.     *)
(***************************************************************************)
EXTENDS SettlementWatcher, FiniteSetTheorems, SequenceTheorems, TLAPS

Logs == 1..Len(closedLog)
MarketOf(i) == closedLog[i].market

-----------------------------------------------------------------------------
(* The inductive invariant *)

Typed ==
    /\ now \in Nat /\ now >= StartTime
    /\ matchCount \in Matches /\ \A id \in Matches : id <= matchCount
    /\ markets \in [Markets -> Market]
    /\ \A m \in Markets : /\ markets[m].matchId = Opened[m].matchId
                          /\ markets[m].state \in {"Open", "Closed", "Resolved", "Voided"}
    /\ simEnabled = TRUE /\ productionLocked = FALSE
    /\ expectedWorkflow = None /\ simAttestor # None
    /\ lastProducedAt \in [Matches -> Nat]
    /\ simNonce \in [Matches -> Nat]
    /\ openBets \subseteq Wagers
    /\ closedLog \in Seq([market : Markets, block : Nat, txIndex : Nat])
    /\ indexed \in [matchCount : Nat, running : SUBSET Markets, openBets : SUBSET Wagers]
    /\ cursor \in 0..Len(closedLog)
    /\ queue \in Seq([market : Markets, at : Nat, stage : {"report", "bets"},
                      attempts : Nat])
    /\ step \in Steps
    /\ faults \in 0..MaxFaults /\ crashes \in Nat

\* A market has one log once it is no longer open, and the logs are in the
\* order of their blocks and, within a block, of their transactions.
LogsInOrder ==
    /\ \A m \in Markets : markets[m].state = "Open" <=> \A i \in Logs : MarketOf(i) # m
    /\ \A i \in Logs :
          /\ closedLog[i].block \in StartTime..now
          /\ closedLog[i].txIndex < TxsPerBlock
          /\ closedLog[i].txIndex < Cardinality(ClosedInBlock(closedLog[i].block))
    /\ \A i, j \in Logs :
          i < j => /\ MarketOf(i) # MarketOf(j)
                   /\ closedLog[i].block <= closedLog[j].block
                   /\ closedLog[i].block = closedLog[j].block =>
                         closedLog[i].txIndex < closedLog[j].txIndex

\* Nothing exposed closed before log j.
ClearBefore(j) == \A i \in Logs : i < j => ~Exposed(MarketOf(i))

\* A report in flight is of a close with nothing exposed before it; while its
\* nonce is good, its market waits for it.
SentOf(r, j, outcome, nonce) ==
    /\ r.report = Report(closedLog[j], outcome)
    /\ r.signature = [key |-> simAttestor, nonce |-> nonce]
    /\ nonce <= simNonce[markets[MarketOf(j)].matchId]
    /\ ClearBefore(j)
    /\ nonce = simNonce[markets[MarketOf(j)].matchId] =>
          ~Settled(MarketOf(j)) /\ Exposed(MarketOf(j))

FlightClear ==
    \A r \in flight :
        \E j \in Logs, outcome \in {"Yes", "No", "Void"}, nonce \in Nat :
            SentOf(r, j, outcome, nonce)

\* What the receiver last accepted for a match settled its market.
AcceptedOf(id, j) ==
    /\ markets[MarketOf(j)].matchId = id
    /\ lastProducedAt[id] = ReportProducedAt(closedLog[j])
    /\ Settled(MarketOf(j))
    /\ ClearBefore(j)

LastClear ==
    \A id \in Matches : \/ lastProducedAt[id] = 0
                        \/ \E j \in Logs : AcceptedOf(id, j)

\* The queue is a part of the logs that were scanned, in their order; only
\* its head has been tried.
QueueInOrder ==
    /\ \A k \in 1..Len(queue) :
          /\ queue[k].at \in 1..cursor
          /\ queue[k].market = MarketOf(queue[k].at)
          /\ k > 1 => queue[k].stage = "report" /\ queue[k].attempts = 0
    /\ \A k, l \in 1..Len(queue) : k < l => queue[k].at < queue[l].at
    /\ step = "Down" => queue = <<>>
    /\ step \in {"Running", "Settling"} => queue # <<>>

\* The head has been tried once for each time the indexer was behind and each
\* failure, no more; a run of the workflow that is going on has failed, has
\* done its work, or has its report in flight.
HeadOnTime ==
    queue # <<>> =>
        /\ HeadItem.attempts <= IndexLag + faults
        /\ HeadItem.stage = "bets" \/ step = "Settling" => Settled(HeadItem.market)
        /\ step \in {"Running", "Settling"} /\ HeadItem.attempts >= IndexLag =>
              CaughtUp(HeadItem.market)
        /\ step = "Running" =>
              \/ Settled(HeadItem.market)
              \/ HeadItem.attempts + 1 <= IndexLag + faults
              \/ \E outcome \in {"Yes", "No", "Void"} : Submission(HeadItem, outcome) \in flight

WatchInv ==
    /\ Typed /\ LogsInOrder /\ FlightClear /\ LastClear
    /\ QueueInOrder /\ HeadOnTime /\ NothingForgotten

\* There are attempts to spare for an indexer that lags and for every failure,
\* the queue is rebuilt from the logs, and time does not start at zero.
Patient ==
    /\ IndexLag + MaxFaults < MaxAttempts
    /\ ~DiskSurvives
    /\ StartTime > 0

-----------------------------------------------------------------------------
(* Logs and places *)

LEMMA LogTyped ==
    ASSUME Typed, NEW i \in Logs
    PROVE  /\ closedLog[i] \in [market : Markets, block : Nat, txIndex : Nat]
           /\ MarketOf(i) \in Markets
           /\ markets[MarketOf(i)] \in Market
           /\ markets[MarketOf(i)].matchId \in Matches
<1>1. closedLog[i] \in [market : Markets, block : Nat, txIndex : Nat]
  <2>1. closedLog \in Seq([market : Markets, block : Nat, txIndex : Nat])
    BY DEF Typed
  <2>. QED  BY <2>1, ElementOfSeq DEF Logs
<1>2. MarketOf(i) \in Markets
  BY <1>1 DEF MarketOf
<1>3. Opened[MarketOf(i)].matchId \in Matches
  BY <1>2, WatcherConstants
<1>. QED  BY <1>1, <1>2, <1>3 DEF Typed

\* Reports are in the order of the closes they report.
LEMMA ProducedInOrder ==
    ASSUME Typed, LogsInOrder, StartTime > 0
    PROVE  /\ \A i \in Logs : ReportProducedAt(closedLog[i]) \in Nat \ {0}
           /\ \A i, j \in Logs :
                 i < j => ReportProducedAt(closedLog[i]) < ReportProducedAt(closedLog[j])
<1>1. TxsPerBlock \in Nat /\ TxsPerBlock > 0 /\ StartTime \in Nat
  BY WatcherConstants, ChainConstants
<1>2. ASSUME NEW i \in Logs
      PROVE  ReportProducedAt(closedLog[i]) \in Nat \ {0}
  <2>1. closedLog[i].block \in Nat /\ closedLog[i].txIndex \in Nat
    BY LogTyped
  <2>2. closedLog[i].block > 0
    <3>1. closedLog[i].block \in StartTime..now
      BY DEF LogsInOrder
    <3>. QED  BY <1>1, <2>1, <3>1
  <2>. DEFINE b == closedLog[i].block
             x == closedLog[i].txIndex
  <2>3. b * TxsPerBlock \in Nat /\ b * TxsPerBlock > 0
    <3>. HIDE DEF b
    <3>. SUFFICES ASSUME b \in Nat, b > 0 PROVE b * TxsPerBlock \in Nat /\ b * TxsPerBlock > 0
      BY <2>1, <2>2 DEF b
    <3>. QED  BY <1>1
  <2>. QED  BY <2>1, <2>3 DEF ReportProducedAt
<1>3. ASSUME NEW i \in Logs, NEW j \in Logs, i < j
      PROVE  ReportProducedAt(closedLog[i]) < ReportProducedAt(closedLog[j])
  <2>. DEFINE a == closedLog[i].block
             x == closedLog[i].txIndex
             b == closedLog[j].block
             y == closedLog[j].txIndex
  <2>1. a \in Nat /\ x \in Nat /\ b \in Nat /\ y \in Nat
    BY LogTyped
  <2>2. a <= b /\ (a = b => x < y) /\ x < TxsPerBlock
    BY <1>3 DEF LogsInOrder
  <2>3. a * TxsPerBlock + x < b * TxsPerBlock + y
    <3>. HIDE DEF a, b, x, y
    <3>1. CASE a = b
      BY <1>1, <2>1, <2>2, <3>1
    <3>2. CASE a < b
      <4>1. (a + 1) * TxsPerBlock <= b * TxsPerBlock
        BY <1>1, <2>1, <3>2
      <4>2. (a + 1) * TxsPerBlock = a * TxsPerBlock + TxsPerBlock
        BY <1>1, <2>1
      <4>3. a * TxsPerBlock \in Nat /\ b * TxsPerBlock \in Nat /\ (a + 1) * TxsPerBlock \in Nat
        BY <1>1, <2>1
      <4>. QED  BY <1>1, <2>1, <2>2, <4>1, <4>2, <4>3
    <3>. QED  BY <2>1, <2>2, <3>1, <3>2
  <2>. QED  BY <2>3 DEF ReportProducedAt
<1>. QED  BY <1>2, <1>3

\* What stays in the queue when its head is removed.
LEMMA HeadRemoved ==
    ASSUME NEW S, NEW q \in Seq(S), q # <<>>
    PROVE  /\ RemoveAt(q, Current) \in Seq(S)
           /\ Len(RemoveAt(q, Current)) = Len(q) - 1
           /\ \A k \in 1..Len(q) - 1 : RemoveAt(q, Current)[k] = q[k + 1]
<1>1. SubSeq(q, 1, 0) = <<>>
  OBVIOUS
<1>2. /\ Tail(q) \in Seq(S)
      /\ Len(Tail(q)) = Len(q) - 1
      /\ \A k \in 1..Len(Tail(q)) : Tail(q)[k] = q[k + 1]
  BY HeadTailProperties
<1>3. RemoveAt(q, Current) = <<>> \o Tail(q)
  BY <1>1, TailIsSubSeq DEF RemoveAt, Current
<1>4. <<>> \o Tail(q) = Tail(q)
  BY <1>2, ConcatEmptySeq
<1>. QED  BY <1>2, <1>3, <1>4

\* A market with a log has closed, and no two logs are of one market.
LEMMA LoggedClosed ==
    ASSUME Typed, LogsInOrder, NEW i \in Logs
    PROVE  /\ markets[MarketOf(i)].state # "Open"
           /\ ~Settled(MarketOf(i)) => markets[MarketOf(i)].state = "Closed"
           /\ \A j \in Logs : MarketOf(i) = MarketOf(j) => i = j
<1>1. MarketOf(i) \in Markets
  BY LogTyped
<1>2. markets[MarketOf(i)].state # "Open"
  BY <1>1 DEF LogsInOrder
<1>3. ~Settled(MarketOf(i)) => markets[MarketOf(i)].state = "Closed"
  BY <1>1, <1>2 DEF Settled, Typed
<1>4. ASSUME NEW j \in Logs, MarketOf(i) = MarketOf(j), i # j PROVE FALSE
  <2>1. i < j \/ j < i
    BY <1>4 DEF Logs
  <2>. QED  BY <1>4, <2>1 DEF LogsInOrder
<1>. QED  BY <1>2, <1>3, <1>4

-----------------------------------------------------------------------------
(* The two properties follow *)

\* A market that is exposed and not settled has not been passed over: the
\* receiver's last report of its match was of an earlier close.
LEMMA FreshWhileExposed ==
    ASSUME Typed, LogsInOrder, LastClear, StartTime > 0,
           NEW i \in Logs, ~Settled(MarketOf(i)), Exposed(MarketOf(i))
    PROVE  ReportProducedAt(closedLog[i]) > lastProducedAt[markets[MarketOf(i)].matchId]
<1>. DEFINE id == markets[MarketOf(i)].matchId
<1>1. id \in Matches
  BY LogTyped
<1>2. ReportProducedAt(closedLog[i]) \in Nat \ {0}
  BY ProducedInOrder
<1>3. CASE lastProducedAt[id] = 0
  BY <1>2, <1>3
<1>4. ASSUME NEW j \in Logs, AcceptedOf(id, j)
      PROVE  ReportProducedAt(closedLog[i]) > lastProducedAt[id]
  <2>1. i \in Nat /\ j \in Nat
    BY DEF Logs
  <2>2. ~(i < j)
    BY <1>4 DEF AcceptedOf, ClearBefore
  <2>3. i # j
    BY <1>4 DEF AcceptedOf
  <2>4. j < i
    BY <2>1, <2>2, <2>3
  <2>5. ReportProducedAt(closedLog[j]) < ReportProducedAt(closedLog[i])
    BY <2>4, ProducedInOrder
  <2>6. ReportProducedAt(closedLog[j]) \in Nat
    BY ProducedInOrder
  <2>. QED  BY <1>2, <1>4, <2>5, <2>6 DEF AcceptedOf
<1>. QED  BY <1>1, <1>3, <1>4 DEF LastClear

LEMMA QueuedLogs ==
    ASSUME Typed, QueueInOrder, NEW k \in 1..Len(queue)
    PROVE  /\ queue[k].at \in Logs
           /\ queue[k].market = MarketOf(queue[k].at)
<1>1. queue[k].at \in 1..cursor /\ cursor \in 0..Len(closedLog) /\ Len(closedLog) \in Nat
  BY DEF QueueInOrder, Typed
<1>. QED  BY <1>1 DEF QueueInOrder, Logs

LEMMA NeverStale ==
    ASSUME WatchInv, StartTime > 0
    PROVE  PendingNeverStale
<1>. SUFFICES ASSUME NEW k \in DOMAIN queue,
                    ~Settled(queue[k].market), Exposed(queue[k].market)
              PROVE  ReportProducedAt(closedLog[queue[k].at])
                        > lastProducedAt[markets[queue[k].market].matchId]
  BY DEF PendingNeverStale
<1>1. k \in 1..Len(queue)
  BY DEF WatchInv, Typed
<1>. QED  BY <1>1, QueuedLogs, FreshWhileExposed DEF WatchInv

-----------------------------------------------------------------------------
(* What a step of anybody leaves of the logs, and what that keeps *)

Onward ==
    /\ Len(closedLog') >= Len(closedLog)
    /\ \A i \in Logs :
          /\ closedLog'[i] = closedLog[i]
          /\ Exposed(MarketOf(i))' => Exposed(MarketOf(i))
          /\ Settled(MarketOf(i)) => Settled(MarketOf(i))'
          /\ ~Settled(MarketOf(i)) /\ Exposed(MarketOf(i)) => Exposed(MarketOf(i))'

LEMMA OnwardStill ==
    ASSUME Typed, UNCHANGED <<closedLog, openBets, markets>>
    PROVE  Onward
<1>1. Len(closedLog) \in Nat
  BY DEF Typed
<1>. QED  BY <1>1 DEF Onward, MarketOf, Exposed, Settled

LEMMA LogsCounted ==
    ASSUME Typed
    PROVE  Len(closedLog) \in Nat /\ cursor \in 0..Len(closedLog) /\ Len(queue) \in Nat
<1>1. closedLog \in Seq([market : Markets, block : Nat, txIndex : Nat])
  BY DEF Typed
<1>2. queue \in Seq([market : Markets, at : Nat, stage : {"report", "bets"}, attempts : Nat])
  BY DEF Typed
<1>. QED  BY <1>1, <1>2 DEF Typed

LEMMA LogsCountedNext ==
    ASSUME Typed'
    PROVE  Len(closedLog') \in Nat /\ cursor' \in 0..Len(closedLog') /\ Len(queue') \in Nat
<1>1. closedLog' \in Seq([market : Markets, block : Nat, txIndex : Nat])
  BY DEF Typed
<1>2. queue' \in Seq([market : Markets, at : Nat, stage : {"report", "bets"}, attempts : Nat])
  BY DEF Typed
<1>. QED  BY <1>1, <1>2 DEF Typed

LEMMA LogKept ==
    ASSUME Typed, Typed', Onward, NEW j \in Logs
    PROVE  /\ j \in Logs'
           /\ MarketOf(j)' = MarketOf(j)
           /\ markets[MarketOf(j)].matchId' = markets[MarketOf(j)].matchId
           /\ \A outcome : Report(closedLog[j], outcome)' = Report(closedLog[j], outcome)
           /\ ReportProducedAt(closedLog[j])' = ReportProducedAt(closedLog[j])
           /\ ClearBefore(j) => ClearBefore(j)'
<1>1. Len(closedLog) \in Nat /\ Len(closedLog') \in Nat
  BY LogsCounted, LogsCountedNext
<1>2. j \in Logs'
  BY <1>1 DEF Onward, Logs
<1>3. MarketOf(j)' = MarketOf(j) /\ closedLog'[j] = closedLog[j]
  BY DEF Onward, MarketOf
<1>4. MarketOf(j) \in Markets
  BY LogTyped
<1>5. markets[MarketOf(j)].matchId' = markets[MarketOf(j)].matchId
  BY <1>3, <1>4 DEF Typed
<1>6. ASSUME NEW outcome
      PROVE  Report(closedLog[j], outcome)' = Report(closedLog[j], outcome)
  BY <1>3, <1>5 DEF Report, ReportProducedAt, MarketOf
<1>7. ReportProducedAt(closedLog[j])' = ReportProducedAt(closedLog[j])
  BY <1>3 DEF ReportProducedAt
<1>8. ASSUME ClearBefore(j) PROVE ClearBefore(j)'
  <2>. SUFFICES ASSUME NEW i \in Logs', i < j PROVE ~Exposed(MarketOf(i))'
    BY DEF ClearBefore
  <2>1. i \in Logs
    BY <1>1, <1>2 DEF Logs
  <2>. QED  BY <1>8, <2>1 DEF ClearBefore, Onward
<1>. QED  BY <1>2, <1>3, <1>5, <1>6, <1>7, <1>8

LEMMA FlightKept ==
    ASSUME Typed, Typed', Onward, FlightClear, flight' \subseteq flight,
           UNCHANGED <<simNonce, simAttestor>>,
           \A i \in Logs : Settled(MarketOf(i))' => Settled(MarketOf(i))
    PROVE  FlightClear'
<1>. SUFFICES ASSUME NEW r \in flight'
              PROVE  \E j \in Logs', outcome \in {"Yes", "No", "Void"}, nonce \in Nat :
                        SentOf(r, j, outcome, nonce)'
  BY DEF FlightClear
<1>1. PICK j \in Logs, outcome \in {"Yes", "No", "Void"}, nonce \in Nat :
        SentOf(r, j, outcome, nonce)
  BY DEF FlightClear
<1>2. /\ j \in Logs'
      /\ MarketOf(j)' = MarketOf(j)
      /\ markets[MarketOf(j)].matchId' = markets[MarketOf(j)].matchId
      /\ Report(closedLog[j], outcome)' = Report(closedLog[j], outcome)
      /\ ClearBefore(j) => ClearBefore(j)'
  BY LogKept
<1>3. nonce = simNonce[markets[MarketOf(j)].matchId] =>
         ~Settled(MarketOf(j))' /\ Exposed(MarketOf(j))'
  BY <1>1, <1>2 DEF SentOf, Onward
<1>4. SentOf(r, j, outcome, nonce)'
  BY <1>1, <1>2, <1>3 DEF SentOf
<1>. QED  BY <1>2, <1>4

LEMMA LastKept ==
    ASSUME Typed, Typed', Onward, LastClear, UNCHANGED lastProducedAt
    PROVE  LastClear'
<1>. SUFFICES ASSUME NEW id \in Matches, lastProducedAt[id] # 0
              PROVE  \E j \in Logs' : AcceptedOf(id, j)'
  BY DEF LastClear
<1>1. PICK j \in Logs : AcceptedOf(id, j)
  BY DEF LastClear
<1>2. /\ j \in Logs'
      /\ MarketOf(j)' = MarketOf(j)
      /\ markets[MarketOf(j)].matchId' = markets[MarketOf(j)].matchId
      /\ ReportProducedAt(closedLog[j])' = ReportProducedAt(closedLog[j])
      /\ ClearBefore(j) => ClearBefore(j)'
  BY LogKept
<1>3. AcceptedOf(id, j)'
  BY <1>1, <1>2 DEF AcceptedOf, Onward
<1>. QED  BY <1>2, <1>3

LEMMA QueueKept ==
    ASSUME Typed, Typed', Onward, QueueInOrder, NothingForgotten,
           UNCHANGED <<queue, cursor, step>>
    PROVE  QueueInOrder' /\ NothingForgotten'
<1>1. Len(closedLog) \in Nat /\ Len(closedLog') \in Nat /\ cursor \in 0..Len(closedLog)
  BY LogsCounted, LogsCountedNext
<1>2. ASSUME NEW k \in 1..Len(queue)
      PROVE  queue[k].market = MarketOf(queue[k].at)'
  BY QueuedLogs, LogKept
<1>3. QueueInOrder'
  BY <1>2 DEF QueueInOrder
<1>4. ASSUME NEW i \in 1..Len(closedLog'), Exposed(MarketOf(i))'
      PROVE  i > cursor \/ step = "Down" \/ \E k \in DOMAIN queue : queue[k].at = i
  <2>1. CASE i \in Logs
    BY <1>4, <2>1 DEF NothingForgotten, Onward, Logs, MarketOf
  <2>2. CASE i \notin Logs
    BY <1>1, <2>2 DEF Logs
  <2>. QED  BY <2>1, <2>2
<1>5. NothingForgotten'
  BY <1>4 DEF NothingForgotten, MarketOf
<1>. QED  BY <1>3, <1>5

-----------------------------------------------------------------------------
(* The head of the queue *)

Pending == [market : Markets, at : Nat, stage : {"report", "bets"}, attempts : Nat]

LEMMA HeadTyped ==
    ASSUME Typed, QueueInOrder, queue # <<>>
    PROVE  /\ queue \in Seq(Pending) /\ Len(queue) \in Nat /\ Len(queue) > 0
           /\ DOMAIN queue = 1..Len(queue)
           /\ HeadItem \in Pending /\ HeadItem = queue[1]
           /\ HeadItem.at \in Logs /\ HeadItem.market = MarketOf(HeadItem.at)
           /\ HeadItem.market \in Markets /\ HeadItem.attempts \in Nat
           /\ markets[HeadItem.market].matchId \in Matches
<1>1. queue \in Seq(Pending)
  BY DEF Typed, Pending
<1>2. Len(queue) \in Nat /\ Len(queue) > 0 /\ DOMAIN queue = 1..Len(queue)
  BY <1>1
<1>3. 1 \in 1..Len(queue)
  BY <1>2
<1>4. HeadItem \in Pending /\ HeadItem = queue[1]
  BY <1>1, <1>3, ElementOfSeq DEF HeadItem, Current
<1>5. HeadItem.at \in Logs /\ HeadItem.market = MarketOf(HeadItem.at)
  BY <1>3, <1>4, QueuedLogs
<1>6. HeadItem.market \in Markets /\ HeadItem.attempts \in Nat
  BY <1>4 DEF Pending
<1>7. markets[HeadItem.market].matchId \in Matches
  BY <1>5, LogTyped
<1>. QED  BY <1>1, <1>2, <1>4, <1>5, <1>6, <1>7

\* Everything that closed before the head has been dealt with.
LEMMA HeadClear ==
    ASSUME Typed, QueueInOrder, NothingForgotten, queue # <<>>, step # "Down"
    PROVE  ClearBefore(HeadItem.at)
<1>. SUFFICES ASSUME NEW i \in Logs, i < HeadItem.at, Exposed(MarketOf(i)) PROVE FALSE
  BY DEF ClearBefore
<1>1. HeadItem = queue[1] /\ Len(queue) \in Nat /\ Len(queue) > 0 /\ DOMAIN queue = 1..Len(queue)
  BY HeadTyped
<1>2. queue[1].at \in 1..cursor /\ cursor \in Nat
  BY <1>1, LogsCounted DEF QueueInOrder
<1>3. i <= cursor
  BY <1>1, <1>2 DEF Logs
<1>4. PICK k \in 1..Len(queue) : queue[k].at = i
  BY <1>1, <1>2, <1>3 DEF NothingForgotten, Logs, MarketOf
<1>5. k = 1 \/ queue[1].at < queue[k].at
  BY <1>1, <1>4 DEF QueueInOrder
<1>. QED  BY <1>1, <1>2, <1>4, <1>5 DEF Logs

LEMMA SubmissionKept ==
    ASSUME Typed, Typed', Onward, QueueInOrder, queue # <<>>,
           UNCHANGED <<queue, crashes, simAttestor>>,
           simNonce'[markets[HeadItem.market].matchId] = simNonce[markets[HeadItem.market].matchId]
    PROVE  \A outcome : Submission(HeadItem, outcome)' = Submission(HeadItem, outcome)
<1>. TAKE outcome
<1>1. HeadItem' = HeadItem
  BY DEF HeadItem, Current
<1>2. HeadItem.at \in Logs /\ HeadItem.market = MarketOf(HeadItem.at)
  BY HeadTyped
<1>3. /\ markets'[HeadItem.market].matchId = markets[HeadItem.market].matchId
      /\ Report(closedLog[HeadItem.at], outcome)' = Report(closedLog[HeadItem.at], outcome)
  BY <1>1, <1>2, LogKept
<1>4. Attestation(markets[HeadItem.market].matchId)' = Attestation(markets[HeadItem.market].matchId)
  BY <1>1, <1>3 DEF Attestation
<1>5. ThisRun' = ThisRun
  BY <1>1 DEF ThisRun
<1>. QED  BY <1>1, <1>3, <1>4, <1>5 DEF Submission

LEMMA HeadKept ==
    ASSUME Typed, Typed', Onward, QueueInOrder, HeadOnTime,
           UNCHANGED <<queue, step>>, faults' >= faults,
           queue # <<>> /\ step \in {"Running", "Settling"} /\ CaughtUp(HeadItem.market) =>
              CaughtUp(HeadItem.market)',
           \A outcome \in {"Yes", "No", "Void"} :
              queue # <<>> /\ Submission(HeadItem, outcome) \in flight =>
                 \/ Submission(HeadItem, outcome)' \in flight'
                 \/ Settled(HeadItem.market)'
                 \/ faults' > faults
    PROVE  HeadOnTime'
<1>. SUFFICES ASSUME queue # <<>>
              PROVE  /\ HeadItem.attempts <= IndexLag + faults'
                     /\ HeadItem.stage = "bets" \/ step = "Settling" => Settled(HeadItem.market)'
                     /\ step \in {"Running", "Settling"} /\ HeadItem.attempts >= IndexLag =>
                           CaughtUp(HeadItem.market)'
                     /\ step = "Running" =>
                           \/ Settled(HeadItem.market)'
                           \/ HeadItem.attempts + 1 <= IndexLag + faults'
                           \/ \E outcome \in {"Yes", "No", "Void"} :
                                 Submission(HeadItem, outcome)' \in flight'
  BY DEF HeadOnTime, HeadItem, Current
<1>1. /\ HeadItem.at \in Logs /\ HeadItem.market = MarketOf(HeadItem.at)
      /\ HeadItem.attempts \in Nat
  BY HeadTyped
<1>2. faults \in Nat /\ faults' \in Nat /\ IndexLag \in Nat
  BY WatcherConstants DEF Typed
<1>3. Settled(HeadItem.market) => Settled(HeadItem.market)'
  <2>1. HeadItem' = HeadItem
    BY DEF HeadItem, Current
  <2>2. closedLog'[HeadItem.at] = closedLog[HeadItem.at]
    BY <1>1 DEF Onward
  <2>. QED  BY <1>1, <2>1, <2>2 DEF Onward, MarketOf
<1>4. HeadItem.attempts <= IndexLag + faults'
  BY <1>1, <1>2 DEF HeadOnTime
<1>5. HeadItem.stage = "bets" \/ step = "Settling" => Settled(HeadItem.market)'
  BY <1>3 DEF HeadOnTime
<1>6. step \in {"Running", "Settling"} /\ HeadItem.attempts >= IndexLag => CaughtUp(HeadItem.market)'
  BY DEF HeadOnTime
<1>7. ASSUME step = "Running"
      PROVE  \/ Settled(HeadItem.market)'
             \/ HeadItem.attempts + 1 <= IndexLag + faults'
             \/ \E outcome \in {"Yes", "No", "Void"} : Submission(HeadItem, outcome)' \in flight'
  <2>1. CASE Settled(HeadItem.market)
    BY <1>3, <2>1
  <2>2. CASE HeadItem.attempts + 1 <= IndexLag + faults
    BY <1>1, <1>2, <2>2
  <2>3. ASSUME NEW outcome \in {"Yes", "No", "Void"}, Submission(HeadItem, outcome) \in flight
        PROVE  \/ Settled(HeadItem.market)'
               \/ HeadItem.attempts + 1 <= IndexLag + faults'
               \/ Submission(HeadItem, outcome)' \in flight'
    <3>1. CASE faults' > faults
      BY <1>1, <1>2, <3>1 DEF HeadOnTime
    <3>. QED  BY <2>3, <3>1
  <2>. QED  BY <1>7, <2>1, <2>2, <2>3 DEF HeadOnTime
<1>. QED  BY <1>4, <1>5, <1>6, <1>7

\* The head is noted to have come further, or to have failed once more.
LEMMA HeadNoted ==
    ASSUME Typed, Onward, QueueInOrder, NothingForgotten, queue # <<>>,
           NEW e \in Pending, e.at = HeadItem.at, e.market = HeadItem.market,
           queue' = [queue EXCEPT ![Current] = e], step # "Down", step' # "Down",
           UNCHANGED <<cursor, closedLog>>
    PROVE  /\ queue' \in Seq(Pending) /\ queue' # <<>> /\ queue'[Current] = e
           /\ QueueInOrder' /\ NothingForgotten'
<1>1. /\ queue \in Seq(Pending) /\ Len(queue) \in Nat /\ Len(queue) > 0
      /\ DOMAIN queue = 1..Len(queue) /\ HeadItem = queue[1]
  BY HeadTyped
<1>2. /\ queue' \in Seq(Pending) /\ Len(queue') = Len(queue)
      /\ \A k \in 1..Len(queue) : queue'[k] = IF k = 1 THEN e ELSE queue[k]
  BY <1>1, ExceptSeq DEF Current
<1>3. queue'[Current] = e /\ queue' # <<>> /\ DOMAIN queue' = 1..Len(queue)
  BY <1>1, <1>2 DEF Current
<1>4. \A k \in 1..Len(queue) : queue'[k].at = queue[k].at /\ queue'[k].market = queue[k].market
  BY <1>1, <1>2
<1>5. QueueInOrder'
  <2>1. ASSUME NEW k \in 1..Len(queue')
        PROVE  /\ queue'[k].at \in 1..cursor'
               /\ queue'[k].market = MarketOf(queue[k].at)'
               /\ k > 1 => queue'[k].stage = "report" /\ queue'[k].attempts = 0
    BY <1>2, <1>4 DEF QueueInOrder, MarketOf
  <2>2. ASSUME NEW k \in 1..Len(queue'), NEW l \in 1..Len(queue'), k < l
        PROVE  queue'[k].at < queue'[l].at
    BY <1>2, <1>4, <2>2 DEF QueueInOrder
  <2>. QED  BY <1>3, <2>1, <2>2 DEF QueueInOrder
<1>6. ASSUME NEW i \in 1..Len(closedLog'), Exposed(closedLog[i].market)'
      PROVE  i > cursor' \/ step' = "Down" \/ \E k \in DOMAIN queue' : queue'[k].at = i
  <2>1. Exposed(closedLog[i].market)
    BY <1>6 DEF Onward, MarketOf, Logs
  <2>2. i > cursor \/ \E k \in DOMAIN queue : queue[k].at = i
    BY <2>1 DEF NothingForgotten
  <2>. QED  BY <1>1, <1>3, <1>4, <2>2
<1>. QED  BY <1>2, <1>3, <1>5, <1>6 DEF NothingForgotten

\* The head leaves the queue with nothing exposed on its market.
LEMMA HeadLeaves ==
    ASSUME Typed, Onward, QueueInOrder, NothingForgotten, queue # <<>>,
           queue' = RemoveAt(queue, Current), step # "Down", step' = "Idle",
           NEW h, h = HeadItem.at, ~Exposed(MarketOf(h))', faults' \in Nat,
           UNCHANGED <<cursor, closedLog>>
    PROVE  /\ queue' \in Seq(Pending)
           /\ QueueInOrder' /\ NothingForgotten' /\ HeadOnTime'
<1>1. /\ queue \in Seq(Pending) /\ Len(queue) \in Nat /\ Len(queue) > 0
      /\ DOMAIN queue = 1..Len(queue) /\ HeadItem = queue[1]
  BY HeadTyped
<1>2. /\ queue' \in Seq(Pending) /\ Len(queue') = Len(queue) - 1
      /\ \A k \in 1..Len(queue) - 1 : queue'[k] = queue[k + 1]
  BY <1>1, HeadRemoved
<1>3. DOMAIN queue' = 1..Len(queue) - 1
  BY <1>1, <1>2
<1>4. ASSUME NEW k \in 1..Len(queue')
      PROVE  /\ k + 1 \in 1..Len(queue) /\ queue'[k] = queue[k + 1] /\ k + 1 > 1
             /\ queue'[k].at \in 1..cursor'
             /\ queue'[k].market = MarketOf(queue[k].at)'
             /\ queue'[k].stage = "report" /\ queue'[k].attempts = 0
  <2>1. k + 1 \in 1..Len(queue) /\ queue'[k] = queue[k + 1] /\ k + 1 > 1
    BY <1>1, <1>2
  <2>. QED  BY <2>1 DEF QueueInOrder, MarketOf
<1>5. QueueInOrder'
  <2>1. ASSUME NEW k \in 1..Len(queue'), NEW l \in 1..Len(queue'), k < l
        PROVE  queue'[k].at < queue'[l].at
    <3>1. /\ k + 1 \in 1..Len(queue) /\ queue'[k] = queue[k + 1]
          /\ l + 1 \in 1..Len(queue) /\ queue'[l] = queue[l + 1] /\ k + 1 < l + 1
      BY <1>4, <2>1
    <3>. QED  BY <3>1 DEF QueueInOrder
  <2>. QED  BY <1>4, <2>1 DEF QueueInOrder
<1>6. ASSUME NEW i \in 1..Len(closedLog'), Exposed(closedLog[i].market)'
      PROVE  i > cursor' \/ step' = "Down" \/ \E k \in DOMAIN queue' : queue'[k].at = i
  <2>1. Exposed(closedLog[i].market)
    BY <1>6 DEF Onward, MarketOf, Logs
  <2>2. CASE i > cursor
    BY <2>2
  <2>3. ASSUME NEW k \in DOMAIN queue, queue[k].at = i
        PROVE  \E l \in DOMAIN queue' : queue'[l].at = i
    <3>1. k # 1
      BY <1>1, <1>6, <2>3 DEF MarketOf
    <3>2. k - 1 \in 1..Len(queue) - 1 /\ k - 1 + 1 = k
      BY <1>1, <3>1
    <3>3. queue'[k - 1] = queue[k]
      BY <1>2, <3>2
    <3>. QED  BY <1>3, <2>3, <3>2, <3>3
  <2>. QED  BY <2>1, <2>2, <2>3 DEF NothingForgotten
<1>7. NothingForgotten'
  BY <1>6 DEF NothingForgotten
<1>8. HeadOnTime'
  <2>. SUFFICES ASSUME queue' # <<>> PROVE HeadOnTime'
    BY DEF HeadOnTime
  <2>1. 1 \in 1..Len(queue')
    BY <1>2
  <2>2. HeadItem'.stage = "report" /\ HeadItem'.attempts = 0
    BY <1>4, <2>1 DEF HeadItem, Current
  <2>3. 0 <= IndexLag + faults'
    <3>1. \A lag, n \in Nat : 0 <= lag + n
      OBVIOUS
    <3>. QED  BY <3>1, WatcherConstants
  <2>4. step' = "Idle"
    OBVIOUS
  <2>. QED  BY <2>2, <2>3, <2>4 DEF HeadOnTime
<1>. QED  BY <1>2, <1>5, <1>7, <1>8

-----------------------------------------------------------------------------
(* Everybody else: bettors, closers, blocks, the indexer, the receiver *)

LEMMA LogsKept ==
    ASSUME Typed, LogsInOrder, UNCHANGED closedLog, now' \in Nat, now' >= now,
           \A m \in Markets : markets'[m].state = "Open" <=> markets[m].state = "Open"
    PROVE  LogsInOrder'
<1>1. /\ Logs' = Logs
      /\ \A i : MarketOf(i)' = MarketOf(i)
      /\ \A b : ClosedInBlock(b)' = ClosedInBlock(b)
  BY DEF Logs, MarketOf, ClosedInBlock
<1>2. \A m \in Markets : markets'[m].state = "Open" <=> \A i \in Logs : MarketOf(i) # m
  BY DEF LogsInOrder
<1>3. ASSUME NEW i \in Logs
      PROVE  /\ closedLog[i].block \in StartTime..now'
             /\ closedLog[i].txIndex < TxsPerBlock
             /\ closedLog[i].txIndex < Cardinality(ClosedInBlock(closedLog[i].block))
  <2>1. now \in Nat
    BY DEF Typed
  <2>2. \A b \in StartTime..now : b \in StartTime..now'
    BY <2>1, ChainConstants
  <2>. QED  BY <2>2 DEF LogsInOrder
<1>4. ASSUME NEW i \in Logs, NEW j \in Logs, i < j
      PROVE  /\ MarketOf(i) # MarketOf(j)
             /\ closedLog[i].block <= closedLog[j].block
             /\ closedLog[i].block = closedLog[j].block =>
                   closedLog[i].txIndex < closedLog[j].txIndex
  BY <1>4 DEF LogsInOrder
<1>5. closedLog' = closedLog
  OBVIOUS
<1>. QED  BY <1>1, <1>2, <1>3, <1>4, <1>5 DEF LogsInOrder

LEMMA BetKeeps ==
    ASSUME WatchInv, NEW w \in Wagers, Bet(w)
    PROVE  WatchInv'
<1>1. /\ Typed /\ LogsInOrder /\ FlightClear /\ LastClear
      /\ QueueInOrder /\ HeadOnTime /\ NothingForgotten
  BY DEF WatchInv
<1>2. /\ openBets' = openBets \cup {w}
      /\ markets[w.market].state = "Open"
      /\ UNCHANGED <<now, markets, matchCount, simEnabled, simAttestor, productionLocked,
                     expectedWorkflow, lastProducedAt, simNonce>>
      /\ UNCHANGED <<closedLog, indexed, flight, cursor, queue, step, faults, crashes>>
  BY DEF Bet, IsBettable, marketVars, receiverVars, watcherVars
<1>3. Typed'
  BY <1>1, <1>2 DEF Typed
<1>4. ASSUME NEW i \in Logs
      PROVE  MarketOf(i) # w.market
  BY <1>1, <1>2, LoggedClosed
<1>5. Onward
  <2>1. \A i \in Logs : Exposed(MarketOf(i))' <=> Exposed(MarketOf(i))
    BY <1>2, <1>4 DEF Exposed, MarketOf
  <2>. QED  BY <1>1, <1>2, <2>1, LogsCounted DEF Onward, MarketOf, Settled
<1>6. LogsInOrder'
  <2>1. now' \in Nat /\ now' >= now
    BY <1>1, <1>2 DEF Typed
  <2>. QED  BY <1>1, <1>2, <2>1, LogsKept
<1>7. FlightClear'
  BY <1>1, <1>2, <1>3, <1>5, FlightKept DEF MarketOf, Settled
<1>8. LastClear'
  BY <1>1, <1>2, <1>3, <1>5, LastKept
<1>9. QueueInOrder' /\ NothingForgotten'
  BY <1>1, <1>2, <1>3, <1>5, QueueKept
<1>10. HeadOnTime'
  <2>1. ASSUME queue # <<>>, CaughtUp(HeadItem.market)
        PROVE  CaughtUp(HeadItem.market)'
    <3>1. HeadItem.market # w.market /\ HeadItem' = HeadItem
      BY <1>1, <1>2, <1>4, <2>1, HeadTyped DEF HeadItem, Current
    <3>. QED  BY <1>2, <2>1, <3>1 DEF CaughtUp, Mapped
  <2>2. ASSUME queue # <<>>, NEW outcome
        PROVE  Submission(HeadItem, outcome)' = Submission(HeadItem, outcome)
    BY <1>1, <1>2, <1>3, <1>5, <2>2, SubmissionKept
  <2>3. faults' >= faults
    BY <1>1, <1>2 DEF Typed
  <2>. QED  BY <1>1, <1>2, <1>3, <1>5, <2>1, <2>2, <2>3, HeadKept
<1>. QED  BY <1>3, <1>6, <1>7, <1>8, <1>9, <1>10 DEF WatchInv

LEMMA TickKeeps ==
    ASSUME WatchInv, Tick
    PROVE  WatchInv'
<1>1. /\ Typed /\ LogsInOrder /\ FlightClear /\ LastClear
      /\ QueueInOrder /\ HeadOnTime /\ NothingForgotten
  BY DEF WatchInv
<1>2. /\ now' = now + 1
      /\ UNCHANGED <<markets, matchCount, simEnabled, simAttestor, productionLocked,
                     expectedWorkflow, lastProducedAt, simNonce>>
      /\ UNCHANGED <<openBets, closedLog, indexed, flight, cursor, queue, step, faults, crashes>>
  BY DEF Tick, TickBlock, marketVars, receiverVars, watcherVars
<1>3. Typed'
  <2>1. now' \in Nat /\ now' >= StartTime
    BY <1>1, <1>2, ChainConstants DEF Typed
  <2>. QED  BY <1>1, <1>2, <2>1 DEF Typed
<1>4. Onward
  BY <1>1, <1>2, OnwardStill
<1>5. LogsInOrder'
  <2>1. now' \in Nat /\ now' >= now
    BY <1>1, <1>2 DEF Typed
  <2>. QED  BY <1>1, <1>2, <2>1, LogsKept
<1>6. FlightClear'
  BY <1>1, <1>2, <1>3, <1>4, FlightKept DEF MarketOf, Settled
<1>7. LastClear'
  BY <1>1, <1>2, <1>3, <1>4, LastKept
<1>8. QueueInOrder' /\ NothingForgotten'
  BY <1>1, <1>2, <1>3, <1>4, QueueKept
<1>9. HeadOnTime'
  <2>1. CaughtUp(HeadItem.market) => CaughtUp(HeadItem.market)'
    BY <1>2 DEF CaughtUp, Mapped, HeadItem, Current
  <2>2. ASSUME queue # <<>>, NEW outcome
        PROVE  Submission(HeadItem, outcome)' = Submission(HeadItem, outcome)
    BY <1>1, <1>2, <1>3, <1>4, <2>2, SubmissionKept
  <2>3. faults' >= faults
    BY <1>1, <1>2 DEF Typed
  <2>. QED  BY <1>1, <1>2, <1>3, <1>4, <2>1, <2>2, <2>3, HeadKept
<1>. QED  BY <1>3, <1>5, <1>6, <1>7, <1>8, <1>9 DEF WatchInv

LEMMA IndexKeeps ==
    ASSUME WatchInv, Index
    PROVE  WatchInv'
<1>1. /\ Typed /\ LogsInOrder /\ FlightClear /\ LastClear
      /\ QueueInOrder /\ HeadOnTime /\ NothingForgotten
  BY DEF WatchInv
<1>2. /\ indexed' = ChainView
      /\ UNCHANGED <<now, markets, matchCount, simEnabled, simAttestor, productionLocked,
                     expectedWorkflow, lastProducedAt, simNonce>>
      /\ UNCHANGED <<openBets, closedLog, flight, cursor, queue, step, faults, crashes>>
  BY DEF Index, marketVars, receiverVars, watcherVars
<1>3. Typed'
  <2>1. matchCount \in Nat
    BY <1>1, MarketConstants DEF Typed
  <2>2. ChainView \in [matchCount : Nat, running : SUBSET Markets, openBets : SUBSET Wagers]
    BY <1>1, <2>1 DEF ChainView, Typed
  <2>. QED  BY <1>1, <1>2, <2>2 DEF Typed
<1>4. Onward
  BY <1>1, <1>2, OnwardStill
<1>5. LogsInOrder'
  <2>1. now' \in Nat /\ now' >= now
    BY <1>1, <1>2 DEF Typed
  <2>. QED  BY <1>1, <1>2, <2>1, LogsKept
<1>6. FlightClear'
  BY <1>1, <1>2, <1>3, <1>4, FlightKept DEF MarketOf, Settled
<1>7. LastClear'
  BY <1>1, <1>2, <1>3, <1>4, LastKept
<1>8. QueueInOrder' /\ NothingForgotten'
  BY <1>1, <1>2, <1>3, <1>4, QueueKept
<1>9. HeadOnTime'
  <2>1. ASSUME queue # <<>> PROVE CaughtUp(HeadItem.market)'
    <3>1. markets[HeadItem.market].matchId \in Matches /\ HeadItem' = HeadItem
      BY <1>1, <1>2, <2>1, HeadTyped DEF HeadItem, Current
    <3>2. markets[HeadItem.market].matchId <= matchCount
      BY <1>1, <3>1 DEF Typed
    <3>. QED  BY <1>2, <3>1, <3>2 DEF CaughtUp, Mapped, ChainView
  <2>2. ASSUME queue # <<>>, NEW outcome
        PROVE  Submission(HeadItem, outcome)' = Submission(HeadItem, outcome)
    BY <1>1, <1>2, <1>3, <1>4, <2>2, SubmissionKept
  <2>3. faults' >= faults
    BY <1>1, <1>2 DEF Typed
  <2>. QED  BY <1>1, <1>2, <1>3, <1>4, <2>1, <2>2, <2>3, HeadKept
<1>. QED  BY <1>3, <1>5, <1>6, <1>7, <1>8, <1>9 DEF WatchInv

LEMMA DropKeeps ==
    ASSUME WatchInv, NEW r \in flight, Drop(r)
    PROVE  WatchInv'
<1>1. /\ Typed /\ LogsInOrder /\ FlightClear /\ LastClear
      /\ QueueInOrder /\ HeadOnTime /\ NothingForgotten
  BY DEF WatchInv
<1>2. /\ flight' = flight \ {r} /\ faults < MaxFaults /\ faults' = faults + 1
      /\ UNCHANGED <<now, markets, matchCount, simEnabled, simAttestor, productionLocked,
                     expectedWorkflow, lastProducedAt, simNonce>>
      /\ UNCHANGED <<openBets, closedLog, indexed, cursor, queue, step, crashes>>
  BY DEF Drop, marketVars, receiverVars, watcherVars
<1>3. faults \in Nat /\ faults' \in 0..MaxFaults /\ faults' > faults /\ faults' >= faults
  BY <1>1, <1>2, WatcherConstants DEF Typed
<1>4. Typed'
  BY <1>1, <1>2, <1>3 DEF Typed
<1>5. Onward
  BY <1>1, <1>2, OnwardStill
<1>6. LogsInOrder'
  <2>1. now' \in Nat /\ now' >= now
    BY <1>1, <1>2 DEF Typed
  <2>. QED  BY <1>1, <1>2, <2>1, LogsKept
<1>7. FlightClear'
  BY <1>1, <1>2, <1>4, <1>5, FlightKept DEF MarketOf, Settled
<1>8. LastClear'
  BY <1>1, <1>2, <1>4, <1>5, LastKept
<1>9. QueueInOrder' /\ NothingForgotten'
  BY <1>1, <1>2, <1>4, <1>5, QueueKept
<1>10. HeadOnTime'
  <2>1. CaughtUp(HeadItem.market) => CaughtUp(HeadItem.market)'
    BY <1>2 DEF CaughtUp, Mapped, HeadItem, Current
  <2>. QED  BY <1>1, <1>2, <1>3, <1>4, <1>5, <2>1, HeadKept
<1>. QED  BY <1>4, <1>6, <1>7, <1>8, <1>9, <1>10 DEF WatchInv

-----------------------------------------------------------------------------
(* A report lands *)

\* What the workflow sent for the head, if the head is not settled yet, is what
\* the receiver wants next of its match.
LEMMA OwnReportWanted ==
    ASSUME WatchInv, StartTime > 0, queue # <<>>, ~Settled(HeadItem.market),
           NEW outcome \in {"Yes", "No", "Void"}, NEW r \in flight,
           r = Submission(HeadItem, outcome)
    PROVE  /\ Exposed(HeadItem.market) /\ ClearBefore(HeadItem.at)
           /\ ReportAccepted("Simulation", None, r.report, r.signature)
<1>1. /\ Typed /\ LogsInOrder /\ FlightClear /\ LastClear /\ QueueInOrder
  BY DEF WatchInv
<1>2. /\ HeadItem.at \in Logs /\ HeadItem.market = MarketOf(HeadItem.at)
      /\ HeadItem.market \in Markets
  BY <1>1, HeadTyped
<1>. DEFINE match == markets[HeadItem.market].matchId
<1>3. /\ r.report = Report(closedLog[HeadItem.at], outcome)
      /\ r.signature = [key |-> simAttestor, nonce |-> simNonce[match]]
  BY DEF Submission, Attestation
<1>4. /\ r.report.matchId = match
      /\ r.report.producedAt = ReportProducedAt(closedLog[HeadItem.at])
      /\ r.report.markets[1].marketId = HeadItem.market
      /\ Len(r.report.markets) = 1
  BY <1>2, <1>3 DEF Report, MarketOf
<1>5. PICK j \in Logs, o \in {"Yes", "No", "Void"}, n \in Nat : SentOf(r, j, o, n)
  BY <1>1 DEF FlightClear
<1>6. r.report.markets[1].marketId = MarketOf(j)
  BY <1>5 DEF SentOf, Report, MarketOf
<1>7. j = HeadItem.at
  BY <1>1, <1>2, <1>4, <1>6, LoggedClosed
<1>8. n = simNonce[match]
  <2>1. r.signature = [key |-> simAttestor, nonce |-> n]
    BY <1>5 DEF SentOf
  <2>2. r.signature.nonce = n /\ r.signature.nonce = simNonce[match]
    BY <1>3, <2>1
  <2>. QED  BY <2>2
<1>9. Exposed(HeadItem.market) /\ ClearBefore(HeadItem.at)
  BY <1>2, <1>5, <1>7, <1>8 DEF SentOf
<1>10. Fresh(r.report)
  BY <1>1, <1>2, <1>4, <1>9, FreshWhileExposed DEF Fresh
<1>11. ValidSimSignature(r.signature, r.report.matchId)
  BY <1>1, <1>3, <1>4 DEF ValidSimSignature, Typed
<1>12. IsAllowedForwarder("Simulation") /\ WorkflowMatches(None)
  BY <1>1 DEF IsAllowedForwarder, WorkflowMatches, Typed
<1>. QED  BY <1>4, <1>9, <1>10, <1>11, <1>12 DEF ReportAccepted

\* An accepted report settles the market it names, and the nonce moves on.
LEMMA LandedReport ==
    ASSUME Typed, LogsInOrder, NEW r, NEW j \in Logs, NEW o \in {"Yes", "No", "Void"},
           NEW n \in Nat, SentOf(r, j, o, n),
           OnReport("Simulation", None, r.report, r.signature)
    PROVE  LET match == markets[MarketOf(j)].matchId
           IN  /\ n = simNonce[match] /\ ~Settled(MarketOf(j)) /\ Exposed(MarketOf(j))
               /\ lastProducedAt' = [lastProducedAt EXCEPT ![match] = ReportProducedAt(closedLog[j])]
               /\ simNonce' = [simNonce EXCEPT ![match] = @ + 1]
               /\ \E settled \in Market :
                     /\ settled.state \in {"Resolved", "Voided"}
                     /\ settled.matchId = match
                     /\ markets' = [markets EXCEPT ![MarketOf(j)] = settled]
               /\ UNCHANGED <<matchCount, simEnabled, simAttestor, productionLocked,
                              expectedWorkflow>>
<1>. DEFINE m == MarketOf(j)
            match == markets[m].matchId
            entry == [marketId |-> m, outcome |-> OutcomeByte(o), qualifyingEventTs |-> 0]
<1>1. m \in Markets /\ markets[m] \in Market /\ match \in Matches
  BY LogTyped
<1>2. /\ r.report.matchId = match
      /\ r.report.producedAt = ReportProducedAt(closedLog[j])
      /\ r.report.markets = <<entry>>
  BY DEF SentOf, Report, MarketOf
<1>3. r.signature = [key |-> simAttestor, nonce |-> n]
  BY DEF SentOf
<1>4. n = simNonce[match]
  <2>1. r.signature = [key |-> simAttestor, nonce |-> simNonce[match]]
    BY <1>2 DEF OnReport, ReportAccepted, ValidSimSignature
  <2>2. r.signature.nonce = n /\ r.signature.nonce = simNonce[match]
    BY <1>3, <2>1
  <2>. QED  BY <2>2
<1>5. ~Settled(m) /\ Exposed(m)
  BY <1>4 DEF SentOf
<1>6. markets[m].state = "Closed"
  BY <1>5, LoggedClosed
<1>7. Applies(entry)
  <2>1. OutcomeByte(o) \in {OutcomeYes, OutcomeNo} \/ OutcomeByte(o) = OutcomeVoid
    BY DEF OutcomeByte
  <2>. QED  BY <1>6, <2>1 DEF Applies, CanResolve, CanVoid
<1>8. Decided(entry) \in Market /\ Decided(entry).matchId = match
      /\ Decided(entry).state \in {"Resolved", "Voided"}
  <2>1. OutcomeByte(o) \in {1, 2, 3}
    BY DEF OutcomeByte, OutcomeYes, OutcomeNo, OutcomeVoid
  <2>2. \A res \in {"Yes", "No"} : /\ Resolution(m, res, 0) \in Market
                                   /\ Resolution(m, res, 0).matchId = match
                                   /\ Resolution(m, res, 0).state = "Resolved"
    BY <1>1 DEF Resolution, Market, MarketStates, Outcomes
  <2>3. /\ Voiding(m) \in Market /\ Voiding(m).matchId = match
        /\ Voiding(m).state = "Voided"
    BY <1>1 DEF Voiding, Market, MarketStates, Outcomes
  <2>. QED  BY <2>1, <2>2, <2>3 DEF Decided, OutcomeYes, OutcomeNo, OutcomeVoid
<1>9. markets' = [markets EXCEPT ![m] = Decided(entry)]
  <2>. DEFINE entries == <<entry>>
              hits(k) == {i \in DOMAIN entries : entries[i].marketId = k /\ Applies(entries[i])}
  <2>1. markets' = [k \in Markets |->
                      IF hits(k) = {} THEN markets[k]
                      ELSE Decided(entries[CHOOSE i \in hits(k) : \A l \in hits(k) : i <= l])]
    BY <1>2 DEF OnReport, ApplyReport
  <2>2. hits(m) = {1}
    BY <1>7
  <2>3. \A k \in Markets : k # m => hits(k) = {}
    OBVIOUS
  <2>4. (CHOOSE i \in hits(m) : \A l \in hits(m) : i <= l) = 1
    BY <2>2
  <2>5. entries[1] = entry
    OBVIOUS
  <2>. HIDE DEF entries, hits, entry
  <2>6. DOMAIN markets = Markets
    BY DEF Typed
  <2>7. markets'[m] = Decided(entry)
    BY <1>1, <2>1, <2>2, <2>4, <2>5
  <2>8. \A k \in Markets : k # m => markets'[k] = markets[k]
    BY <2>1, <2>3
  <2>9. markets' = [k \in Markets |-> markets'[k]]
    BY <2>1
  <2>10. markets = [k \in Markets |-> markets[k]]
    BY DEF Typed
  <2>. QED  BY <1>1, <2>6, <2>7, <2>8, <2>9, <2>10
<1>10. lastProducedAt' = [lastProducedAt EXCEPT ![match] = ReportProducedAt(closedLog[j])]
  BY <1>2 DEF OnReport
<1>11. simNonce' = [simNonce EXCEPT ![match] = @ + 1]
  BY <1>2 DEF OnReport
<1>12. UNCHANGED <<matchCount, simEnabled, simAttestor, productionLocked, expectedWorkflow>>
  BY DEF OnReport
<1>. HIDE DEF entry
<1>. QED  BY <1>4, <1>5, <1>8, <1>9, <1>10, <1>11, <1>12

LEMMA LandKeeps ==
    ASSUME WatchInv, StartTime > 0, NEW r \in flight, Land(r)
    PROVE  WatchInv'
<1>1. /\ Typed /\ LogsInOrder /\ FlightClear /\ LastClear
      /\ QueueInOrder /\ HeadOnTime /\ NothingForgotten
  BY DEF WatchInv
<1>2. /\ flight' = flight \ {r}
      /\ UNCHANGED <<now, openBets, closedLog, indexed, cursor, queue, step, faults, crashes>>
  BY DEF Land, watcherVars
<1>3. faults' >= faults /\ now' \in Nat /\ now' >= now
  BY <1>1, <1>2 DEF Typed
<1>4. CASE ~ReportAccepted("Simulation", None, r.report, r.signature)
  <2>1. UNCHANGED <<markets, matchCount, simEnabled, simAttestor, productionLocked,
                    expectedWorkflow, lastProducedAt, simNonce>>
    BY <1>4 DEF Land, marketVars, receiverVars
  <2>2. Typed'
    BY <1>1, <1>2, <2>1 DEF Typed
  <2>3. Onward
    BY <1>1, <1>2, <2>1, OnwardStill
  <2>4. LogsInOrder'
    BY <1>1, <1>2, <1>3, <2>1, LogsKept
  <2>5. FlightClear'
    BY <1>1, <1>2, <2>1, <2>2, <2>3, FlightKept DEF MarketOf, Settled
  <2>6. LastClear'
    BY <1>1, <2>1, <2>2, <2>3, LastKept
  <2>7. QueueInOrder' /\ NothingForgotten'
    BY <1>1, <1>2, <2>2, <2>3, QueueKept
  <2>8. HeadOnTime'
    <3>1. CaughtUp(HeadItem.market) => CaughtUp(HeadItem.market)'
      BY <1>2, <2>1 DEF CaughtUp, Mapped, HeadItem, Current
    <3>2. ASSUME queue # <<>>, NEW outcome \in {"Yes", "No", "Void"},
                 Submission(HeadItem, outcome) \in flight
          PROVE  \/ Submission(HeadItem, outcome)' \in flight'
                 \/ Settled(HeadItem.market)'
      <4>1. Submission(HeadItem, outcome)' = Submission(HeadItem, outcome)
        BY <1>1, <1>2, <2>1, <2>2, <2>3, <3>2, SubmissionKept
      <4>2. CASE Submission(HeadItem, outcome) # r
        BY <1>2, <3>2, <4>1, <4>2
      <4>3. CASE Submission(HeadItem, outcome) = r /\ ~Settled(HeadItem.market)
        BY <1>4, <3>2, <4>3, OwnReportWanted
      <4>4. CASE Settled(HeadItem.market)
        BY <1>2, <2>1, <4>4 DEF Settled, HeadItem, Current
      <4>. QED  BY <4>2, <4>3, <4>4
    <3>. QED  BY <1>1, <1>2, <1>3, <2>2, <2>3, <3>1, <3>2, HeadKept
  <2>. QED  BY <2>2, <2>4, <2>5, <2>6, <2>7, <2>8 DEF WatchInv
<1>5. CASE ReportAccepted("Simulation", None, r.report, r.signature)
  <2>. PICK j \in Logs, o \in {"Yes", "No", "Void"}, n \in Nat : SentOf(r, j, o, n)
    BY <1>1 DEF FlightClear
  <2>. DEFINE m == MarketOf(j)
              match == markets[m].matchId
  <2>1. OnReport("Simulation", None, r.report, r.signature)
    BY <1>5 DEF Land
  <2>2. /\ n = simNonce[match] /\ ~Settled(m) /\ Exposed(m)
        /\ lastProducedAt' = [lastProducedAt EXCEPT ![match] = ReportProducedAt(closedLog[j])]
        /\ simNonce' = [simNonce EXCEPT ![match] = @ + 1]
        /\ \E settled \in Market : /\ settled.state \in {"Resolved", "Voided"}
                                   /\ settled.matchId = match
                                   /\ markets' = [markets EXCEPT ![m] = settled]
        /\ UNCHANGED <<matchCount, simEnabled, simAttestor, productionLocked, expectedWorkflow>>
    BY <1>1, <2>1, LandedReport
  <2>3. m \in Markets /\ match \in Matches
    BY <1>1, LogTyped
  <2>4. /\ markets' \in [Markets -> Market]
        /\ \A k \in Markets : k # m => markets'[k] = markets[k]
        /\ markets'[m].state \in {"Resolved", "Voided"}
        /\ markets'[m].matchId = match
    BY <1>1, <2>2, <2>3 DEF Typed
  <2>5. /\ lastProducedAt' \in [Matches -> Nat]
        /\ simNonce' \in [Matches -> Nat]
        /\ lastProducedAt'[match] = ReportProducedAt(closedLog[j])
        /\ simNonce'[match] > simNonce[match]
        /\ \A id \in Matches : id # match => /\ lastProducedAt'[id] = lastProducedAt[id]
                                             /\ simNonce'[id] = simNonce[id]
    <3>1. ReportProducedAt(closedLog[j]) \in Nat
      BY <1>1, ProducedInOrder
    <3>2. /\ lastProducedAt \in [Matches -> Nat]
          /\ simNonce \in [Matches -> Nat]
      BY <1>1 DEF Typed
    <3>3. simNonce[match] \in Nat
      BY <2>3, <3>2
    <3>4. /\ lastProducedAt' \in [Matches -> Nat]
          /\ lastProducedAt'[match] = ReportProducedAt(closedLog[j])
          /\ \A id \in Matches : id # match => lastProducedAt'[id] = lastProducedAt[id]
      BY <2>2, <2>3, <3>1, <3>2
    <3>5. /\ simNonce' \in [Matches -> Nat]
          /\ simNonce'[match] > simNonce[match]
          /\ \A id \in Matches : id # match => simNonce'[id] = simNonce[id]
      BY <2>2, <2>3, <3>2, <3>3
    <3>. QED  BY <3>4, <3>5
  <2>6. Typed'
    <3>1. \A k \in Markets : /\ markets'[k].matchId = Opened[k].matchId
                             /\ markets'[k].state \in {"Open", "Closed", "Resolved", "Voided"}
      BY <1>1, <2>3, <2>4 DEF Typed
    <3>. QED  BY <1>1, <1>2, <2>2, <2>4, <2>5, <3>1 DEF Typed
  <2>7. /\ Settled(m)'
        /\ \A i \in Logs : i # j => (Settled(MarketOf(i))' <=> Settled(MarketOf(i)))
    <3>1. \A i \in Logs : i # j => MarketOf(i) # m /\ MarketOf(i) \in Markets
      BY <1>1, LoggedClosed, LogTyped
    <3>. QED  BY <1>2, <2>4, <3>1 DEF Settled, MarketOf
  <2>8. Onward
    <3>1. \A i \in Logs : Exposed(MarketOf(i))' <=> Exposed(MarketOf(i))
      BY <1>2 DEF Exposed, MarketOf
    <3>2. Len(closedLog') >= Len(closedLog)
      BY <1>1, <1>2, LogsCounted
    <3>. QED  BY <1>2, <2>7, <3>1, <3>2 DEF Onward
  <2>9. LogsInOrder'
    <3>1. markets[m].state # "Open"
      BY <1>1, LoggedClosed
    <3>. QED  BY <1>1, <1>2, <1>3, <2>4, <3>1, LogsKept
  <2>10. FlightClear'
    <3>. SUFFICES ASSUME NEW s \in flight
                  PROVE  \E i \in Logs', outcome \in {"Yes", "No", "Void"}, nonce \in Nat :
                            SentOf(s, i, outcome, nonce)'
      BY <1>2 DEF FlightClear
    <3>1. PICK i \in Logs, outcome \in {"Yes", "No", "Void"}, nonce \in Nat :
            SentOf(s, i, outcome, nonce)
      BY <1>1 DEF FlightClear
    <3>. DEFINE its == markets[MarketOf(i)].matchId
    <3>2. /\ i \in Logs' /\ MarketOf(i)' = MarketOf(i)
          /\ markets[MarketOf(i)].matchId' = its
          /\ Report(closedLog[i], outcome)' = Report(closedLog[i], outcome)
          /\ ClearBefore(i) => ClearBefore(i)'
      BY <1>1, <2>6, <2>8, LogKept
    <3>3. its \in Matches
      BY <1>1, LogTyped
    <3>4. /\ nonce <= simNonce'[its]
          /\ nonce = simNonce'[its] => ~Settled(MarketOf(i))' /\ Exposed(MarketOf(i))'
      <4>1. CASE its = match
        <5>1. nonce <= simNonce[match] /\ simNonce[match] \in Nat /\ simNonce'[match] \in Nat
          BY <1>1, <2>3, <2>5, <3>1, <4>1 DEF SentOf, Typed
        <5>. QED  BY <2>5, <4>1, <5>1
      <4>2. CASE its # match
        <5>1. i # j /\ simNonce'[its] = simNonce[its]
          BY <2>5, <3>3, <4>2
        <5>2. nonce = simNonce[its] => ~Settled(MarketOf(i)) /\ Exposed(MarketOf(i))
          BY <3>1 DEF SentOf
        <5>. QED  BY <2>7, <2>8, <3>1, <5>1, <5>2 DEF SentOf, Onward
      <4>. QED  BY <4>1, <4>2
    <3>5. /\ s.report = Report(closedLog[i], outcome)'
          /\ s.signature = [key |-> simAttestor', nonce |-> nonce]
          /\ ClearBefore(i)'
      BY <2>2, <3>1, <3>2 DEF SentOf
    <3>6. SentOf(s, i, outcome, nonce)'
      BY <3>2, <3>4, <3>5 DEF SentOf
    <3>. QED  BY <3>2, <3>6
  <2>11. LastClear'
    <3>. SUFFICES ASSUME NEW id \in Matches, lastProducedAt'[id] # 0
                  PROVE  \E i \in Logs' : AcceptedOf(id, i)'
      BY DEF LastClear
    <3>1. CASE id = match
      <4>1. /\ j \in Logs' /\ MarketOf(j)' = m
            /\ markets[MarketOf(j)].matchId' = match
            /\ ReportProducedAt(closedLog[j])' = ReportProducedAt(closedLog[j])
            /\ ClearBefore(j)'
        BY <1>1, <2>6, <2>8, LogKept DEF SentOf
      <4>2. Settled(MarketOf(j))'
        BY <2>7
      <4>3. AcceptedOf(id, j)'
        BY <2>5, <3>1, <4>1, <4>2 DEF AcceptedOf
      <4>. QED  BY <4>1, <4>3
    <3>2. CASE id # match
      <4>1. lastProducedAt'[id] = lastProducedAt[id]
        BY <2>5, <3>2
      <4>2. PICK i \in Logs : AcceptedOf(id, i)
        BY <1>1, <4>1 DEF LastClear
      <4>3. /\ i \in Logs' /\ MarketOf(i)' = MarketOf(i)
            /\ markets[MarketOf(i)].matchId' = markets[MarketOf(i)].matchId
            /\ ReportProducedAt(closedLog[i])' = ReportProducedAt(closedLog[i])
            /\ ClearBefore(i) => ClearBefore(i)'
        BY <1>1, <2>6, <2>8, LogKept
      <4>4. AcceptedOf(id, i)'
        BY <2>8, <4>1, <4>2, <4>3 DEF AcceptedOf, Onward
      <4>. QED  BY <4>3, <4>4
    <3>. QED  BY <3>1, <3>2
  <2>12. QueueInOrder' /\ NothingForgotten'
    BY <1>1, <1>2, <2>6, <2>8, QueueKept
  <2>13. HeadOnTime'
    <3>1. ASSUME queue # <<>>, CaughtUp(HeadItem.market)
          PROVE  CaughtUp(HeadItem.market)'
      <4>1. HeadItem' = HeadItem /\ HeadItem.market \in Markets
        BY <1>1, <1>2, <3>1, HeadTyped DEF HeadItem, Current
      <4>2. markets'[HeadItem.market].matchId = markets[HeadItem.market].matchId
        BY <2>4, <4>1
      <4>. QED  BY <1>2, <3>1, <4>1, <4>2 DEF CaughtUp, Mapped
    <3>2. ASSUME queue # <<>>, NEW outcome \in {"Yes", "No", "Void"},
                 Submission(HeadItem, outcome) \in flight
          PROVE  \/ Submission(HeadItem, outcome)' \in flight'
                 \/ Settled(HeadItem.market)'
      <4>1. /\ HeadItem.at \in Logs /\ HeadItem.market = MarketOf(HeadItem.at)
            /\ HeadItem' = HeadItem /\ markets[HeadItem.market].matchId \in Matches
        BY <1>1, <1>2, <3>2, HeadTyped DEF HeadItem, Current
      <4>2. CASE Settled(HeadItem.market) \/ HeadItem.at = j
        <5>1. closedLog'[HeadItem.at] = closedLog[HeadItem.at]
          BY <1>2
        <5>2. Settled(MarketOf(HeadItem.at))'
          BY <2>7, <2>8, <4>1, <4>2 DEF Onward
        <5>. QED  BY <4>1, <5>1, <5>2 DEF MarketOf
      <4>3. CASE ~Settled(HeadItem.market) /\ HeadItem.at # j
        <5>1. Exposed(MarketOf(HeadItem.at)) /\ ClearBefore(HeadItem.at)
          BY <3>2, <4>1, <4>3, OwnReportWanted
        <5>2. HeadItem.at < j \/ j < HeadItem.at
          BY <4>1, <4>3 DEF Logs
        <5>. QED  BY <2>2, <4>1, <5>1, <5>2 DEF ClearBefore, SentOf
      <4>. QED  BY <4>2, <4>3
    <3>. QED  BY <1>1, <1>2, <1>3, <2>6, <2>8, <3>1, <3>2, HeadKept
  <2>. QED  BY <2>6, <2>9, <2>10, <2>11, <2>12, <2>13 DEF WatchInv
<1>. QED  BY <1>4, <1>5

-----------------------------------------------------------------------------
(* A market closes *)

LEMMA CloseKeeps ==
    ASSUME WatchInv, NEW m \in Markets, NEW byScheduler, CloseLogged(m, byScheduler)
    PROVE  WatchInv'
<1>1. /\ Typed /\ LogsInOrder /\ FlightClear /\ LastClear
      /\ QueueInOrder /\ HeadOnTime /\ NothingForgotten
  BY DEF WatchInv
<1>. DEFINE LogRecords == [market : Markets, block : Nat, txIndex : Nat]
            place == Cardinality(ClosedInBlock(now))
            log == [market |-> m, block |-> now, txIndex |-> place]
<1>. SUFFICES ASSUME NEW n, n = Len(closedLog) PROVE WatchInv'
  OBVIOUS
<1>2. /\ markets[m].state \in {"Open", "Suspended"}
      /\ markets' = [markets EXCEPT ![m].state = "Closed"]
      /\ place < TxsPerBlock
      /\ closedLog' = Append(closedLog, log)
      /\ UNCHANGED <<now, matchCount, simEnabled, simAttestor, productionLocked,
                     expectedWorkflow, lastProducedAt, simNonce>>
      /\ UNCHANGED <<openBets, indexed, flight, cursor, queue, step, faults, crashes>>
  BY DEF CloseLogged, Close, Running, receiverVars, watcherVars
<1>3. closedLog \in Seq(LogRecords) /\ n \in Nat /\ DOMAIN closedLog = 1..n
  <2>1. closedLog \in Seq(LogRecords)
    BY <1>1 DEF Typed
  <2>. QED  BY <2>1, LenProperties
<1>4. \A b : IsFiniteSet(ClosedInBlock(b)) /\ Cardinality(ClosedInBlock(b)) \in Nat
  <2>. TAKE b
  <2>1. IsFiniteSet(1..n)
    BY <1>3, FS_Interval
  <2>2. ClosedInBlock(b) \in SUBSET (1..n)
    BY <1>3 DEF ClosedInBlock
  <2>3. IsFiniteSet(ClosedInBlock(b))
    BY <2>1, <2>2, FS_Subset
  <2>. QED  BY <2>3, FS_CardinalityType
<1>5. place \in Nat /\ log \in LogRecords /\ now \in Nat
  BY <1>1, <1>4 DEF Typed
<1>6. /\ closedLog' \in Seq(LogRecords) /\ Len(closedLog') = n + 1
      /\ DOMAIN closedLog' = 1..(n + 1)
      /\ closedLog'[n + 1] = log
      /\ \A i \in 1..n : closedLog'[i] = closedLog[i]
  BY <1>2, <1>3, <1>5
<1>. HIDE DEF LogRecords
<1>7. markets[m].state = "Open"
  BY <1>1, <1>2 DEF Typed
<1>8. /\ markets' \in [Markets -> Market]
      /\ markets'[m].state = "Closed"
      /\ \A k \in Markets : markets'[k].matchId = markets[k].matchId
      /\ \A k \in Markets : k # m => markets'[k] = markets[k]
  <2>1. markets \in [Markets -> Market]
    BY <1>1 DEF Typed
  <2>2. /\ markets'[m] = [markets[m] EXCEPT !.state = "Closed"]
        /\ \A k \in Markets : k # m => markets'[k] = markets[k]
        /\ DOMAIN markets' = Markets /\ markets' = [k \in Markets |-> markets'[k]]
    BY <1>2, <2>1
  <2>3. /\ [markets[m] EXCEPT !.state = "Closed"] \in Market
        /\ [markets[m] EXCEPT !.state = "Closed"].state = "Closed"
        /\ [markets[m] EXCEPT !.state = "Closed"].matchId = markets[m].matchId
    <3>1. markets[m] \in Market
      BY <2>1
    <3>. QED  BY <3>1 DEF Market, MarketStates
  <2>4. \A k \in Markets : markets'[k] \in Market /\ markets'[k].matchId = markets[k].matchId
    BY <2>1, <2>2, <2>3
  <2>. QED  BY <2>2, <2>3, <2>4
<1>9. Typed'
  <2>1. cursor' \in 0..Len(closedLog')
    BY <1>1, <1>2, <1>3, <1>6 DEF Typed
  <2>2. \A k \in Markets : /\ markets'[k].matchId = Opened[k].matchId
                           /\ markets'[k].state \in {"Open", "Closed", "Resolved", "Voided"}
    BY <1>1, <1>8 DEF Typed
  <2>3. closedLog' \in Seq([market : Markets, block : Nat, txIndex : Nat])
    BY <1>6 DEF LogRecords
  <2>. QED  BY <1>1, <1>2, <1>8, <2>1, <2>2, <2>3 DEF Typed
<1>10. \A i \in Logs : MarketOf(i) # m /\ MarketOf(i) \in Markets
  BY <1>1, <1>7, LogTyped DEF LogsInOrder
<1>11. \A i \in Logs : /\ closedLog'[i] = closedLog[i]
                       /\ Settled(MarketOf(i))' <=> Settled(MarketOf(i))
                       /\ Exposed(MarketOf(i))' <=> Exposed(MarketOf(i))
  BY <1>2, <1>6, <1>8, <1>10 DEF Logs, MarketOf, Settled, Exposed
<1>12. Onward
  BY <1>3, <1>6, <1>11 DEF Onward
<1>13. LogsInOrder'
  <2>1. Logs' = 1..(n + 1) /\ Logs = 1..n
    BY <1>6 DEF Logs
  <2>2. /\ \A i \in 1..n : MarketOf(i)' = MarketOf(i)
        /\ MarketOf(n + 1)' = m
    BY <1>6 DEF MarketOf
  <2>3. ClosedInBlock(now)' = ClosedInBlock(now) \cup {n + 1}
    BY <1>2, <1>3, <1>6 DEF ClosedInBlock
  <2>4. \A b : b # now => ClosedInBlock(b)' = ClosedInBlock(b)
    BY <1>2, <1>3, <1>6 DEF ClosedInBlock
  <2>5. Cardinality(ClosedInBlock(now) \cup {n + 1}) = place + 1
    <3>1. n + 1 \notin ClosedInBlock(now)
      BY <1>3 DEF ClosedInBlock
    <3>. QED  BY <1>4, <3>1, FS_AddElement
  <2>6. Cardinality(ClosedInBlock(now))' = place + 1
    BY <1>2, <2>3, <2>5
  <2>7. \A i \in 1..n : /\ closedLog[i].block \in StartTime..now
                        /\ closedLog[i].txIndex < TxsPerBlock
                        /\ closedLog[i].txIndex < Cardinality(ClosedInBlock(closedLog[i].block))
                        /\ closedLog[i].txIndex \in Nat
    BY <1>1, <2>1, LogTyped DEF LogsInOrder
  <2>8. ASSUME NEW k \in Markets
        PROVE  markets'[k].state = "Open" <=> \A i \in Logs' : MarketOf(i)' # k
    <3>1. CASE k = m
      BY <1>3, <1>8, <2>1, <2>2, <3>1
    <3>2. CASE k # m
      <4>1. markets[k].state = "Open" <=> \A i \in 1..n : MarketOf(i) # k
        BY <1>1, <2>1 DEF LogsInOrder
      <4>2. \A i \in Logs' : i \in 1..n \/ i = n + 1
        BY <1>3, <2>1
      <4>3. \A i \in 1..n : i \in Logs'
        BY <1>3, <2>1
      <4>. QED  BY <1>8, <2>2, <3>2, <4>1, <4>2, <4>3
    <3>. QED  BY <3>1, <3>2
  <2>9. ASSUME NEW i \in Logs'
        PROVE  /\ closedLog'[i].block \in StartTime..now'
               /\ closedLog'[i].txIndex < TxsPerBlock
               /\ closedLog'[i].txIndex < Cardinality(ClosedInBlock(closedLog[i].block))'
    <3>1. CASE i \in 1..n
      <4>1. closedLog'[i] = closedLog[i] /\ now' = now
        BY <1>2, <1>6, <3>1
      <4>2. CASE closedLog[i].block = now
        <5>1. closedLog[i].txIndex < place + 1
          BY <1>5, <2>7, <3>1, <4>2
        <5>2. Cardinality(ClosedInBlock(closedLog[i].block))' = place + 1
          BY <1>2, <2>3, <2>5, <4>1, <4>2
        <5>. QED  BY <2>7, <3>1, <4>1, <5>1, <5>2
      <4>3. CASE closedLog[i].block # now
        <5>1. Cardinality(ClosedInBlock(closedLog[i].block))' = Cardinality(ClosedInBlock(closedLog[i].block))
          BY <2>4, <4>1, <4>3
        <5>. QED  BY <2>7, <3>1, <4>1, <5>1
      <4>. QED  BY <4>2, <4>3
    <3>2. CASE i = n + 1
      <4>1. closedLog'[i].block = now /\ closedLog'[i].txIndex = place /\ now' = now
        BY <1>2, <1>6, <3>2
      <4>2. now \in StartTime..now
        BY <1>1, ChainConstants DEF Typed
      <4>3. Cardinality(ClosedInBlock(closedLog[i].block))' = place + 1
        BY <2>6, <4>1
      <4>4. place < TxsPerBlock /\ place < place + 1
        BY <1>2, <1>5
      <4>. HIDE DEF place
      <4>. QED  BY <4>1, <4>2, <4>3, <4>4
    <3>. QED  BY <1>3, <2>1, <3>1, <3>2
  <2>10. ASSUME NEW i \in Logs', NEW j \in Logs', i < j
         PROVE  /\ MarketOf(i)' # MarketOf(j)'
                /\ closedLog'[i].block <= closedLog'[j].block
                /\ closedLog'[i].block = closedLog'[j].block =>
                      closedLog'[i].txIndex < closedLog'[j].txIndex
    <3>1. i \in 1..n
      BY <1>3, <2>1, <2>10
    <3>2. CASE j \in 1..n
      BY <1>1, <1>6, <2>1, <2>2, <2>10, <3>1, <3>2 DEF LogsInOrder
    <3>3. CASE j = n + 1
      <4>1. /\ closedLog'[i] = closedLog[i] /\ MarketOf(i)' # m
            /\ closedLog'[j].block = now /\ closedLog'[j].txIndex = place /\ MarketOf(j)' = m
        BY <1>6, <1>10, <2>1, <2>2, <3>1, <3>3
      <4>2. closedLog[i].block <= now
        BY <1>5, <2>7, <3>1, ChainConstants
      <4>3. closedLog[i].block = now => closedLog[i].txIndex < place
        BY <2>7, <3>1
      <4>. QED  BY <4>1, <4>2, <4>3
    <3>. QED  BY <1>3, <2>1, <3>2, <3>3
  <2>. QED  BY <2>8, <2>9, <2>10 DEF LogsInOrder
<1>14. FlightClear'
  BY <1>1, <1>2, <1>9, <1>11, <1>12, FlightKept
<1>15. LastClear'
  BY <1>1, <1>2, <1>9, <1>12, LastKept
<1>16. QueueInOrder' /\ NothingForgotten'
  BY <1>1, <1>2, <1>9, <1>12, QueueKept
<1>17. HeadOnTime'
  <2>1. ASSUME queue # <<>>, CaughtUp(HeadItem.market)
        PROVE  CaughtUp(HeadItem.market)'
    <3>1. HeadItem' = HeadItem /\ HeadItem.market \in Markets
      BY <1>1, <1>2, <2>1, HeadTyped DEF HeadItem, Current
    <3>2. markets'[HeadItem.market].matchId = markets[HeadItem.market].matchId
      BY <1>8, <3>1
    <3>. QED  BY <1>2, <2>1, <3>1, <3>2 DEF CaughtUp, Mapped
  <2>2. ASSUME queue # <<>>, NEW outcome
        PROVE  Submission(HeadItem, outcome)' = Submission(HeadItem, outcome)
    BY <1>1, <1>2, <1>9, <1>12, <2>2, SubmissionKept
  <2>3. faults' >= faults
    BY <1>1, <1>2 DEF Typed
  <2>. QED  BY <1>1, <1>2, <1>9, <1>12, <2>1, <2>2, <2>3, HeadKept
<1>. QED  BY <1>9, <1>13, <1>14, <1>15, <1>16, <1>17 DEF WatchInv

-----------------------------------------------------------------------------
(* The loop *)

LEMMA LoopKeeps ==
    ASSUME WatchInv, Typed',
           UNCHANGED <<now, markets, matchCount, simAttestor, lastProducedAt, simNonce>>,
           UNCHANGED <<openBets, closedLog>>, flight' \subseteq flight
    PROVE  Onward /\ LogsInOrder' /\ FlightClear' /\ LastClear'
<1>1. Typed /\ LogsInOrder /\ FlightClear /\ LastClear
  BY DEF WatchInv
<1>2. Onward
  BY <1>1, OnwardStill
<1>3. LogsInOrder'
  <2>1. now' \in Nat /\ now' >= now
    BY <1>1 DEF Typed
  <2>. QED  BY <1>1, <2>1, LogsKept
<1>4. FlightClear'
  BY <1>1, <1>2, FlightKept DEF MarketOf, Settled
<1>5. LastClear'
  BY <1>1, <1>2, LastKept
<1>. QED  BY <1>2, <1>3, <1>4, <1>5

\* A failed attempt is one of those there are to spare: the head stays.
LEMMA HeadFails ==
    ASSUME Typed, Onward, QueueInOrder, HeadOnTime, NothingForgotten, Patient,
           queue # <<>>, step # "Down", Fail, UNCHANGED <<cursor, closedLog, markets>>,
           faults' \in 0..MaxFaults, faults' >= faults,
           HeadItem.attempts + 1 <= IndexLag + faults'
    PROVE  /\ queue' \in Seq(Pending) /\ step' = "Idle"
           /\ QueueInOrder' /\ NothingForgotten' /\ HeadOnTime'
<1>. DEFINE e == [HeadItem EXCEPT !.attempts = @ + 1]
<1>1. /\ queue \in Seq(Pending) /\ DOMAIN queue = 1..Len(queue)
      /\ HeadItem \in Pending /\ HeadItem = queue[1] /\ HeadItem.attempts \in Nat
  BY HeadTyped
<1>2. /\ IndexLag \in Nat /\ MaxFaults \in Nat /\ MaxAttempts \in Nat
      /\ IndexLag + MaxFaults < MaxAttempts
  BY WatcherConstants DEF Patient
<1>3. ~(HeadItem.attempts + 1 >= GiveUpAt)
  BY <1>1, <1>2 DEF GiveUpAt
<1>4. queue' = [queue EXCEPT ![Current] = e] /\ step' = "Idle"
  BY <1>1, <1>3 DEF Fail, HeadItem, Current
<1>5. /\ e \in Pending /\ e.at = HeadItem.at /\ e.market = HeadItem.market
      /\ e.stage = HeadItem.stage /\ e.attempts = HeadItem.attempts + 1
  BY <1>1 DEF Pending
<1>. HIDE DEF e
<1>6. /\ queue' \in Seq(Pending) /\ queue' # <<>> /\ queue'[Current] = e
      /\ QueueInOrder' /\ NothingForgotten'
  BY <1>4, <1>5, HeadNoted
<1>7. HeadOnTime'
  <2>1. HeadItem' = e
    BY <1>6 DEF HeadItem
  <2>2. HeadItem.stage = "bets" => Settled(HeadItem.market)'
    <3>1. HeadItem.stage = "bets" => Settled(HeadItem.market)
      BY DEF HeadOnTime
    <3>2. HeadItem'.market = HeadItem.market
      BY <1>5, <2>1
    <3>. QED  BY <3>1, <3>2 DEF Settled
  <2>. QED  BY <1>4, <1>5, <2>1, <2>2 DEF HeadOnTime
<1>. QED  BY <1>4, <1>6, <1>7

LEMMA ScannedQueue ==
    ASSUME Typed, NEW to \in cursor + 1..Len(closedLog)
    PROVE  /\ cursor \in Nat /\ to \in Nat /\ to - cursor \in Nat
           /\ Scanned(cursor, to) \in Seq(Pending)
           /\ Len(Scanned(cursor, to)) = to - cursor
           /\ \A i \in 1..to - cursor :
                 Scanned(cursor, to)[i] = [market |-> MarketOf(cursor + i), at |-> cursor + i,
                                           stage |-> "report", attempts |-> 0]
<1>1. Len(closedLog) \in Nat /\ cursor \in 0..Len(closedLog)
  BY LogsCounted
<1>2. cursor \in Nat /\ to \in Nat /\ to - cursor \in Nat
  BY <1>1
<1>3. ASSUME NEW i \in 1..to - cursor
      PROVE  [market |-> MarketOf(cursor + i), at |-> cursor + i,
              stage |-> "report", attempts |-> 0] \in Pending
  <2>1. cursor + i \in Logs /\ cursor + i \in Nat
    BY <1>1, <1>2 DEF Logs
  <2>2. MarketOf(cursor + i) \in Markets
    BY <2>1, LogTyped
  <2>. QED  BY <2>1, <2>2 DEF Pending
<1>. DEFINE scanned == Scanned(cursor, to)
<1>4. scanned = [i \in 1..to - cursor |-> [market |-> MarketOf(cursor + i), at |-> cursor + i,
                                           stage |-> "report", attempts |-> 0]]
  BY DEF Scanned, MarketOf
<1>5. scanned \in [1..to - cursor -> Pending]
  BY <1>3, <1>4
<1>6. scanned \in Seq(Pending)
  BY <1>2, <1>5, SeqDef
<1>7. Len(scanned) = to - cursor
  BY <1>2, <1>5, <1>6, LenProperties
<1>. QED  BY <1>2, <1>4, <1>6, <1>7

\* Joined sequences, place by place.
LEMMA Joined ==
    ASSUME NEW S, NEW q \in Seq(S), NEW t \in Seq(S)
    PROVE  /\ q \o t \in Seq(S) /\ Len(q \o t) = Len(q) + Len(t)
           /\ \A k \in 1..Len(q) : (q \o t)[k] = q[k]
           /\ \A k \in Len(q) + 1..Len(q) + Len(t) :
                 k - Len(q) \in 1..Len(t) /\ (q \o t)[k] = t[k - Len(q)]
<1>1. /\ q \o t \in Seq(S) /\ Len(q \o t) = Len(q) + Len(t)
      /\ \A k \in 1..Len(q) + Len(t) :
            (q \o t)[k] = IF k <= Len(q) THEN q[k] ELSE t[k - Len(q)]
  BY ConcatProperties
<1>2. Len(q) \in Nat /\ Len(t) \in Nat
  OBVIOUS
<1>3. ASSUME NEW k \in 1..Len(q)
      PROVE  (q \o t)[k] = q[k]
  BY <1>1, <1>2
<1>4. ASSUME NEW k \in Len(q) + 1..Len(q) + Len(t)
      PROVE  k - Len(q) \in 1..Len(t) /\ (q \o t)[k] = t[k - Len(q)]
  BY <1>1, <1>2
<1>. QED  BY <1>1, <1>3, <1>4

LEMMA ScanKeeps ==
    ASSUME WatchInv, Scan
    PROVE  WatchInv'
<1>1. /\ Typed /\ LogsInOrder /\ FlightClear /\ LastClear
      /\ QueueInOrder /\ HeadOnTime /\ NothingForgotten
  BY DEF WatchInv
<1>2. /\ step = "Idle"
      /\ UNCHANGED <<now, markets, matchCount, simEnabled, simAttestor, productionLocked,
                     expectedWorkflow, lastProducedAt, simNonce>>
      /\ UNCHANGED <<openBets, closedLog, indexed, flight, step, faults, crashes>>
  BY DEF Scan, marketVars, receiverVars
<1>3. PICK to \in cursor + 1..Len(closedLog) :
        queue' = queue \o Scanned(cursor, to) /\ cursor' = to
  BY DEF Scan
<1>. SUFFICES ASSUME NEW from, from = cursor, NEW n, n = Len(queue), NEW d, d = to - from,
                    NEW scanned, scanned = Scanned(from, to)
              PROVE  WatchInv'
  OBVIOUS
<1>4. /\ from \in Nat /\ to \in Nat /\ d \in Nat /\ to = from + d
      /\ scanned \in Seq(Pending) /\ Len(scanned) = d
      /\ \A i \in 1..d : scanned[i] = [market |-> MarketOf(from + i), at |-> from + i,
                                       stage |-> "report", attempts |-> 0]
  <2>1. /\ from \in Nat /\ to \in Nat /\ d \in Nat
        /\ scanned \in Seq(Pending) /\ Len(scanned) = d
        /\ \A i \in 1..d : scanned[i] = [market |-> MarketOf(from + i), at |-> from + i,
                                         stage |-> "report", attempts |-> 0]
    BY <1>1, ScannedQueue
  <2>2. to = from + d
    BY <2>1
  <2>. QED  BY <2>1, <2>2
<1>5. queue \in Seq(Pending) /\ n \in Nat /\ DOMAIN queue = 1..n
  <2>1. queue \in Seq(Pending)
    BY <1>1 DEF Typed, Pending
  <2>. QED  BY <2>1, LenProperties
<1>6. /\ queue' \in Seq(Pending) /\ Len(queue') = n + d
      /\ \A k \in 1..n : queue'[k] = queue[k]
      /\ \A k \in n + 1..n + d : k - n \in 1..d /\ queue'[k] = scanned[k - n]
  <2>1. queue' = queue \o scanned
    BY <1>3
  <2>2. /\ queue \o scanned \in Seq(Pending)
        /\ Len(queue \o scanned) = Len(queue) + Len(scanned)
        /\ \A k \in 1..Len(queue) : (queue \o scanned)[k] = queue[k]
        /\ \A k \in Len(queue) + 1..Len(queue) + Len(scanned) :
              /\ k - Len(queue) \in 1..Len(scanned)
              /\ (queue \o scanned)[k] = scanned[k - Len(queue)]
    BY <1>4, <1>5, Joined
  <2>. QED  BY <1>4, <2>1, <2>2
<1>7. \A k \in 1..n : queue'[k] = queue[k]
  BY <1>6
<1>8. ASSUME NEW k \in n + 1..n + d
      PROVE  /\ k - n \in 1..d /\ from + (k - n) \in 1..to
             /\ queue'[k].market = MarketOf(from + (k - n))
             /\ queue'[k].at = from + (k - n)
             /\ queue'[k].stage = "report" /\ queue'[k].attempts = 0
  <2>1. k - n \in 1..d /\ queue'[k] = scanned[k - n]
    BY <1>6
  <2>2. \A x, y \in Nat : \A l \in 1..y : x + l \in 1..x + y
    OBVIOUS
  <2>3. from + (k - n) \in 1..to
    BY <1>4, <2>1, <2>2
  <2>4. scanned[k - n] = [market |-> MarketOf(from + (k - n)), at |-> from + (k - n),
                          stage |-> "report", attempts |-> 0]
    BY <1>4, <2>1
  <2>. QED  BY <2>1, <2>3, <2>4
<1>9. Typed'
  <2>1. cursor' \in 0..Len(closedLog')
    BY <1>1, <1>2, <1>3, <1>4, LogsCounted
  <2>2. queue' \in Seq([market : Markets, at : Nat, stage : {"report", "bets"}, attempts : Nat])
    BY <1>6 DEF Pending
  <2>. QED  BY <1>1, <1>2, <2>1, <2>2 DEF Typed
<1>10. Onward /\ LogsInOrder' /\ FlightClear' /\ LastClear'
  BY <1>2, <1>9, LoopKeeps
<1>11. \A k \in 1..n : queue[k].at \in 1..from /\ queue[k].market = MarketOf(queue[k].at)
  BY <1>1 DEF QueueInOrder
<1>12. QueueInOrder'
  <2>1. ASSUME NEW k \in 1..Len(queue')
        PROVE  /\ queue'[k].at \in 1..cursor'
               /\ queue'[k].market = MarketOf(queue[k].at)'
               /\ k > 1 => queue'[k].stage = "report" /\ queue'[k].attempts = 0
    <3>1. CASE k \in 1..n
      <4>1. queue'[k] = queue[k] /\ queue[k].at \in 1..to
        BY <1>4, <1>7, <1>11, <3>1
      <4>. QED  BY <1>1, <1>2, <1>3, <3>1, <4>1 DEF QueueInOrder, MarketOf
    <3>2. CASE k \in n + 1..n + d
      <4>1. MarketOf(queue[k].at)' = MarketOf(from + (k - n))
        BY <1>2, <1>8, <3>2 DEF MarketOf
      <4>. QED  BY <1>3, <1>8, <3>2, <4>1
    <3>. QED  BY <1>4, <1>5, <1>6, <3>1, <3>2
  <2>2. ASSUME NEW k \in 1..Len(queue'), NEW l \in 1..Len(queue'), k < l
        PROVE  queue'[k].at < queue'[l].at
    <3>1. CASE k \in 1..n /\ l \in 1..n
      BY <1>1, <1>7, <2>2, <3>1 DEF QueueInOrder
    <3>2. CASE k \in 1..n /\ l \in n + 1..n + d
      <4>1. queue'[k].at \in 1..from
        BY <1>7, <1>11, <3>2
      <4>2. queue'[l].at = from + (l - n) /\ l - n \in 1..d
        BY <1>8, <3>2
      <4>3. \A x, y \in Nat : \A g \in 1..x, z \in 1..y : g < x + z
        OBVIOUS
      <4>. QED  BY <1>4, <4>1, <4>2, <4>3
    <3>3. CASE k \in n + 1..n + d /\ l \in n + 1..n + d
      <4>1. queue'[k].at = from + (k - n) /\ queue'[l].at = from + (l - n)
        BY <1>8, <3>3
      <4>. QED  BY <1>4, <1>5, <2>2, <3>3, <4>1
    <3>. QED  BY <1>4, <1>5, <1>6, <2>2, <3>1, <3>2, <3>3
  <2>. QED  BY <1>2, <2>1, <2>2 DEF QueueInOrder
<1>13. NothingForgotten'
  <2>. SUFFICES ASSUME NEW i \in 1..Len(closedLog'), Exposed(closedLog[i].market)'
                PROVE  i > cursor' \/ \E k \in DOMAIN queue' : queue'[k].at = i
    BY DEF NothingForgotten
  <2>1. DOMAIN queue' = 1..n + d
    BY <1>6, LenProperties
  <2>2. i \in Nat /\ i > 0
    OBVIOUS
  <2>3. Exposed(closedLog[i].market) /\ i \in 1..Len(closedLog)
    BY <1>2 DEF Exposed
  <2>4. CASE i > from
    <3>1. \A x, y, z, l \in Nat :
             l > x /\ l <= x + y => z + (l - x) \in z + 1..z + y /\ x + ((z + (l - x)) - z) = l
      OBVIOUS
    <3>2. ASSUME i <= to
          PROVE  \E k \in n + 1..n + d : from + (k - n) = i
      <4>1. from \in Nat /\ d \in Nat /\ n \in Nat /\ i \in Nat /\ i > from
        BY <1>4, <1>5, <2>2, <2>4
      <4>2. i <= from + d
        BY <1>4, <3>2
      <4>3. n + (i - from) \in n + 1..n + d /\ from + ((n + (i - from)) - n) = i
        BY <3>1, <4>1, <4>2
      <4>. QED  BY <4>3
    <3>3. \A k \in n + 1..n + d : queue'[k].at = from + (k - n)
      BY <1>8
    <3>4. \A k \in n + 1..n + d : k \in DOMAIN queue'
      <4>1. \A x, y \in Nat : \A k \in x + 1..x + y : k \in 1..x + y
        OBVIOUS
      <4>. QED  BY <1>4, <1>5, <2>1, <4>1
    <3>5. CASE i <= to
      BY <3>2, <3>3, <3>4, <3>5
    <3>6. CASE i > to
      BY <1>3, <3>6
    <3>. QED  BY <1>4, <2>2, <3>5, <3>6
  <2>5. CASE ~(i > from)
    <3>1. PICK k \in DOMAIN queue : queue[k].at = i
      BY <1>1, <1>2, <2>3, <2>5 DEF NothingForgotten
    <3>2. k \in DOMAIN queue' /\ queue'[k] = queue[k]
      BY <1>4, <1>5, <1>7, <2>1, <3>1
    <3>. QED  BY <3>1, <3>2
  <2>. QED  BY <2>4, <2>5
<1>14. HeadOnTime'
  <2>1. CASE queue # <<>>
    <3>1. HeadItem' = HeadItem
      <4>1. 1 \in 1..n
        BY <1>1, <2>1, HeadTyped
      <4>. QED  BY <1>7, <4>1 DEF HeadItem, Current
    <3>2. Settled(HeadItem.market)' <=> Settled(HeadItem.market)
      BY <1>2, <3>1 DEF Settled
    <3>. QED  BY <1>1, <1>2, <2>1, <3>1, <3>2 DEF HeadOnTime
  <2>2. CASE queue = <<>> /\ queue' # <<>>
    <3>1. n = 0 /\ 1 \in n + 1..n + d
      BY <1>4, <1>5, <1>6, <2>2
    <3>2. HeadItem'.attempts = 0 /\ HeadItem'.stage = "report"
      BY <1>8, <3>1 DEF HeadItem, Current
    <3>3. 0 <= IndexLag + faults'
      <4>1. \A lag, k \in Nat : 0 <= lag + k
        OBVIOUS
      <4>2. faults' \in Nat
        BY <1>9 DEF Typed
      <4>. QED  BY <4>1, <4>2, WatcherConstants
    <3>. QED  BY <1>2, <3>2, <3>3 DEF HeadOnTime
  <2>. QED  BY <2>1, <2>2 DEF HeadOnTime
<1>. QED  BY <1>9, <1>10, <1>12, <1>13, <1>14 DEF WatchInv

\* What the attempts of the loop leave alone.
LEMMA AttemptKeeps ==
    ASSUME WatchInv, queue' \in Seq(Pending), step' \in Steps,
           UNCHANGED <<OffChain, openBets>>, flight' \subseteq flight, faults' \in 0..MaxFaults
    PROVE  Typed' /\ Onward /\ LogsInOrder' /\ FlightClear' /\ LastClear'
<1>1. Typed
  BY DEF WatchInv
<1>2. UNCHANGED <<now, markets, matchCount, simEnabled, simAttestor, productionLocked,
                  expectedWorkflow, lastProducedAt, simNonce, closedLog, indexed, cursor,
                  crashes>>
  BY DEF OffChain, marketVars, receiverVars
<1>3. Typed'
  <2>1. queue' \in Seq([market : Markets, at : Nat, stage : {"report", "bets"}, attempts : Nat])
    BY DEF Pending
  <2>. QED  BY <1>1, <1>2, <2>1 DEF Typed
<1>. QED  BY <1>2, <1>3, LoopKeeps

\* An attempt that fails keeps the invariant, if it is one of those to spare.
LEMMA FailedAttemptKeeps ==
    ASSUME WatchInv, Patient, queue # <<>>, step # "Down", Fail,
           UNCHANGED <<OffChain, openBets, flight>>,
           faults' \in 0..MaxFaults, faults' >= faults,
           HeadItem.attempts + 1 <= IndexLag + faults'
    PROVE  WatchInv'
<1>1. Typed /\ QueueInOrder /\ HeadOnTime /\ NothingForgotten
  BY DEF WatchInv
<1>2. UNCHANGED <<cursor, closedLog, markets>>
  BY DEF OffChain, marketVars
<1>3. Onward
  BY <1>1, <1>2, OnwardStill
<1>4. /\ queue' \in Seq(Pending) /\ step' = "Idle"
      /\ QueueInOrder' /\ NothingForgotten' /\ HeadOnTime'
  BY <1>1, <1>2, <1>3, HeadFails
<1>5. Typed' /\ LogsInOrder' /\ FlightClear' /\ LastClear'
  BY <1>4, AttemptKeeps DEF Steps
<1>. QED  BY <1>4, <1>5 DEF WatchInv

\* A head with nothing left on its market leaves.
LEMMA DoneHeadKeeps ==
    ASSUME WatchInv, queue # <<>>, step # "Down", Succeed,
           UNCHANGED <<OffChain, openBets, flight, faults>>,
           ~Exposed(HeadItem.market)
    PROVE  WatchInv'
<1>1. Typed /\ QueueInOrder /\ NothingForgotten
  BY DEF WatchInv
<1>2. UNCHANGED <<cursor, closedLog, markets>>
  BY DEF OffChain, marketVars
<1>3. Onward
  BY <1>1, <1>2, OnwardStill
<1>4. HeadItem.market = MarketOf(HeadItem.at)
  BY <1>1, HeadTyped
<1>5. \A h : h = HeadItem.at => ~Exposed(MarketOf(h))'
  BY <1>2, <1>4 DEF Exposed, MarketOf
<1>6. faults' \in Nat /\ faults' \in 0..MaxFaults
  BY <1>1 DEF Typed
<1>7. /\ queue' \in Seq(Pending)
      /\ QueueInOrder' /\ NothingForgotten' /\ HeadOnTime'
  BY <1>1, <1>2, <1>3, <1>5, <1>6, HeadLeaves DEF Succeed
<1>8. Typed' /\ LogsInOrder' /\ FlightClear' /\ LastClear'
  BY <1>6, <1>7, AttemptKeeps DEF Steps, Succeed
<1>. QED  BY <1>7, <1>8 DEF WatchInv

LEMMA SkipEmptyKeeps ==
    ASSUME WatchInv, SkipEmpty
    PROVE  WatchInv'
<1>1. queue # <<>> /\ step # "Down"
  BY DEF SkipEmpty, Attempting
<1>. QED  BY <1>1, DoneHeadKeeps DEF SkipEmpty

\* The head's market is found settled: its bets come next.
LEMMA ToBetsKeeps ==
    ASSUME WatchInv, queue # <<>>, step # "Down", Settled(HeadItem.market),
           queue' = [queue EXCEPT ![Current].stage = "bets"], step' \in {"Idle", "Settling"},
           step' = "Settling" => step = "Running",
           UNCHANGED <<OffChain, openBets, flight, faults>>
    PROVE  WatchInv'
<1>. DEFINE e == [HeadItem EXCEPT !.stage = "bets"]
<1>1. Typed /\ QueueInOrder /\ HeadOnTime /\ NothingForgotten
  BY DEF WatchInv
<1>2. UNCHANGED <<cursor, closedLog, markets, indexed, openBets, faults>>
  BY DEF OffChain, marketVars
<1>3. Onward
  BY <1>1, <1>2, OnwardStill
<1>4. HeadItem \in Pending
  BY <1>1, HeadTyped
<1>5. queue' = [queue EXCEPT ![Current] = e]
  BY DEF HeadItem, Current
<1>6. /\ e \in Pending /\ e.at = HeadItem.at /\ e.market = HeadItem.market
      /\ e.attempts = HeadItem.attempts
  BY <1>4 DEF Pending
<1>. HIDE DEF e
<1>7. /\ queue' \in Seq(Pending) /\ queue' # <<>> /\ queue'[Current] = e
      /\ QueueInOrder' /\ NothingForgotten'
  BY <1>1, <1>2, <1>3, <1>5, <1>6, HeadNoted
<1>8. HeadOnTime'
  <2>1. HeadItem' = e
    BY <1>7 DEF HeadItem
  <2>2. Settled(HeadItem.market)'
    BY <1>2, <1>6, <2>1 DEF Settled
  <2>3. HeadItem'.attempts <= IndexLag + faults'
    BY <1>1, <1>2, <1>6, <2>1 DEF HeadOnTime
  <2>4. ASSUME step' = "Settling", HeadItem'.attempts >= IndexLag
        PROVE  CaughtUp(HeadItem.market)'
    <3>1. CaughtUp(HeadItem.market)
      BY <1>1, <1>6, <2>1, <2>4 DEF HeadOnTime
    <3>2. matchCount' = matchCount
      BY DEF OffChain, marketVars
    <3>. QED  BY <1>2, <1>6, <2>1, <3>1, <3>2 DEF CaughtUp, Mapped
  <2>. QED  BY <2>2, <2>3, <2>4 DEF HeadOnTime
<1>9. faults' \in 0..MaxFaults
  BY <1>1, <1>2 DEF Typed
<1>10. Typed' /\ LogsInOrder' /\ FlightClear' /\ LastClear'
  BY <1>7, <1>9, AttemptKeeps DEF Steps
<1>. QED  BY <1>7, <1>8, <1>10 DEF WatchInv

LEMMA AlreadySettledKeeps ==
    ASSUME WatchInv, AlreadySettled
    PROVE  WatchInv'
<1>1. queue # <<>> /\ step = "Idle"
  BY DEF AlreadySettled, Attempting
<1>. QED  BY <1>1, ToBetsKeeps DEF AlreadySettled

LEMMA MatchNotIndexedKeeps ==
    ASSUME WatchInv, Patient, MatchNotIndexed
    PROVE  WatchInv'
<1>1. queue # <<>> /\ step # "Down" /\ Fail
  BY DEF MatchNotIndexed, Attempting
<1>2. Typed /\ QueueInOrder
  BY DEF WatchInv
<1>3. UNCHANGED <<OffChain, openBets, flight, faults>>
  BY DEF MatchNotIndexed
<1>4. ~(HeadItem.attempts >= IndexLag)
  BY DEF MatchNotIndexed, Attempting, CaughtUp
<1>5. HeadItem.attempts \in Nat
  BY <1>1, <1>2, HeadTyped
<1>6. faults \in 0..MaxFaults /\ IndexLag \in Nat /\ faults' = faults
  BY <1>2, <1>3, WatcherConstants DEF Typed
<1>7. HeadItem.attempts + 1 <= IndexLag + faults'
  BY <1>4, <1>5, <1>6
<1>. QED  BY <1>1, <1>3, <1>6, <1>7, FailedAttemptKeeps

LEMMA ThrowKeeps ==
    ASSUME WatchInv, Patient, Throw
    PROVE  WatchInv'
<1>1. queue # <<>> /\ step # "Down" /\ Fail
  BY DEF Throw
<1>2. Typed /\ QueueInOrder /\ HeadOnTime
  BY DEF WatchInv
<1>3. UNCHANGED <<OffChain, openBets, flight>> /\ faults < MaxFaults /\ faults' = faults + 1
  BY DEF Throw
<1>4. HeadItem.attempts \in Nat
  BY <1>1, <1>2, HeadTyped
<1>5. faults \in Nat /\ MaxFaults \in Nat /\ IndexLag \in Nat
  BY <1>2, WatcherConstants DEF Typed
<1>6. HeadItem.attempts <= IndexLag + faults
  BY <1>1, <1>2 DEF HeadOnTime
<1>7. faults' \in 0..MaxFaults /\ faults' >= faults
  BY <1>3, <1>5
<1>8. HeadItem.attempts + 1 <= IndexLag + faults'
  BY <1>3, <1>4, <1>5, <1>6
<1>. QED  BY <1>1, <1>3, <1>7, <1>8, FailedAttemptKeeps

LEMMA RunEndsKeeps ==
    ASSUME WatchInv, Patient, RunEnds
    PROVE  WatchInv'
<1>1. Typed /\ QueueInOrder /\ HeadOnTime
  BY DEF WatchInv
<1>2. step = "Running" /\ RunOver /\ UNCHANGED <<OffChain, openBets, flight, faults>>
  BY DEF RunEnds
<1>3. queue # <<>>
  BY <1>1, <1>2 DEF QueueInOrder
<1>4. CASE Settled(HeadItem.market)
  <2>1. queue' = [queue EXCEPT ![Current].stage = "bets"] /\ step' = "Settling"
    BY <1>4 DEF RunEnds, Confirmed
  <2>. QED  BY <1>2, <1>3, <1>4, <2>1, ToBetsKeeps
<1>5. CASE ~Settled(HeadItem.market)
  <2>1. Fail
    BY <1>5 DEF RunEnds, Confirmed
  <2>2. ASSUME NEW outcome, Submission(HeadItem, outcome) \in flight
        PROVE  FALSE
    <3>. DEFINE r == Submission(HeadItem, outcome)
    <3>1. r.run = ThisRun /\ r.report = Report(closedLog[HeadItem.at], outcome)
      BY DEF Submission
    <3>2. r.report.markets[1].marketId = MarketOf(HeadItem.at)
      BY <3>1 DEF Report, MarketOf
    <3>3. HeadItem.market = MarketOf(HeadItem.at)
      BY <1>1, <1>3, HeadTyped
    <3>. HIDE DEF r
    <3>4. r \in flight
      BY <2>2 DEF r
    <3>. QED  BY <1>2, <3>1, <3>2, <3>3, <3>4 DEF RunOver
  <2>3. HeadItem.attempts + 1 <= IndexLag + faults
    BY <1>1, <1>2, <1>3, <1>5, <2>2 DEF HeadOnTime
  <2>4. faults' \in 0..MaxFaults /\ faults' >= faults /\ faults' = faults
    BY <1>1, <1>2 DEF Typed
  <2>. QED  BY <1>2, <1>3, <2>1, <2>3, <2>4, FailedAttemptKeeps
<1>. QED  BY <1>4, <1>5

\* The run that starts sends the report of a close with nothing exposed before
\* it, or fails before it sends anything.
LEMMA StartRunKeeps ==
    ASSUME WatchInv, StartRun
    PROVE  WatchInv'
<1>1. /\ Typed /\ LogsInOrder /\ FlightClear /\ LastClear
      /\ QueueInOrder /\ HeadOnTime /\ NothingForgotten
  BY DEF WatchInv
<1>2. /\ step = "Idle" /\ queue # <<>>
      /\ HeadItem.attempts >= IndexLag => CaughtUp(HeadItem.market)
      /\ Exposed(HeadItem.market) /\ markets[HeadItem.market].state = "Closed"
      /\ step' = "Running"
      /\ UNCHANGED <<OffChain, openBets, queue>>
  BY DEF StartRun, Attempting
<1>3. /\ UNCHANGED <<now, markets, matchCount, simEnabled, simAttestor, productionLocked,
                     expectedWorkflow, lastProducedAt, simNonce>>
      /\ UNCHANGED <<openBets, closedLog, indexed, cursor, queue, crashes>>
  BY <1>2 DEF OffChain, marketVars, receiverVars
<1>4. \/ /\ \E outcome \in {"Yes", "No", "Void"} :
               flight' = flight \cup {Submission(HeadItem, outcome)}
         /\ faults' = faults
      \/ flight' = flight /\ faults < MaxFaults /\ faults' = faults + 1
  BY DEF StartRun, FetchSettlement
<1>5. /\ HeadItem.at \in Logs /\ HeadItem.market = MarketOf(HeadItem.at)
      /\ HeadItem.attempts \in Nat /\ markets[HeadItem.market].matchId \in Matches
  BY <1>1, <1>2, HeadTyped
<1>6. faults \in Nat /\ faults' \in 0..MaxFaults /\ faults' >= faults /\ IndexLag \in Nat
  <2>1. faults \in 0..MaxFaults /\ MaxFaults \in Nat /\ IndexLag \in Nat
    BY <1>1, WatcherConstants DEF Typed
  <2>. QED  BY <1>4, <2>1
<1>7. Typed'
  BY <1>1, <1>2, <1>3, <1>6 DEF Typed, Steps
<1>8. Onward
  BY <1>1, <1>3, OnwardStill
<1>9. LogsInOrder'
  <2>1. now' \in Nat /\ now' >= now
    BY <1>1, <1>3 DEF Typed
  <2>. QED  BY <1>1, <1>3, <2>1, LogsKept
<1>10. LastClear'
  BY <1>1, <1>3, <1>7, <1>8, LastKept
<1>11. QueueInOrder' /\ NothingForgotten'
  BY <1>1, <1>2, <1>3 DEF QueueInOrder, NothingForgotten, MarketOf, Exposed
<1>12. FlightClear'
  <2>. SUFFICES ASSUME NEW r \in flight'
                PROVE  \E j \in Logs, outcome \in {"Yes", "No", "Void"}, nonce \in Nat :
                          SentOf(r, j, outcome, nonce)
    <3>1. ASSUME NEW r, NEW j \in Logs, NEW outcome, NEW nonce, SentOf(r, j, outcome, nonce)
          PROVE  j \in Logs' /\ SentOf(r, j, outcome, nonce)'
      <4>1. /\ j \in Logs' /\ MarketOf(j)' = MarketOf(j)
            /\ markets[MarketOf(j)].matchId' = markets[MarketOf(j)].matchId
            /\ Report(closedLog[j], outcome)' = Report(closedLog[j], outcome)
            /\ ClearBefore(j) => ClearBefore(j)'
        BY <1>1, <1>7, <1>8, LogKept
      <4>2. /\ Settled(MarketOf(j))' <=> Settled(MarketOf(j))
            /\ Exposed(MarketOf(j))' <=> Exposed(MarketOf(j))
        BY <1>3 DEF Settled, Exposed, MarketOf
      <4>. QED  BY <1>3, <3>1, <4>1, <4>2 DEF SentOf
    <3>. QED  BY <3>1 DEF FlightClear
  <2>1. CASE r \in flight
    BY <1>1, <2>1 DEF FlightClear
  <2>2. CASE r \notin flight
    <3>1. PICK outcome \in {"Yes", "No", "Void"} : r = Submission(HeadItem, outcome)
      BY <1>4, <2>2
    <3>. DEFINE match == markets[HeadItem.market].matchId
    <3>2. simNonce[match] \in Nat
      BY <1>1, <1>5 DEF Typed
    <3>3. /\ r.report = Report(closedLog[HeadItem.at], outcome)
          /\ r.signature = [key |-> simAttestor, nonce |-> simNonce[match]]
      BY <3>1 DEF Submission, Attestation
    <3>4. ClearBefore(HeadItem.at)
      BY <1>1, <1>2, HeadClear
    <3>5. ~Settled(HeadItem.market) /\ Exposed(HeadItem.market)
      BY <1>2 DEF Settled
    <3>6. simNonce[match] <= simNonce[match]
      BY <3>2
    <3>7. SentOf(r, HeadItem.at, outcome, simNonce[match])
      BY <1>5, <3>3, <3>4, <3>5, <3>6 DEF SentOf
    <3>. QED  BY <1>5, <3>2, <3>7
  <2>. QED  BY <2>1, <2>2
<1>13. HeadOnTime'
  <2>1. HeadItem' = HeadItem
    BY <1>3 DEF HeadItem, Current
  <2>2. HeadItem.attempts <= IndexLag + faults'
    BY <1>1, <1>2, <1>5, <1>6 DEF HeadOnTime
  <2>3. HeadItem.stage = "bets" => Settled(HeadItem.market)'
    BY <1>1, <1>2, <1>3, <2>1 DEF HeadOnTime, Settled
  <2>4. CaughtUp(HeadItem.market) => CaughtUp(HeadItem.market)'
    BY <1>3, <2>1 DEF CaughtUp, Mapped
  <2>5. \/ HeadItem.attempts + 1 <= IndexLag + faults'
        \/ \E outcome \in {"Yes", "No", "Void"} : Submission(HeadItem, outcome)' \in flight'
    <3>1. CASE faults' = faults + 1
      BY <1>1, <1>2, <1>5, <1>6, <3>1 DEF HeadOnTime
    <3>2. ASSUME NEW outcome \in {"Yes", "No", "Void"},
                 flight' = flight \cup {Submission(HeadItem, outcome)}
          PROVE  Submission(HeadItem, outcome)' \in flight'
      <4>1. Submission(HeadItem, outcome)' = Submission(HeadItem, outcome)
        BY <1>1, <1>2, <1>3, <1>7, <1>8, SubmissionKept
      <4>. QED  BY <3>2, <4>1
    <3>. QED  BY <1>4, <3>1, <3>2
  <2>. QED  BY <1>2, <1>3, <2>1, <2>2, <2>3, <2>4, <2>5 DEF HeadOnTime
<1>. QED  BY <1>7, <1>9, <1>10, <1>11, <1>12, <1>13 DEF WatchInv

\* Bets are settled on the head's market, which is settled.  Once the indexer
\* has caught up it shows them all.
LEMMA SettleBetsKeeps ==
    ASSUME WatchInv, Patient, SettleBets
    PROVE  WatchInv'
<1>1. /\ Typed /\ LogsInOrder /\ FlightClear /\ LastClear
      /\ QueueInOrder /\ HeadOnTime /\ NothingForgotten
  BY DEF WatchInv
<1>2. /\ openBets' = openBets \ Seen(HeadItem.market)
      /\ \E k \in {HeadItem.market} : IF NothingLeft(k)' THEN Succeed ELSE Fail
      /\ Attempting("bets") \/ step = "Settling"
      /\ UNCHANGED <<OffChain, flight, faults>>
  BY DEF SettleBets
<1>3. /\ UNCHANGED <<now, markets, matchCount, simEnabled, simAttestor, productionLocked,
                     expectedWorkflow, lastProducedAt, simNonce>>
      /\ UNCHANGED <<closedLog, indexed, cursor, flight, faults, crashes>>
  BY <1>2 DEF OffChain, marketVars, receiverVars
<1>4. /\ queue # <<>> /\ step # "Down"
      /\ HeadItem.attempts >= IndexLag => CaughtUp(HeadItem.market)
      /\ Settled(HeadItem.market)
  BY <1>1, <1>2 DEF Attempting, QueueInOrder, HeadOnTime
<1>5. /\ HeadItem.at \in Logs /\ HeadItem.market = MarketOf(HeadItem.at)
      /\ HeadItem.attempts \in Nat
  BY <1>1, <1>4, HeadTyped
<1>. SUFFICES ASSUME NEW m, m = HeadItem.market, NEW h, h = HeadItem.at PROVE WatchInv'
  OBVIOUS
<1>6. \A i \in Logs : Settled(MarketOf(i))' <=> Settled(MarketOf(i))
  BY <1>3 DEF Settled, MarketOf
<1>7. Onward
  <2>1. \A i \in Logs : Exposed(MarketOf(i))' => Exposed(MarketOf(i))
    BY <1>2, <1>3 DEF Exposed, MarketOf
  <2>2. ASSUME NEW i \in Logs, ~Settled(MarketOf(i)), Exposed(MarketOf(i))
        PROVE  Exposed(MarketOf(i))'
    <3>1. MarketOf(i) # m
      BY <1>4, <2>2
    <3>. QED  BY <1>2, <1>3, <2>2, <3>1 DEF Exposed, MarketOf, Seen
  <2>3. Len(closedLog') >= Len(closedLog)
    BY <1>1, <1>3, LogsCounted
  <2>. QED  BY <1>3, <1>6, <2>1, <2>2, <2>3 DEF Onward
<1>8. /\ faults' \in 0..MaxFaults /\ faults' >= faults /\ faults' \in Nat
      /\ faults' = faults /\ IndexLag \in Nat
  BY <1>1, <1>3, WatcherConstants DEF Typed
<1>9. /\ queue' \in Seq(Pending) /\ step' = "Idle"
      /\ QueueInOrder' /\ NothingForgotten' /\ HeadOnTime'
  <2>1. CASE ~Exposed(m)'
    <3>1. Succeed
      BY <1>2, <2>1 DEF NothingLeft
    <3>2. ~Exposed(MarketOf(h))'
      BY <1>3, <1>5, <2>1 DEF MarketOf
    <3>. QED  BY <1>1, <1>3, <1>4, <1>7, <1>8, <3>1, <3>2, HeadLeaves DEF Succeed
  <2>2. CASE Exposed(m)'
    <3>1. Fail
      BY <1>2, <2>2 DEF NothingLeft
    <3>2. ~CaughtUp(m)
      BY <1>2, <1>3, <2>2 DEF CaughtUp, Exposed, Seen
    <3>3. HeadItem.attempts + 1 <= IndexLag + faults'
      <4>1. HeadItem.attempts < IndexLag
        BY <1>4, <1>5, <1>8, <3>2
      <4>2. faults \in Nat
        BY <1>1 DEF Typed
      <4>. QED  BY <1>5, <1>8, <4>1, <4>2
    <3>. QED  BY <1>1, <1>3, <1>4, <1>7, <1>8, <3>1, <3>3, HeadFails
  <2>. QED  BY <2>1, <2>2
<1>10. Typed'
  <2>1. queue' \in Seq([market : Markets, at : Nat, stage : {"report", "bets"}, attempts : Nat])
    BY <1>9 DEF Pending
  <2>2. openBets' \subseteq Wagers
    BY <1>1, <1>2 DEF Typed
  <2>. QED  BY <1>1, <1>3, <1>8, <1>9, <2>1, <2>2 DEF Typed, Steps
<1>11. LogsInOrder'
  <2>1. now' \in Nat /\ now' >= now
    BY <1>1, <1>3 DEF Typed
  <2>. QED  BY <1>1, <1>3, <2>1, LogsKept
<1>12. FlightClear'
  BY <1>1, <1>3, <1>6, <1>7, <1>10, FlightKept
<1>13. LastClear'
  BY <1>1, <1>3, <1>7, <1>10, LastKept
<1>. QED  BY <1>9, <1>10, <1>11, <1>12, <1>13 DEF WatchInv

LEMMA CrashKeeps ==
    ASSUME WatchInv, Crash
    PROVE  WatchInv'
<1>1. Typed
  BY DEF WatchInv
<1>2. /\ queue' = <<>> /\ step' = "Down" /\ crashes' = crashes + 1
      /\ UNCHANGED <<now, markets, matchCount, simEnabled, simAttestor, productionLocked,
                     expectedWorkflow, lastProducedAt, simNonce>>
      /\ UNCHANGED <<openBets, closedLog, indexed, flight, cursor, faults>>
  BY DEF Crash, marketVars, receiverVars
<1>3. Typed'
  <2>1. queue' \in Seq([market : Markets, at : Nat, stage : {"report", "bets"}, attempts : Nat])
    BY <1>2
  <2>. QED  BY <1>1, <1>2, <2>1 DEF Typed, Steps
<1>4. LogsInOrder' /\ FlightClear' /\ LastClear'
  BY <1>2, <1>3, LoopKeeps
<1>5. QueueInOrder' /\ HeadOnTime' /\ NothingForgotten'
  BY <1>2 DEF QueueInOrder, HeadOnTime, NothingForgotten
<1>. QED  BY <1>3, <1>4, <1>5 DEF WatchInv

\* The logs are scanned again from the first.
LEMMA RestartKeeps ==
    ASSUME WatchInv, Patient, Restart
    PROVE  WatchInv'
<1>1. Typed /\ QueueInOrder
  BY DEF WatchInv
<1>2. /\ step = "Down" /\ step' = "Idle" /\ cursor' = 0
      /\ UNCHANGED <<now, markets, matchCount, simEnabled, simAttestor, productionLocked,
                     expectedWorkflow, lastProducedAt, simNonce>>
      /\ UNCHANGED <<openBets, closedLog, indexed, flight, queue, faults, crashes>>
  BY DEF Restart, Patient, marketVars, receiverVars
<1>3. queue' = <<>>
  BY <1>1, <1>2 DEF QueueInOrder
<1>4. Typed'
  <2>1. cursor' \in 0..Len(closedLog')
    BY <1>1, <1>2, LogsCounted
  <2>. QED  BY <1>1, <1>2, <2>1 DEF Typed, Steps
<1>5. LogsInOrder' /\ FlightClear' /\ LastClear'
  BY <1>2, <1>4, LoopKeeps
<1>6. QueueInOrder' /\ HeadOnTime' /\ NothingForgotten'
  BY <1>2, <1>3 DEF QueueInOrder, HeadOnTime, NothingForgotten
<1>. QED  BY <1>4, <1>5, <1>6 DEF WatchInv

-----------------------------------------------------------------------------
(* The theorems *)

LEMMA WatchBegins ==
    ASSUME Init
    PROVE  WatchInv
<1>1. /\ now = StartTime /\ openBets = {} /\ closedLog = <<>> /\ flight = {}
      /\ cursor = 0 /\ queue = <<>> /\ step = "Idle" /\ faults = 0 /\ crashes = 0
      /\ indexed = [matchCount |-> 0, running |-> {}, openBets |-> {}]
      /\ simEnabled = TRUE /\ productionLocked = FALSE /\ expectedWorkflow = None
      /\ simAttestor # None
      /\ lastProducedAt = [id \in Matches |-> 0] /\ simNonce = [id \in Matches |-> 0]
      /\ matchCount \in Matches /\ \A id \in Matches : id <= matchCount
  BY DEF Init
<1>2. ASSUME NEW m \in Markets
      PROVE  /\ markets[m] \in Market
             /\ markets[m].matchId = Opened[m].matchId /\ markets[m].state = "Open"
  <2>1. Opened[m].matchId \in Matches /\ Opened[m].closesAt \in Nat
    BY WatcherConstants
  <2>2. markets[m] = [NoMarket EXCEPT !.matchId = Opened[m].matchId,
                                      !.closesAt = Opened[m].closesAt, !.state = "Open"]
    BY DEF Init
  <2>3. markets[m] = [matchId |-> Opened[m].matchId, closesAt |-> Opened[m].closesAt,
                      qualifyingEventTs |-> 0, state |-> "Open", outcome |-> "Unresolved"]
    BY <2>2 DEF NoMarket
  <2>. QED  BY <2>1, <2>3 DEF Market, MarketStates, Outcomes
<1>3. markets \in [Markets -> Market]
  <2>1. markets = [m \in Markets |-> markets[m]]
    BY DEF Init
  <2>. QED  BY <1>2, <2>1
<1>4. StartTime \in Nat /\ MaxFaults \in Nat
  BY ChainConstants, WatcherConstants
<1>5. Typed
  <2>1. Len(closedLog) = 0
    BY <1>1
  <2>. QED  BY <1>1, <1>2, <1>3, <1>4, <2>1 DEF Typed, Steps
<1>6. Logs = {}
  BY <1>1 DEF Logs
<1>7. LogsInOrder /\ FlightClear /\ LastClear
  BY <1>1, <1>2, <1>6 DEF LogsInOrder, FlightClear, LastClear
<1>8. QueueInOrder /\ HeadOnTime
  BY <1>1 DEF QueueInOrder, HeadOnTime
<1>9. NothingForgotten
  BY <1>6 DEF NothingForgotten, Logs
<1>. QED  BY <1>5, <1>7, <1>8, <1>9 DEF WatchInv

LEMMA WatchKept ==
    ASSUME Patient, WatchInv, [Next]_allVars
    PROVE  WatchInv'
<1>1. CASE UNCHANGED allVars
  <2>1. /\ UNCHANGED <<now, markets, matchCount, simEnabled, simAttestor, productionLocked,
                       expectedWorkflow, lastProducedAt, simNonce>>
        /\ UNCHANGED <<openBets, closedLog, indexed, flight, cursor, queue, step, faults, crashes>>
    BY <1>1 DEF allVars, marketVars, receiverVars, watcherVars
  <2>2. Typed'
    BY <2>1 DEF WatchInv, Typed
  <2>3. Onward /\ LogsInOrder' /\ FlightClear' /\ LastClear'
    BY <2>1, <2>2, LoopKeeps
  <2>4. QueueInOrder' /\ NothingForgotten'
    BY <2>1, <2>2, <2>3, QueueKept DEF WatchInv
  <2>5. HeadOnTime'
    <3>1. HeadItem' = HeadItem /\ HeadItem.market' = HeadItem.market
      BY <2>1 DEF HeadItem, Current
    <3>2. Settled(HeadItem.market)' <=> Settled(HeadItem.market)
      BY <2>1, <3>1 DEF Settled
    <3>3. CaughtUp(HeadItem.market)' <=> CaughtUp(HeadItem.market)
      BY <2>1, <3>1 DEF CaughtUp, Mapped
    <3>4. \A outcome : Submission(HeadItem, outcome)' = Submission(HeadItem, outcome)
      BY <2>1, <3>1 DEF Submission, Attestation, ThisRun, Report, ReportProducedAt, HeadItem, Current
    <3>. QED  BY <2>1, <3>1, <3>2, <3>3, <3>4 DEF WatchInv, HeadOnTime
  <2>. QED  BY <2>2, <2>3, <2>4, <2>5 DEF WatchInv
<1>2. CASE Scan
  BY <1>2, ScanKeeps
<1>3. CASE SkipEmpty
  BY <1>3, SkipEmptyKeeps
<1>4. CASE AlreadySettled
  BY <1>4, AlreadySettledKeeps
<1>5. CASE MatchNotIndexed
  BY <1>5, MatchNotIndexedKeeps
<1>6. CASE StartRun
  BY <1>6, StartRunKeeps
<1>7. CASE RunEnds
  BY <1>7, RunEndsKeeps
<1>8. CASE SettleBets
  BY <1>8, SettleBetsKeeps
<1>9. CASE Restart
  BY <1>9, RestartKeeps
<1>10. CASE Throw
  BY <1>10, ThrowKeeps
<1>11. CASE Crash
  BY <1>11, CrashKeeps
<1>12. CASE Index
  BY <1>12, IndexKeeps
<1>13. CASE Tick
  BY <1>13, TickKeeps
<1>14. ASSUME NEW w \in Wagers, Bet(w) PROVE WatchInv'
  BY <1>14, BetKeeps
<1>15. ASSUME NEW m \in Markets, CloseLogged(m, TRUE) PROVE WatchInv'
  BY <1>15, CloseKeeps
<1>16. ASSUME NEW m \in Markets, CloseLogged(m, FALSE) PROVE WatchInv'
  BY <1>16, CloseKeeps
<1>17. ASSUME NEW m \in Markets, Sweep(m) PROVE WatchInv'
  BY <1>16, <1>17 DEF Sweep
<1>18. ASSUME NEW r \in flight, Land(r) PROVE WatchInv'
  BY <1>18, LandKeeps DEF Patient
<1>19. ASSUME NEW r \in flight, Drop(r) PROVE WatchInv'
  BY <1>19, DropKeeps
<1>. QED
  BY <1>1, <1>2, <1>3, <1>4, <1>5, <1>6, <1>7, <1>8, <1>9, <1>10, <1>11, <1>12, <1>13, <1>14,
     <1>15, <1>16, <1>17, <1>18, <1>19
  DEF Next, WatcherStep

\* Whatever closes, in whatever order, and whatever fails or crashes: as long
\* as there are more attempts than the indexer's lag and the failures use up,
\* a report that is still wanted is never too old for the receiver (the
\* strict order of settlement-watcher.ts main and reportProducedAt).
THEOREM ReportsNeverStale ==
    ASSUME Patient
    PROVE  Spec => []PendingNeverStale
<1>1. Init => WatchInv
  BY WatchBegins
<1>2. WatchInv /\ [Next]_allVars => WatchInv'
  BY WatchKept
<1>3. WatchInv => PendingNeverStale
  BY NeverStale DEF Patient
<1>. QED  BY <1>1, <1>2, <1>3, PTL DEF Spec

\* On the same condition no close with money in it is forgotten: it is still
\* to be scanned or still pending, whatever is given up, lost or restarted.
THEOREM NoCloseForgotten ==
    ASSUME Patient
    PROVE  Spec => []NothingForgotten
<1>1. Init => WatchInv
  BY WatchBegins
<1>2. WatchInv /\ [Next]_allVars => WatchInv'
  BY WatchKept
<1>3. WatchInv => NothingForgotten
  BY DEF WatchInv
<1>. QED  BY <1>1, <1>2, <1>3, PTL DEF Spec
=============================================================================
