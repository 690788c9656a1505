--------------------------- MODULE MatchDayProofs ---------------------------
(***************************************************************************)
(* A match day keeps its markets, whatever the fixtures, however many      *)
(* screens, markets, runs and faults: a market is settled as the fixture   *)
(* is played, and none that is open is lost track of while one fixture is  *)
(* followed from one screen.  First, what sorting by the match clock gives. *)
(***************************************************************************)
EXTENDS MatchDay, OddsMathProofs, FiniteSetTheorems, FunctionTheorems,
        SequenceTheorems

-----------------------------------------------------------------------------
(* Streams *)

\* A fixture's stream is in the order of the match clock.
LEMMA StreamInOrder ==
    ASSUME NEW f \in Fixtures
    PROVE  /\ Len(Stream(f)) \in Nat /\ DOMAIN Stream(f) = 1..Len(Stream(f))
           /\ Stream(f) = <<>> <=> Len(Stream(f)) = 0
           /\ \A i \in 1..Len(Stream(f)) : Stream(f)[i].matchClockSec \in Nat
           /\ \A i, j \in 1..Len(Stream(f)) :
                 i < j => Stream(f)[i].matchClockSec <= Stream(f)[j].matchClockSec
           /\ \A k \in 0..Len(Stream(f)) : SubSeq(Stream(f), 1, k) = [i \in 1..k |-> Stream(f)[i]]
<1>. DEFINE n == Len(Raw[f].events)
            events == [i \in DOMAIN Raw[f].events |-> Normalized(Raw[f].events[i])]
            Earlier(i, j) == \/ events[i].matchClockSec < events[j].matchClockSec
                             \/ events[i].matchClockSec = events[j].matchClockSec /\ i < j
            before == [k \in 1..n |-> {j \in DOMAIN events : Earlier(j, k)}]
            order == [i \in DOMAIN events |->
                         CHOOSE k \in DOMAIN events : Cardinality({j \in DOMAIN events : Earlier(j, k)}) = i - 1]
<1>1. n \in Nat /\ DOMAIN Raw[f].events = 1..n /\ DOMAIN events = 1..n
  BY RawAssumption
<1>2. ASSUME NEW i \in 1..n PROVE events[i].matchClockSec \in Nat
  <2>1. Raw[f].events[i] \in RawEvents
    BY RawAssumption, <1>1
  <2>2. /\ Raw[f].events[i].period \in Periods /\ Raw[f].events[i].sec \in Nat
    BY <2>1 DEF RawEvents
  <2>3. PeriodOffsetSec[Raw[f].events[i].period] \in Nat
    BY <2>2 DEF PeriodOffsetSec, Periods
  <2>4. events[i].matchClockSec = ToMatchClockSec(Raw[f].events[i].period, Raw[f].events[i].sec)
    BY <1>1 DEF Normalized
  <2>. QED  BY <2>2, <2>3, <2>4 DEF ToMatchClockSec
<1>3. Stream(f) = [i \in DOMAIN events |-> events[order[i]]]
  BY DEF Stream, Match, ParseMatch
<1>. HIDE DEF events
<1>4. ASSUME NEW i \in 1..n
      PROVE  order[i] \in 1..n /\ Cardinality(before[order[i]]) = i - 1
  <2>1. before \in [1..n -> SUBSET (1..n)]
    BY <1>1
  <2>2. \A k \in 1..n : k \notin before[k]
    BY <1>1, <1>2
  <2>3. ASSUME NEW j \in 1..n, NEW k \in 1..n, j # k
        PROVE  \/ before[j] \subseteq before[k] /\ j \in before[k]
               \/ before[k] \subseteq before[j] /\ k \in before[j]
    <3>1. CASE Earlier(j, k)
      BY <1>1, <1>2, <2>3, <3>1
    <3>2. CASE Earlier(k, j)
      BY <1>1, <1>2, <2>3, <3>2
    <3>3. Earlier(j, k) \/ Earlier(k, j)
      BY <1>2, <2>3
    <3>. QED  BY <3>1, <3>2, <3>3
  <2>. HIDE DEF before
  <2>4. \E k \in 1..n : Cardinality(before[k]) = i - 1
    BY <1>1, <2>1, <2>2, <2>3, RankTaken
  <2>5. \A k \in 1..n : before[k] = {j \in DOMAIN events : Earlier(j, k)}
    BY DEF before
  <2>6. \E k \in DOMAIN events : Cardinality({j \in DOMAIN events : Earlier(j, k)}) = i - 1
    BY <1>1, <2>4, <2>5
  <2>7. /\ order[i] \in DOMAIN events
        /\ Cardinality({j \in DOMAIN events : Earlier(j, order[i])}) = i - 1
    BY <1>1, <2>6
  <2>. QED  BY <1>1, <2>5, <2>7
<1>. HIDE DEF order
<1>5. ASSUME NEW i \in 1..n, NEW j \in 1..n, i < j
      PROVE  events[order[i]].matchClockSec <= events[order[j]].matchClockSec
  <2>1. PICK p \in 1..n : p = order[i] /\ Cardinality(before[p]) = i - 1
    BY <1>4
  <2>2. PICK q \in 1..n : q = order[j] /\ Cardinality(before[q]) = j - 1
    BY <1>4
  <2>3. events[p].matchClockSec \in Int /\ events[q].matchClockSec \in Int
    BY <1>2
  <2>4. ASSUME events[q].matchClockSec < events[p].matchClockSec PROVE FALSE
    <3>1. \A k \in 1..n : Earlier(k, q) => Earlier(k, p)
      BY <1>2, <2>3, <2>4
    <3>2. before[q] \in SUBSET before[p] /\ before[p] \in SUBSET (1..n)
      BY <1>1, <3>1
    <3>. HIDE DEF before
    <3>3. IsFiniteSet(1..n)
      BY <1>1, FS_Interval
    <3>4. IsFiniteSet(before[p])
      BY <3>2, <3>3, FS_Subset
    <3>5. Cardinality(before[q]) <= Cardinality(before[p])
      BY <3>2, <3>4, FS_Subset
    <3>. QED  BY <1>1, <1>5, <2>1, <2>2, <3>5
  <2>. QED  BY <2>1, <2>2, <2>3, <2>4
<1>6. /\ Stream(f) \in Seq({events[order[i]] : i \in 1..n}) /\ Len(Stream(f)) = n
      /\ \A i \in 1..n : Stream(f)[i] = events[order[i]]
  BY <1>1, <1>3
<1>7. ASSUME NEW k \in 0..n PROVE SubSeq(Stream(f), 1, k) = [i \in 1..k |-> Stream(f)[i]]
  BY <1>1, <1>6
<1>. HIDE DEF n, before
<1>8. \A i \in 1..n : Stream(f)[i].matchClockSec \in Nat
  BY <1>2, <1>4, <1>6
<1>9. \A i, j \in 1..n : i < j => Stream(f)[i].matchClockSec <= Stream(f)[j].matchClockSec
  BY <1>5, <1>6
<1>10. DOMAIN Stream(f) = 1..n /\ (Stream(f) = <<>> <=> n = 0)
  BY <1>6
<1>. QED  BY <1>1, <1>6, <1>7, <1>8, <1>9, <1>10

-----------------------------------------------------------------------------
(* The replays: the current run has emitted a prefix of the fixture, all of *)
(* it at full time and not before.                                          *)

\* How far a run of a fixture has got.
RunOf(f, run) ==
    /\ DOMAIN run = {"started", "emitted", "ended", "room"}
    /\ run.started \in BOOLEAN /\ run.ended \in BOOLEAN
    /\ run.emitted \in 0..Len(Stream(f))
    /\ run.ended => run.emitted = Len(Stream(f))
    /\ run.started /\ ~run.ended => run.emitted < Len(Stream(f))
RunInv == DOMAIN live = Fixtures /\ \A f \in Fixtures : RunOf(f, live[f])

LEMMA NoRunYet == ASSUME NEW f \in Fixtures PROVE RunOf(f, NoRun)
BY StreamInOrder DEF RunOf, NoRun

LEMMA RunInit == Init => RunInv
BY NoRunYet DEF Init, ReplayInit, RunInv

\* What moves a current run: a start, an event, or a restart of the service.
LEMMA LiveSteps ==
    ASSUME [Next]_vars
    PROVE  \/ live' = live
           \/ \E f \in Fixtures : StartReplay(f) \/ Emit(f)
           \/ ReplayRestart
<1>1. CASE ReplayNext
  BY <1>1 DEF ReplayNext, RequestStart, Requests, LoadFails, PlayOn
<1>2. CASE MarketsStep(SchedulerNext)
  BY <1>2 DEF MarketsStep, replayVars
<1>3. CASE PagesStep(PagesNext)
  BY <1>3 DEF PagesStep, PagesNext, WatchMatch, WatchAgain, Requests, Connect, EventsAnswered,
              EventsArrive, Leave, ServiceIdle
<1>4. CASE UNCHANGED vars
  BY <1>4 DEF vars, replayVars
<1>. QED  BY <1>1, <1>2, <1>3, <1>4 DEF Next

\* A run that ends has emitted the whole stream, and each event one by one.
LEMMA RunKept == RunInv /\ [Next]_vars => RunInv'
<1>. SUFFICES ASSUME RunInv, [Next]_vars PROVE RunInv'
  OBVIOUS
<1>1. ASSUME live' = live PROVE RunInv'
  BY <1>1 DEF RunInv
<1>2. ASSUME NEW f \in Fixtures, StartReplay(f) PROVE RunInv'
  <2>. DEFINE Run(room) == [started |-> TRUE, emitted |-> 0, ended |-> Stream(f) = <<>>,
                            room |-> room]
  <2>1. PICK room : live' = [live EXCEPT ![f] = Run(room)]
    BY <1>2 DEF StartReplay
  <2>2. Len(Stream(f)) \in Nat /\ (Stream(f) = <<>> <=> Len(Stream(f)) = 0)
    BY StreamInOrder
  <2>3. RunOf(f, Run(room))
    <3>. DEFINE r == Run(room)
    <3>1. /\ DOMAIN r = {"started", "emitted", "ended", "room"}
          /\ r.started = TRUE /\ r.emitted = 0
      OBVIOUS
    <3>2. r.ended = (Stream(f) = <<>>)
      OBVIOUS
    <3>3. r.ended \in BOOLEAN
      BY <3>2, Zenon
    <3>. HIDE DEF r
    <3>4. ASSUME Stream(f) = <<>> PROVE RunOf(f, r)
      <4>1. r.ended = TRUE
        BY <3>2, <3>4, Zenon
      <4>2. r.emitted \in 0..Len(Stream(f)) /\ r.emitted = Len(Stream(f))
        BY <2>2, <3>1, <3>4
      <4>. QED  BY <3>1, <4>1, <4>2, Zenon DEF RunOf
    <3>5. ASSUME Stream(f) # <<>> PROVE RunOf(f, r)
      <4>1. r.ended = FALSE
        BY <3>2, <3>5, Zenon
      <4>2. r.emitted \in 0..Len(Stream(f)) /\ r.emitted < Len(Stream(f))
        BY <2>2, <3>1, <3>5
      <4>. QED  BY <3>1, <4>1, <4>2, Zenon DEF RunOf
    <3>. QED  BY <3>4, <3>5 DEF r
  <2>. HIDE DEF Run
  <2>. QED  BY <2>1, <2>3 DEF RunInv
<1>3. ASSUME NEW f \in Fixtures, Emit(f) PROVE RunInv'
  <2>1. live' = [live EXCEPT ![f] = Advanced(f, live[f])]
    BY <1>3 DEF Emit, RunInv
  <2>2. RunOf(f, live[f]) /\ live[f].started /\ ~live[f].ended
    BY <1>3 DEF Emit, Playing, Started, RunInv
  <2>3. Len(Stream(f)) \in Nat
    BY StreamInOrder
  <2>4. RunOf(f, Advanced(f, live[f]))
    <3>. DEFINE r == Advanced(f, live[f])
    <3>1. DOMAIN live[f] = {"started", "emitted", "ended", "room"}
      BY <2>2 DEF RunOf
    <3>2. /\ DOMAIN r = {"started", "emitted", "ended", "room"}
          /\ r.started = live[f].started /\ r.emitted = live[f].emitted + 1
      BY <3>1 DEF Advanced
    <3>3. r.ended = (live[f].emitted + 1 = Len(Stream(f)))
      BY <3>1 DEF Advanced
    <3>. HIDE DEF r
    <3>4. /\ live[f].emitted \in Nat /\ live[f].emitted < Len(Stream(f))
          /\ live[f].started \in BOOLEAN
      BY <2>2, <2>3 DEF RunOf
    <3>5. ASSUME live[f].emitted + 1 = Len(Stream(f)) PROVE RunOf(f, r)
      <4>1. r.ended = TRUE
        BY <3>3, <3>5, Zenon
      <4>2. r.emitted \in 0..Len(Stream(f)) /\ r.emitted = Len(Stream(f))
        BY <2>3, <3>2, <3>4, <3>5
      <4>. QED  BY <3>2, <3>4, <4>1, <4>2, Zenon DEF RunOf
    <3>6. ASSUME live[f].emitted + 1 # Len(Stream(f)) PROVE RunOf(f, r)
      <4>1. r.ended = FALSE
        BY <3>3, <3>6, Zenon
      <4>2. r.emitted \in 0..Len(Stream(f)) /\ r.emitted < Len(Stream(f))
        BY <2>3, <3>2, <3>4, <3>6
      <4>. QED  BY <3>2, <3>4, <4>1, <4>2, Zenon DEF RunOf
    <3>. QED  BY <3>5, <3>6 DEF r
  <2>. QED  BY <2>1, <2>4 DEF RunInv
<1>4. ASSUME ReplayRestart PROVE RunInv'
  BY <1>4, NoRunYet DEF ReplayRestart, RunInv
<1>. QED  BY <1>1, <1>2, <1>3, <1>4, LiveSteps

-----------------------------------------------------------------------------
(* The shape of what the scheduler keeps *)

Listings == [marketId : Nat, template : 1..4, teamFilter : 0..2,
             windowStart : Int, windowEnd : Int]
Traded == [fixture : Fixtures, state : {"Open", "Closed", "Resolved", "Voided"},
           outcome : {"Unresolved", "Yes", "No", "Void"},
           template : 1..4, teamFilter : 0..2, windowStart : Int, windowEnd : Int]
Records == [matchId : Nat, open : Seq(Listings), recent : Seq(1..4)]
Polls(f) == [viewer : Viewers, seen : 0..Len(Stream(f)), ended : BOOLEAN]

\* A tick underway, which has no more to close once it writes the file it read.
TickOf(f, t) ==
    /\ DOMAIN t = DOMAIN Idle
    /\ t.stage \in {"idle", "closing", "writing"}
    /\ t.seen \in 0..Len(Stream(f))
    /\ t.todo \in Seq(Listings) /\ t.keep \in Seq(Listings) /\ t.recent \in Seq(1..4)
    /\ t.stage = "writing" => t.todo = <<>> /\ t.file \in [Fixtures -> Records]

SchedulerShape ==
    /\ onchain \in Seq(Traded)
    /\ matches \in Seq(Fixtures)
    /\ store \in [Fixtures -> Records]
    /\ ensuring \in [Viewers -> Nat] /\ \A v \in Viewers : ensuring[v] <= Len(matches)
    /\ DOMAIN queue = Fixtures /\ \A f \in Fixtures : queue[f] \in Seq(Polls(f))
    /\ DOMAIN tick = Fixtures /\ \A f \in Fixtures : TickOf(f, tick[f])

LEMMA IdleTick == ASSUME NEW f \in Fixtures PROVE TickOf(f, Idle)
BY StreamInOrder DEF TickOf, Idle

LEMMA ShapeInit == Init => SchedulerShape
<1>. SUFFICES ASSUME Init PROVE SchedulerShape
  OBVIOUS
<1>1. NoRecord \in Records
  BY DEF NoRecord, Records
<1>2. /\ onchain = <<>> /\ matches = <<>>
      /\ store = [f \in Fixtures |-> NoRecord]
      /\ ensuring = [v \in Viewers |-> 0]
      /\ queue = [f \in Fixtures |-> <<>>]
      /\ tick = [f \in Fixtures |-> Idle]
  BY DEF Init, SchedulerInit
<1>. QED  BY <1>1, <1>2, IdleTick DEF SchedulerShape

\* The newest three of a sequence are a sequence.
LEMMA NewestTyped == ASSUME NEW s \in Seq(1..4) PROVE NewestThree(s) \in Seq(1..4)
<1>1. Len(s) \in Nat /\ \A i \in 1..Len(s) : s[i] \in 1..4
  OBVIOUS
<1>2. \E x \in {3, Len(s)} : \A y \in {3, Len(s)} : x <= y
  BY <1>1
<1>3. Min({3, Len(s)}) \in {3, Len(s)} /\ \A y \in {3, Len(s)} : Min({3, Len(s)}) <= y
  BY <1>2 DEF Min
<1>. DEFINE n == Min({3, Len(s)})
<1>4. n \in Nat /\ n <= Len(s)
  BY <1>1, <1>3
<1>. HIDE DEF n
<1>5. \A i \in 1..n : s[i] \in 1..4
  BY <1>1, <1>4
<1>6. SubSeq(s, 1, n) \in Seq(1..4)
  <2>1. n \in Int /\ 1 \in Int
    BY <1>4
  <2>. QED  BY <1>5, <2>1, SubSeqProperties, Zenon
<1>. QED  BY <1>6 DEF n, NewestThree

LEMMA CursorInt ==
    ASSUME NEW f \in Fixtures, NEW k \in 0..Len(Stream(f))
    PROVE  CursorAt(Stream(f), k) \in Nat
BY StreamInOrder DEF CursorAt

LEMMA IdsOf == ASSUME NEW s PROVE Ids(s) = {m.marketId : m \in Range(s)}
BY DEF Ids, Range

\* What a tick decides: every market it was given is closed or kept.
LEMMA DecisionShape ==
    ASSUME SchedulerShape, NEW f \in Fixtures, NEW req \in Polls(f), NEW kept \in Seq(Listings)
    PROVE  /\ TickOf(f, Decision(f, req, kept))
           /\ Decision(f, req, kept).stage = "closing"
           /\ Ids(Decision(f, req, kept).todo) \subseteq Ids(kept)
           /\ Ids(kept) = Ids(Decision(f, req, kept).todo) \cup Ids(Decision(f, req, kept).keep)
<1>. DEFINE d == Decision(f, req, kept)
            now == CursorAt(Stream(f), req.seen)
            restarted == \E i \in DOMAIN kept : kept[i].windowStart > now
            keep == IF restarted \/ req.ended THEN <<>> ELSE Running(kept, now)
<1>1. /\ DOMAIN d = DOMAIN Idle /\ d.stage = "closing" /\ d.seen = req.seen
      /\ d.keep = keep /\ d.todo = Without(kept, Ids(keep))
      /\ d.recent = IF restarted THEN <<>> ELSE store[f].recent
  BY DEF Decision, Idle
<1>2. store[f].recent \in Seq(1..4)
  BY DEF SchedulerShape, Records
<1>3. req.seen \in 0..Len(Stream(f))
  BY DEF Polls
<1>. HIDE DEF d, restarted, now
<1>4. keep \in Seq(Listings) /\ Range(keep) \subseteq Range(kept)
  <2>1. Running(kept, now) \in Seq(Listings) /\ Range(Running(kept, now)) \subseteq Range(kept)
    BY AmongPicks DEF Running
  <2>2. <<>> \in Seq(Listings) /\ Range(<<>>) = {}
    BY DEF Range
  <2>. QED  BY <2>1, <2>2
<1>. HIDE DEF keep
<1>5. /\ d.todo \in Seq(Listings)
      /\ Range(d.todo) = Range(kept) \cap {m \in Range(kept) : m.marketId \notin Ids(keep)}
  BY <1>1, AmongPicks DEF Without
<1>6. d.recent \in Seq(1..4)
  BY <1>1, <1>2
<1>7. TickOf(f, d)
  BY <1>1, <1>3, <1>4, <1>5, <1>6 DEF TickOf
<1>8. Ids(d.todo) \subseteq Ids(kept) /\ Ids(kept) = Ids(d.todo) \cup Ids(d.keep)
  BY <1>1, <1>4, <1>5, IdsOf
<1>. QED  BY <1>1, <1>7, <1>8 DEF d

\* A step changes what the scheduler keeps, or leaves all of it alone.
LEMMA SchedulerSteps == [Next]_vars => SchedulerNext \/ UNCHANGED schedulerVars
BY DEF Next, MarketsStep, PagesStep, vars

\* What happens to a market on chain, which never leaves it.
LEMMA MarketMoves ==
    ASSUME SchedulerShape, NEW id \in DOMAIN onchain,
           NEW s \in {"Open", "Closed", "Resolved", "Voided"},
           NEW o \in {"Unresolved", "Yes", "No", "Void"}
    PROVE  /\ [onchain EXCEPT ![id].state = s] \in Seq(Traded)
           /\ [onchain EXCEPT ![id].outcome = o, ![id].state = s] \in Seq(Traded)
<1>1. onchain \in Seq(Traded) /\ id \in 1..Len(onchain) /\ onchain[id] \in Traded
  BY DEF SchedulerShape
<1>2. /\ [onchain[id] EXCEPT !.state = s] \in Traded
      /\ [onchain[id] EXCEPT !.outcome = o, !.state = s] \in Traded
  BY <1>1 DEF Traded
<1>3. /\ [onchain EXCEPT ![id] = [onchain[id] EXCEPT !.state = s]] \in Seq(Traded)
      /\ [onchain EXCEPT ![id] = [onchain[id] EXCEPT !.outcome = o, !.state = s]] \in Seq(Traded)
  BY <1>1, <1>2, ExceptSeq
<1>4. /\ [onchain EXCEPT ![id].state = s]
            = [onchain EXCEPT ![id] = [onchain[id] EXCEPT !.state = s]]
      /\ [onchain EXCEPT ![id].outcome = o, ![id].state = s]
            = [onchain EXCEPT ![id] = [onchain[id] EXCEPT !.outcome = o, !.state = s]]
  OBVIOUS
<1>. QED  BY <1>3, <1>4

\* The shape is kept while the replays are what they should be.
LEMMA ShapeKept == SchedulerShape /\ RunInv /\ [Next]_vars => SchedulerShape'
<1>. SUFFICES ASSUME SchedulerShape, RunInv, [Next]_vars PROVE SchedulerShape'
  OBVIOUS
<1>0. CASE UNCHANGED schedulerVars
  BY <1>0 DEF schedulerVars, SchedulerShape
<1>. SUFFICES ASSUME SchedulerNext PROVE SchedulerShape'
  BY <1>0, SchedulerSteps
<1>1. ASSUME NEW v \in Viewers, NEW f \in Fixtures, Ensure(v, f) PROVE SchedulerShape'
  <2>1. matches' \in Seq(Fixtures) /\ Len(matches') = Len(matches) + 1 /\ Len(matches) \in Nat
    BY <1>1 DEF Ensure, SchedulerShape
  <2>2. ensuring' \in [Viewers -> Nat] /\ \A w \in Viewers : ensuring'[w] <= Len(matches')
    BY <1>1, <2>1 DEF Ensure, SchedulerShape
  <2>. QED  BY <1>1, <2>1, <2>2 DEF Ensure, SchedulerShape
<1>2. ASSUME NEW v \in Viewers, Ensured(v) PROVE SchedulerShape'
  <2>1. ensuring[v] \in 1..Len(matches)
    BY <1>2 DEF Ensured, SchedulerShape
  <2>2. [NoRecord EXCEPT !.matchId = ensuring[v]] \in Records
    <3>1. ensuring[v] \in Nat
      BY DEF SchedulerShape
    <3>2. [NoRecord EXCEPT !.matchId = ensuring[v]]
             = [matchId |-> ensuring[v], open |-> <<>>, recent |-> <<>>]
      BY DEF NoRecord
    <3>3. <<>> \in Seq(Listings) /\ <<>> \in Seq(1..4)
      OBVIOUS
    <3>. QED  BY <3>1, <3>2, <3>3, Zenon DEF Records
  <2>3. store' \in [Fixtures -> Records]
    BY <1>2, <2>1, <2>2 DEF Ensured, SchedulerShape
  <2>4. ensuring' \in [Viewers -> Nat] /\ \A w \in Viewers : ensuring'[w] <= Len(matches)
    BY <1>2 DEF Ensured, SchedulerShape
  <2>. QED  BY <1>2, <2>3, <2>4 DEF Ensured, SchedulerShape
<1>3. ASSUME NEW v \in Viewers, NEW f \in Fixtures, Poll(v, f) PROVE SchedulerShape'
  <2>. DEFINE req == [viewer |-> v, seen |-> live[f].emitted, ended |-> Finished(f)]
  <2>1. Finished(f) \in BOOLEAN
    BY Zenon DEF Finished
  <2>2. live[f].emitted \in 0..Len(Stream(f))
    BY DEF RunInv, RunOf
  <2>3. req \in Polls(f)
    BY <2>1, <2>2, Zenon DEF Polls
  <2>. HIDE DEF req
  <2>4. queue' = [queue EXCEPT ![f] = Append(queue[f], req)]
    BY <1>3 DEF Poll, req, SchedulerShape
  <2>5. Append(queue[f], req) \in Seq(Polls(f))
    BY <2>3 DEF SchedulerShape
  <2>. QED  BY <1>3, <2>4, <2>5 DEF Poll, SchedulerShape
<1>4. ASSUME NEW f \in Fixtures, TickStart(f) PROVE SchedulerShape'
  <2>1. PICK unread :
           tick' = [tick EXCEPT ![f] = Decision(f, Head(queue[f]), StillOpen(store[f].open, unread))]
    BY <1>4 DEF TickStart
  <2>2. Head(queue[f]) \in Polls(f) /\ Tail(queue[f]) \in Seq(Polls(f))
    BY <1>4, HeadTailProperties DEF TickStart, SchedulerShape
  <2>3. StillOpen(store[f].open, unread) \in Seq(Listings)
    BY AmongPicks DEF StillOpen, SchedulerShape, Records
  <2>4. TickOf(f, Decision(f, Head(queue[f]), StillOpen(store[f].open, unread)))
    BY <2>2, <2>3, DecisionShape
  <2>. QED  BY <1>4, <2>1, <2>2, <2>4 DEF TickStart, SchedulerShape
<1>5. ASSUME NEW f \in Fixtures, TickClose(f) PROVE SchedulerShape'
  <2>. DEFINE id == Head(tick[f].todo).marketId
  <2>1. onchain' = onchain \/ onchain' = [onchain EXCEPT ![id].state = IF @ = "Open" THEN "Closed" ELSE @]
    BY <1>5 DEF TickClose
  <2>2. onchain' \in Seq(Traded)
    <3>1. CASE id \notin DOMAIN onchain
      BY <2>1, <3>1 DEF SchedulerShape
    <3>2. CASE id \in DOMAIN onchain
      <4>. DEFINE s == IF onchain[id].state = "Open" THEN "Closed" ELSE onchain[id].state
      <4>1. onchain[id] \in Traded
        BY <3>2 DEF SchedulerShape
      <4>2. s \in {"Open", "Closed", "Resolved", "Voided"}
        BY <4>1 DEF Traded
      <4>3. [onchain EXCEPT ![id].state = s] \in Seq(Traded)
        BY <3>2, <4>2, MarketMoves
      <4>. QED  BY <2>1, <3>2, <4>3 DEF SchedulerShape
    <3>. QED  BY <3>1, <3>2
  <2>3. tick' = [tick EXCEPT ![f].todo = Tail(tick[f].todo)]
    BY <1>5 DEF TickClose, SchedulerShape
  <2>4. TickOf(f, [tick[f] EXCEPT !.todo = Tail(tick[f].todo)])
    <3>1. Tail(tick[f].todo) \in Seq(Listings)
      BY <1>5, HeadTailProperties DEF TickClose, SchedulerShape, TickOf
    <3>. QED  BY <1>5, <3>1 DEF TickClose, SchedulerShape, TickOf, Idle
  <2>5. /\ DOMAIN tick' = Fixtures /\ tick'[f] = [tick[f] EXCEPT !.todo = Tail(tick[f].todo)]
        /\ \A g \in Fixtures : g # f => tick'[g] = tick[g]
    BY <2>3 DEF SchedulerShape
  <2>. QED  BY <1>5, <2>2, <2>4, <2>5 DEF TickClose, SchedulerShape
<1>6. ASSUME NEW f \in Fixtures, TickOpen(f) PROVE SchedulerShape'
  <2>1. PICK q \in AllQuestions :
           LET m == Opened(f, tick[f], q)
           IN  /\ onchain' = Append(onchain, m)
               /\ tick' = [tick EXCEPT ![f].opens = FALSE,
                                       ![f].keep = Append(@, Recorded(Len(onchain) + 1, m)),
                                       ![f].recent = NewestThree(<<q.template>> \o @)]
    BY <1>6 DEF TickOpen
  <2>. DEFINE m == Opened(f, tick[f], q)
              l == Recorded(Len(onchain) + 1, m)
              recent == NewestThree(<<q.template>> \o tick[f].recent)
              t == [tick[f] EXCEPT !.opens = FALSE, !.keep = Append(tick[f].keep, l), !.recent = recent]
  <2>2. q.template \in 1..4 /\ q.teamFilter \in 0..2
    BY DEF AllQuestions
  <2>3. m \in Traded
    <3>1. CursorAt(Stream(f), tick[f].seen) \in Nat
      BY CursorInt DEF SchedulerShape, TickOf
    <3>2. TemplateWindowSec[q.template] \in Int
      BY <2>2 DEF TemplateWindowSec
    <3>. QED  BY <2>2, <3>1, <3>2 DEF Opened, Traded
  <2>4. l \in Listings
    <3>1. Len(onchain) + 1 \in Nat
      BY DEF SchedulerShape
    <3>. HIDE DEF m
    <3>. QED  BY <2>3, <3>1 DEF Recorded, Traded, Listings
  <2>5. recent \in Seq(1..4)
    <3>1. <<q.template>> \in Seq(1..4) /\ tick[f].recent \in Seq(1..4)
      BY <2>2 DEF SchedulerShape, TickOf
    <3>2. <<q.template>> \o tick[f].recent \in Seq(1..4)
      BY <3>1, ConcatProperties
    <3>. QED  BY <3>2, NewestTyped
  <2>. HIDE DEF l, recent
  <2>6. TickOf(f, t)
    <3>1. TickOf(f, tick[f])
      BY DEF SchedulerShape
    <3>2. /\ DOMAIN t = DOMAIN Idle /\ t.stage = tick[f].stage /\ t.seen = tick[f].seen
          /\ t.todo = tick[f].todo /\ t.keep = Append(tick[f].keep, l) /\ t.recent = recent
          /\ t.file = tick[f].file
      BY <3>1 DEF TickOf, Idle
    <3>3. t.keep \in Seq(Listings)
      BY <2>4, <3>1, <3>2 DEF TickOf
    <3>. QED  BY <2>5, <3>1, <3>2, <3>3 DEF TickOf
  <2>7. /\ DOMAIN tick' = Fixtures /\ tick'[f] = t
        /\ \A g \in Fixtures : g # f => tick'[g] = tick[g]
    BY <2>1 DEF SchedulerShape, l, recent
  <2>8. onchain' \in Seq(Traded)
    BY <2>1, <2>3 DEF SchedulerShape
  <2>. QED  BY <1>6, <2>6, <2>7, <2>8 DEF TickOpen, SchedulerShape
<1>7. ASSUME NEW f \in Fixtures, TickReadFile(f) PROVE SchedulerShape'
  <2>. DEFINE t == [tick[f] EXCEPT !.stage = "writing", !.file = store]
  <2>1. TickOf(f, tick[f]) /\ tick[f].todo = <<>>
    BY <1>7 DEF TickReadFile, SchedulerShape
  <2>2. TickOf(f, t)
    BY <2>1 DEF TickOf, Idle, SchedulerShape
  <2>3. /\ DOMAIN tick' = Fixtures /\ tick'[f] = t
        /\ \A g \in Fixtures : g # f => tick'[g] = tick[g]
    BY <1>7 DEF TickReadFile, SchedulerShape
  <2>. QED  BY <1>7, <2>2, <2>3 DEF TickReadFile, SchedulerShape
<1>8. ASSUME NEW f \in Fixtures, TickWriteFile(f) PROVE SchedulerShape'
  <2>1. TickOf(f, tick[f]) /\ tick[f].stage = "writing"
    BY <1>8 DEF TickWriteFile, SchedulerShape
  <2>2. /\ tick[f].file \in [Fixtures -> Records]
        /\ tick[f].keep \in Seq(Listings) /\ tick[f].recent \in Seq(1..4)
    BY <2>1 DEF TickOf
  <2>3. store' \in [Fixtures -> Records]
    BY <1>8, <2>2 DEF TickWriteFile, Records
  <2>. QED  BY <1>8, <2>3, IdleTick DEF TickWriteFile, SchedulerShape
<1>9. ASSUME NEW f \in Fixtures, TickFails(f) PROVE SchedulerShape'
  BY <1>9, IdleTick DEF TickFails, SchedulerShape
<1>10. ASSUME NEW id \in DOMAIN onchain, CloseByWatcher(id) PROVE SchedulerShape'
  <2>1. onchain' \in Seq(Traded)
    BY <1>10, MarketMoves DEF CloseByWatcher
  <2>. QED  BY <1>10, <2>1 DEF CloseByWatcher, SchedulerShape
<1>11. ASSUME NEW id \in DOMAIN onchain, Settle(id) PROVE SchedulerShape'
  <2>. DEFINE answer == Answer(onchain[id].fixture, onchain[id])
              s == IF answer.outcome = "Void" THEN "Voided" ELSE "Resolved"
  <2>1. answer.outcome \in {"Yes", "No", "Void"}
    BY DEF Answer, ResolveMarket
  <2>2. onchain' = [onchain EXCEPT ![id].outcome = answer.outcome, ![id].state = s]
    BY <1>11 DEF Settle
  <2>. HIDE DEF answer
  <2>3. onchain' \in Seq(Traded)
    BY <2>1, <2>2, MarketMoves
  <2>. QED  BY <1>11, <2>3 DEF Settle, SchedulerShape
<1>. QED  BY <1>1, <1>2, <1>3, <1>4, <1>5, <1>6, <1>7, <1>8, <1>9, <1>10, <1>11
          DEF SchedulerNext, TickStep

-----------------------------------------------------------------------------
(* Settlement *)

\* What decides a window of a stream.
Hits(events, template, windowStart, windowEnd, teamId) ==
    {i \in DOMAIN events : /\ InWindow(events[i], windowStart, windowEnd)
                           /\ Qualifies(events[i], template, teamId)}

LEMMA OutcomeOfHits ==
    ASSUME NEW events, NEW template, NEW a, NEW b, NEW team
    PROVE  /\ ResolveMarket(events, template, a, b, team).outcome \in {"Yes", "No"}
           /\ ResolveMarket(events, template, a, b, team).outcome = "No"
                 <=> Hits(events, template, a, b, team) = {}
BY DEF ResolveMarket, Hits

\* What a window has come to when a run is past it, or at full time, is what it
\* comes to in the fixture.
LEMMA WholeWindow ==
    ASSUME NEW f \in Fixtures, NEW k \in 0..Len(Stream(f)), NEW a \in Int, NEW b \in Int,
           b <= CursorAt(Stream(f), k) \/ k = Len(Stream(f)),
           NEW template, NEW team
    PROVE  ResolveMarket(SubSeq(Stream(f), 1, k), template, a, b, team).outcome
              = ResolveMarket(Stream(f), template, a, b, team).outcome
<1>. DEFINE s == Stream(f)
            shown == SubSeq(s, 1, k)
<1>1. /\ Len(s) \in Nat /\ DOMAIN s = 1..Len(s)
      /\ \A i \in 1..Len(s) : s[i].matchClockSec \in Nat
      /\ \A i, j \in 1..Len(s) : i < j => s[i].matchClockSec <= s[j].matchClockSec
      /\ shown = [i \in 1..k |-> s[i]]
  BY StreamInOrder
<1>2. DOMAIN shown = 1..k /\ \A i \in 1..k : shown[i] = s[i]
  BY <1>1
<1>3. k \in 0..Len(s) /\ (b <= CursorAt(s, k) \/ k = Len(s))
  OBVIOUS
<1>. HIDE DEF s, shown
<1>6. Len(s) \in Nat
  BY <1>1
<1>7. k \in 0..Len(s)
  BY <1>3
<1>4. ASSUME NEW i \in 1..Len(s), InWindow(s[i], a, b) PROVE i \in 1..k
  <2>1. s[i].matchClockSec < b /\ s[i].matchClockSec \in Nat
    BY <1>1, <1>4 DEF InWindow
  <2>5. k \in Nat /\ i \in Nat /\ i >= 1 /\ i <= Len(s) /\ k <= Len(s)
    BY <1>6, <1>7
  <2>6. SUFFICES ~(k < i)
    BY <2>5
  <2>2. CASE k = Len(s)
    BY <1>1, <2>2, <2>5
  <2>3. CASE k # Len(s) /\ k = 0
    <3>1. b <= 0
      BY <1>3, <2>3 DEF CursorAt
    <3>. QED  BY <2>1, <3>1
  <2>4. CASE k # Len(s) /\ k > 0
    <3>3. CursorAt(s, k) = s[k].matchClockSec
      BY <2>4 DEF CursorAt
    <3>4. b <= CursorAt(s, k)
      BY <1>3, <2>4
    <3>5. b <= s[k].matchClockSec
      BY <3>3, <3>4
    <3>6. k \in 1..Len(s)
      BY <2>4, <2>5
    <3>1. b <= s[k].matchClockSec /\ k \in 1..Len(s)
      BY <3>5, <3>6
    <3>2. s[k].matchClockSec \in Nat /\ (k < i => s[k].matchClockSec <= s[i].matchClockSec)
      BY <1>1, <3>1
    <3>. QED  BY <2>1, <3>1, <3>2
  <2>. QED  BY <2>2, <2>3, <2>4, <2>5
<1>5. Hits(shown, template, a, b, team) = Hits(s, template, a, b, team)
  <2>1. 1..k \subseteq 1..Len(s)
    BY <1>1, <1>3
  <2>. QED  BY <1>1, <1>2, <1>4, <2>1, Zenon DEF Hits
<1>. QED  BY <1>5, OutcomeOfHits DEF s, shown

\* What a market comes to in the fixture it was opened on.
Truth(m) == ResolveMarket(Stream(m.fixture), m.template, m.windowStart, m.windowEnd,
                          TeamIdFor(m.teamFilter, Match[m.fixture].teams))
SettledRight(m) == m.state = "Resolved" => m.outcome = Truth(m).outcome
AllSettledRight == \A id \in DOMAIN onchain : SettledRight(onchain[id])

\* The same market with another state and outcome comes to the same.
LEMMA SameTruth ==
    ASSUME NEW m \in Traded, NEW s, NEW o
    PROVE  /\ Truth([m EXCEPT !.state = s]) = Truth(m)
           /\ Truth([m EXCEPT !.outcome = o, !.state = s]) = Truth(m)
BY DEF Truth, Traded

\* Only a whole window is answered Yes or No.
LEMMA AnswerIsTruth ==
    ASSUME RunInv, NEW m \in Traded
    PROVE  \/ Answer(m.fixture, m).outcome = "Void"
           \/ Answer(m.fixture, m).outcome = Truth(m).outcome
<1>. DEFINE f == m.fixture
            k == live[f].emitted
<1>1. f \in Fixtures /\ m.windowStart \in Int /\ m.windowEnd \in Int
  BY DEF Traded
<1>2. RunOf(f, live[f])
  BY <1>1 DEF RunInv
<1>3. CASE ~Played(f, m.windowStart, m.windowEnd)
  BY <1>3 DEF Answer
<1>4. CASE Played(f, m.windowStart, m.windowEnd)
  <2>1. k \in 0..Len(Stream(f)) /\ (m.windowEnd <= CursorAt(Stream(f), k) \/ k = Len(Stream(f)))
    BY <1>2, <1>4 DEF Played, Cursor, Finished, RunOf
  <2>2. Answer(f, m) = ResolveMarket(SubSeq(Stream(f), 1, k), m.template, m.windowStart,
                           m.windowEnd, TeamIdFor(m.teamFilter, Match[f].teams))
    BY <1>4 DEF Answer, Emitted
  <2>. HIDE DEF f, k
  <2>3. Answer(f, m).outcome = ResolveMarket(Stream(f), m.template, m.windowStart,
                           m.windowEnd, TeamIdFor(m.teamFilter, Match[f].teams)).outcome
    BY <1>1, <2>1, <2>2, WholeWindow
  <2>. QED  BY <2>3 DEF f, Truth
<1>. QED  BY <1>3, <1>4

LEMMA SettledRightKept ==
    AllSettledRight /\ SchedulerShape /\ RunInv /\ [Next]_vars => AllSettledRight'
<1>. SUFFICES ASSUME AllSettledRight, SchedulerShape, RunInv, [Next]_vars
              PROVE  AllSettledRight'
  OBVIOUS
<1>1. CASE onchain' = onchain
  BY <1>1 DEF AllSettledRight
<1>2. ASSUME NEW id \in DOMAIN onchain, NEW s, s # "Resolved" \/ s = onchain[id].state,
             onchain' = [onchain EXCEPT ![id].state = s]
      PROVE  AllSettledRight'
  <2>1. onchain[id] \in Traded
    BY DEF SchedulerShape
  <2>2. /\ DOMAIN onchain' = DOMAIN onchain
        /\ onchain'[id] = [onchain[id] EXCEPT !.state = s]
        /\ \A x \in DOMAIN onchain : x # id => onchain'[x] = onchain[x]
    BY <1>2
  <2>3. SettledRight([onchain[id] EXCEPT !.state = s])
    <3>1. /\ [onchain[id] EXCEPT !.state = s].state = s
          /\ [onchain[id] EXCEPT !.state = s].outcome = onchain[id].outcome
      BY <2>1 DEF Traded
    <3>. QED  BY <1>2, <2>1, <3>1, SameTruth DEF SettledRight, AllSettledRight
  <2>. QED  BY <2>2, <2>3 DEF AllSettledRight
<1>3. ASSUME NEW f \in Fixtures, TickClose(f) PROVE AllSettledRight'
  <2>. DEFINE id == Head(tick[f].todo).marketId
  <2>1. CASE onchain' = onchain
    BY <1>1, <2>1
  <2>2. CASE onchain' = [onchain EXCEPT ![id].state = IF @ = "Open" THEN "Closed" ELSE @]
    <3>1. CASE id \notin DOMAIN onchain
      <4>1. onchain' = onchain
        BY <2>2, <3>1 DEF SchedulerShape
      <4>. QED  BY <1>1, <4>1
    <3>2. CASE id \in DOMAIN onchain
      <4>. DEFINE s == IF onchain[id].state = "Open" THEN "Closed" ELSE onchain[id].state
      <4>1. onchain' = [onchain EXCEPT ![id].state = s]
        BY <2>2, <3>2
      <4>2. s # "Resolved" \/ s = onchain[id].state
        OBVIOUS
      <4>. HIDE DEF id, s
      <4>. QED  BY <1>2, <3>2, <4>1, <4>2
    <3>. QED  BY <3>1, <3>2
  <2>. QED  BY <1>3, <2>1, <2>2 DEF TickClose
<1>4. ASSUME NEW f \in Fixtures, TickOpen(f) PROVE AllSettledRight'
  <2>1. PICK q : onchain' = Append(onchain, Opened(f, tick[f], q))
    BY <1>4 DEF TickOpen
  <2>. DEFINE m == Opened(f, tick[f], q)
  <2>2. m.state = "Open"
    BY DEF Opened
  <2>. HIDE DEF m
  <2>3. SettledRight(m)
    BY <2>2 DEF SettledRight
  <2>4. \A x \in DOMAIN onchain' : \/ x \in DOMAIN onchain /\ onchain'[x] = onchain[x]
                                   \/ onchain'[x] = m
    BY <2>1 DEF SchedulerShape, m
  <2>. QED  BY <2>3, <2>4 DEF AllSettledRight
<1>5. ASSUME NEW id \in DOMAIN onchain, CloseByWatcher(id) PROVE AllSettledRight'
  BY <1>2, <1>5 DEF CloseByWatcher
<1>6. ASSUME NEW id \in DOMAIN onchain, Settle(id) PROVE AllSettledRight'
  <2>. DEFINE m == onchain[id]
              answer == Answer(m.fixture, m)
              s == IF answer.outcome = "Void" THEN "Voided" ELSE "Resolved"
              settled == [m EXCEPT !.outcome = answer.outcome, !.state = s]
  <2>1. m \in Traded
    BY DEF SchedulerShape
  <2>2. answer.outcome = "Void" \/ answer.outcome = Truth(m).outcome
    BY <2>1, AnswerIsTruth
  <2>3. /\ DOMAIN onchain' = DOMAIN onchain /\ onchain'[id] = settled
        /\ \A x \in DOMAIN onchain : x # id => onchain'[x] = onchain[x]
    BY <1>6 DEF Settle
  <2>. HIDE DEF answer
  <2>4. settled.state = s /\ settled.outcome = answer.outcome
    BY <2>1 DEF Traded
  <2>5. Truth(settled) = Truth(m)
    BY <2>1, SameTruth
  <2>. HIDE DEF m, settled
  <2>6. SettledRight(settled)
    BY <2>2, <2>4, <2>5 DEF SettledRight
  <2>. QED  BY <2>3, <2>6 DEF AllSettledRight
<1>7. CASE SchedulerNext
  <2>1. ASSUME NEW v \in Viewers, NEW f \in Fixtures, Ensured(v) \/ Ensure(v, f) \/ Poll(v, f)
        PROVE  onchain' = onchain
    BY <2>1 DEF Ensured, Ensure, Poll
  <2>2. ASSUME NEW v \in Viewers, Ensured(v) PROVE onchain' = onchain
    BY <2>2 DEF Ensured
  <2>3. ASSUME NEW f \in Fixtures, TickStart(f) \/ TickReadFile(f) \/ TickWriteFile(f) \/ TickFails(f)
        PROVE  onchain' = onchain
    BY <2>3 DEF TickStart, TickReadFile, TickWriteFile, TickFails
  <2>. QED  BY <1>1, <1>3, <1>4, <1>5, <1>6, <1>7, <2>1, <2>2, <2>3 DEF SchedulerNext, TickStep
<1>8. CASE UNCHANGED schedulerVars
  BY <1>1, <1>8 DEF schedulerVars
<1>. QED  BY <1>7, <1>8, SchedulerSteps

\* A page that shows a market as decided shows what it comes to.
LEMMA DecidedEarlyIsYes ==
    ASSUME NEW f \in Fixtures, NEW m, NEW seen \in 0..Len(Stream(f)), IsDecided(f, m, seen)
    PROVE  ResolveMarket(Stream(f), m.template, m.windowStart, m.windowEnd,
                         TeamIdFor(m.teamFilter, Match[f].teams)).outcome = "Yes"
<1>. DEFINE s == Stream(f)
            team == TeamIdFor(m.teamFilter, Match[f].teams)
<1>1. /\ Len(s) \in Nat /\ DOMAIN s = 1..Len(s)
      /\ SubSeq(s, 1, seen) = [i \in 1..seen |-> s[i]]
  BY StreamInOrder
<1>2. \E i \in DOMAIN SubSeq(s, 1, seen) :
         /\ InWindow(SubSeq(s, 1, seen)[i], m.windowStart, m.windowEnd)
         /\ Qualifies(SubSeq(s, 1, seen)[i], m.template, team)
  BY DEF IsDecided, LiveWindow
<1>. HIDE DEF team, s
<1>3. PICK i \in 1..seen : InWindow(s[i], m.windowStart, m.windowEnd) /\ Qualifies(s[i], m.template, team)
  BY <1>1, <1>2
<1>4. i \in DOMAIN s
  BY <1>1 DEF s
<1>5. Hits(s, m.template, m.windowStart, m.windowEnd, team) # {}
  BY <1>3, <1>4 DEF Hits
<1>. QED  BY <1>5, OutcomeOfHits DEF s, team

\* A market is resolved only with the outcome its whole window has in the
\* fixture, whatever runs there were, restarts and pages (match-data server.ts
\* /settlement), and a page's "YES waiting to settle" is one.
THEOREM SettledAsItWas == Spec => []SettledAsPlayed
<1>. DEFINE Inv == RunInv /\ SchedulerShape /\ AllSettledRight
<1>1. Init => Inv
  <2>1. Init => AllSettledRight
    BY DEF Init, SchedulerInit, AllSettledRight
  <2>. QED  BY <2>1, RunInit, ShapeInit
<1>2. Inv /\ [Next]_vars => Inv'
  BY RunKept, ShapeKept, SettledRightKept
<1>3. Inv => SettledAsPlayed
  <2>. SUFFICES ASSUME Inv PROVE SettledAsPlayed
    OBVIOUS
  <2>1. ASSUME NEW id \in DOMAIN onchain
        PROVE  LET m == onchain[id]
                   f == m.fixture
                   truth == ResolveMarket(Stream(f), m.template, m.windowStart, m.windowEnd,
                                          TeamIdFor(m.teamFilter, Match[f].teams))
               IN  /\ m.state = "Resolved" => m.outcome = truth.outcome
                   /\ \A seen \in 0..Len(Stream(f)) :
                         \A shown \in LiveMarkets(f, {m}, seen, FALSE) :
                            IsDecided(f, shown, seen) => truth.outcome = "Yes"
    <3>. DEFINE m == onchain[id]
                f == m.fixture
    <3>1. f \in Fixtures
      <4>1. m \in Traded
        BY DEF SchedulerShape
      <4>. QED  BY <4>1 DEF Traded
    <3>2. m.state = "Resolved" => m.outcome = Truth(m).outcome
      BY DEF AllSettledRight, SettledRight
    <3>. HIDE DEF m
    <3>3. ASSUME NEW seen \in 0..Len(Stream(f)), NEW shown \in LiveMarkets(f, {m}, seen, FALSE),
                 IsDecided(f, shown, seen)
          PROVE  Truth(m).outcome = "Yes"
      <4>1. shown = m
        BY <3>3 DEF LiveMarkets
      <4>. QED  BY <3>1, <3>3, <4>1, DecidedEarlyIsYes DEF Truth
    <3>. QED  BY <3>2, <3>3, Zenon DEF Truth, m
  <2>. QED  BY <2>1 DEF SettledAsPlayed
<1>. HIDE DEF Inv
<1>. QED  BY <1>1, <1>2, <1>3, PTL DEF Spec

-----------------------------------------------------------------------------
(* What the record and the tick underway have in hand *)

\* One fixture is followed, and one screen may be the first to show it: two
\* first screens make two matches of a fixture, and two fixtures' ticks write
\* over each other's records, as the runs show.
OneAtATime == /\ \A f, g \in Fixtures : f = g
              /\ \A v, w \in Openers : v = w

\* The markets of a fixture that are open and that no failure let go.
OpenIds(f) == {id \in DOMAIN onchain \ dropped :
                  onchain[id].fixture = f /\ onchain[id].state = "Open"}

\* Where the scheduler has its markets: a tick takes them from the record.
InHand(f) == IF tick[f].stage = "idle" THEN Ids(store[f].open)
             ELSE Ids(tick[f].todo) \cup Ids(tick[f].keep)

\* A fixture without a match has no polls, no tick and no market; a match is
\* awaited only until there is a record; what a tick closes was on the record.
BookOf(f) ==
    /\ store[f] = NoRecord \/ store[f].matchId # 0
    /\ store[f].matchId = 0 => /\ queue[f] = <<>> /\ tick[f].stage = "idle"
                               /\ \A id \in DOMAIN onchain : onchain[id].fixture # f
    /\ \A v \in Viewers : ensuring[v] # 0 => v \in Openers /\ store[f].matchId = 0
    /\ tick[f].stage # "idle" => Ids(tick[f].todo) \subseteq Ids(store[f].open)
    /\ tick[f].stage = "writing" => tick[f].file[f].matchId # 0
    /\ OpenIds(f) \subseteq InHand(f)

BooksKept == \A f \in Fixtures : BookOf(f)

LEMMA BooksInit == Init => BooksKept
BY DEF Init, SchedulerInit, BooksKept, BookOf, OpenIds, NoRecord, Idle

\* A market that is no longer open needs no hand.
LEMMA FewerOpen ==
    ASSUME SchedulerShape, NEW f \in Fixtures, BookOf(f),
           UNCHANGED <<matches, store, ensuring, queue, tick, dropped>>,
           NEW id \in DOMAIN onchain, NEW m, m.fixture = onchain[id].fixture, m.state # "Open",
           onchain' = [onchain EXCEPT ![id] = m]
    PROVE  BookOf(f)'
<1>1. /\ DOMAIN onchain' = DOMAIN onchain /\ onchain'[id] = m
      /\ \A x \in DOMAIN onchain : x # id => onchain'[x] = onchain[x]
  OBVIOUS
<1>2. OpenIds(f)' \subseteq OpenIds(f)
  BY <1>1 DEF OpenIds
<1>3. \A x \in DOMAIN onchain : onchain'[x].fixture = onchain[x].fixture
  BY <1>1
<1>4. InHand(f)' = InHand(f)
  BY DEF InHand
<1>. QED  BY <1>1, <1>2, <1>3, <1>4 DEF BookOf

LEMMA BooksStayKept ==
    ASSUME OneAtATime
    PROVE  BooksKept /\ SchedulerShape /\ SchedulerShape' /\ [Next]_vars => BooksKept'
<1>. SUFFICES ASSUME BooksKept, SchedulerShape, SchedulerShape', [Next]_vars,
                     NEW f \in Fixtures
              PROVE  BookOf(f)'
  BY DEF BooksKept
<1>. /\ BookOf(f) /\ \A g \in Fixtures : g = f
  BY DEF BooksKept, OneAtATime
<1>0. CASE UNCHANGED schedulerVars
  BY <1>0 DEF schedulerVars, BookOf, OpenIds, InHand
<1>. SUFFICES ASSUME SchedulerNext PROVE BookOf(f)'
  BY <1>0, SchedulerSteps
<1>s. /\ TickOf(f, tick[f]) /\ store[f] \in Records /\ store[f].open \in Seq(Listings)
  BY DEF SchedulerShape, Records
<1>1. ASSUME NEW v \in Viewers, Ensure(v, f) PROVE BookOf(f)'
  <2>1. store[f].matchId = 0
    BY <1>1 DEF Ensure, NoRecord
  <2>2. \A w \in Viewers : ensuring'[w] # 0 => w \in Openers
    BY <1>1 DEF Ensure, SchedulerShape, BookOf
  <2>. QED  BY <1>1, <2>1, <2>2 DEF Ensure, BookOf, OpenIds, InHand
<1>2. ASSUME NEW v \in Viewers, Ensured(v) PROVE BookOf(f)'
  <2>1. ensuring[v] # 0 /\ v \in Openers /\ store[f].matchId = 0
    BY <1>2 DEF Ensured, BookOf
  <2>2. matches[ensuring[v]] = f
    BY <2>1 DEF SchedulerShape
  <2>3. store'[f].matchId = ensuring[v]
    BY <1>2, <2>2 DEF Ensured, NoRecord, SchedulerShape
  <2>4. \A w \in Viewers : ensuring'[w] = 0
    BY <1>2, <2>1 DEF Ensured, BookOf, SchedulerShape, OneAtATime
  <2>5. OpenIds(f)' = {}
    BY <1>2, <2>1 DEF Ensured, BookOf, OpenIds
  <2>6. tick'[f].stage = "idle"
    BY <1>2, <2>1 DEF Ensured, BookOf
  <2>. QED  BY <2>1, <2>3, <2>4, <2>5, <2>6 DEF BookOf
<1>3. ASSUME NEW v \in Viewers, Poll(v, f) PROVE BookOf(f)'
  <2>1. store[f].matchId # 0
    BY <1>3 DEF Poll, BookOf
  <2>. QED  BY <1>3, <2>1 DEF Poll, BookOf, OpenIds, InHand
<1>4. ASSUME TickStart(f) PROVE BookOf(f)'
  <2>. DEFINE req == Head(queue[f])
  <2>1. PICK unread :
           tick' = [tick EXCEPT ![f] = Decision(f, req, StillOpen(store[f].open, unread))]
    BY <1>4 DEF TickStart
  <2>. DEFINE kept == StillOpen(store[f].open, unread)
              d == Decision(f, req, kept)
  <2>2. req \in Polls(f)
    BY <1>4, HeadTailProperties DEF TickStart, SchedulerShape
  <2>3. /\ kept \in Seq(Listings)
        /\ Range(kept) = Range(store[f].open) \cap
              {m \in Range(store[f].open) : onchain[m.marketId].state = "Open" \/ m.marketId \in unread}
    BY <1>s, AmongPicks DEF StillOpen
  <2>4. OpenIds(f) \subseteq Ids(kept) /\ Ids(kept) \subseteq Ids(store[f].open)
    <3>1. OpenIds(f) \subseteq {m.marketId : m \in Range(store[f].open)}
      BY <1>4, IdsOf DEF BookOf, InHand, TickStart
    <3>2. \A id \in OpenIds(f) : onchain[id].state = "Open"
      BY DEF OpenIds
    <3>. QED  BY <2>3, <3>1, <3>2, IdsOf
  <2>5. /\ d.stage = "closing" /\ Ids(d.todo) \subseteq Ids(kept)
        /\ Ids(kept) = Ids(d.todo) \cup Ids(d.keep)
    BY <2>2, <2>3, DecisionShape
  <2>. HIDE DEF d, kept, req
  <2>6. tick'[f] = d
    BY <2>1 DEF SchedulerShape, d, kept
  <2>7. OpenIds(f)' = OpenIds(f) /\ store' = store /\ store[f].matchId # 0
    BY <1>4 DEF TickStart, OpenIds, BookOf
  <2>. QED  BY <1>4, <2>4, <2>5, <2>6, <2>7 DEF TickStart, BookOf, InHand
<1>5. ASSUME TickClose(f) PROVE BookOf(f)'
  <2>. DEFINE todo == tick[f].todo
              id == Head(todo).marketId
  <2>1. /\ tick[f].stage = "closing" /\ todo \in Seq(Listings) /\ todo # <<>>
        /\ store' = store /\ queue' = queue /\ ensuring' = ensuring
    BY <1>5, <1>s DEF TickClose, TickOf
  <2>2. Ids(todo) = {id} \cup Ids(Tail(todo))
    <3>1. /\ Len(Tail(todo)) = Len(todo) - 1 /\ Tail(todo) \in Seq(Listings)
          /\ \A i \in 1..Len(Tail(todo)) : Tail(todo)[i] = todo[i + 1]
      BY <2>1, HeadTailProperties
    <3>2. Len(todo) \in Nat /\ Len(todo) >= 1 /\ DOMAIN todo = 1..Len(todo)
          /\ Head(todo) = todo[1]
      BY <2>1
    <3>3. DOMAIN Tail(todo) = 1..(Len(todo) - 1)
      BY <3>1, <3>2
    <3>. HIDE DEF todo
    <3>4. ASSUME NEW i \in 1..Len(todo), i # 1
          PROVE  i - 1 \in DOMAIN Tail(todo) /\ Tail(todo)[i - 1] = todo[i]
      BY <3>1, <3>2, <3>3, <3>4
    <3>5. ASSUME NEW i \in DOMAIN Tail(todo) PROVE i + 1 \in DOMAIN todo /\ Tail(todo)[i] = todo[i + 1]
      BY <3>1, <3>2, <3>3
    <3>. DEFINE tail == Tail(todo)
    <3>6. \A i \in DOMAIN todo : todo[i] = Head(todo) \/ \E j \in DOMAIN tail : todo[i] = tail[j]
      BY <3>2, <3>4
    <3>7. Head(todo) \in Range(todo) /\ \A j \in DOMAIN tail : tail[j] \in Range(todo)
      BY <3>2, <3>5 DEF Range
    <3>. HIDE DEF tail
    <3>8. Range(todo) = {Head(todo)} \cup Range(tail)
      BY <3>6, <3>7 DEF Range
    <3>. QED  BY <3>8, IdsOf DEF tail
  <2>3. tick' = [tick EXCEPT ![f].todo = Tail(todo)]
    BY <1>5 DEF TickClose, SchedulerShape
  <2>4. /\ tick'[f].stage = "closing" /\ tick'[f].todo = Tail(todo)
        /\ tick'[f].keep = tick[f].keep
    BY <1>s, <2>1, <2>3 DEF SchedulerShape, TickOf, Idle
  <2>5. OpenIds(f)' \subseteq OpenIds(f) \ {id} /\ DOMAIN onchain' = DOMAIN onchain
        /\ \A x \in DOMAIN onchain : onchain'[x].fixture = onchain[x].fixture
    <3>1. CASE /\ onchain' = [onchain EXCEPT ![id].state = IF @ = "Open" THEN "Closed" ELSE @]
               /\ dropped' = dropped
      <4>. DEFINE s == IF onchain[id].state = "Open" THEN "Closed" ELSE onchain[id].state
      <4>1. /\ DOMAIN onchain' = DOMAIN onchain
            /\ id \in DOMAIN onchain => onchain'[id] = [onchain[id] EXCEPT !.state = s]
            /\ \A x \in DOMAIN onchain : x # id => onchain'[x] = onchain[x]
        BY <3>1
      <4>2. id \in DOMAIN onchain => onchain[id] \in Traded
        BY DEF SchedulerShape
      <4>3. id \in DOMAIN onchain => /\ onchain'[id].state = s /\ s # "Open"
                                     /\ onchain'[id].fixture = onchain[id].fixture
        BY <4>1, <4>2 DEF Traded
      <4>. HIDE DEF s, id
      <4>. QED  BY <3>1, <4>1, <4>3 DEF OpenIds
    <3>2. CASE onchain' = onchain /\ dropped' = dropped \cup {id}
      BY <3>2 DEF OpenIds
    <3>. QED  BY <1>5, <3>1, <3>2 DEF TickClose
  <2>6. OpenIds(f) \subseteq Ids(todo) \cup Ids(tick[f].keep)
    BY <2>1 DEF BookOf, InHand
  <2>7. Ids(todo) \subseteq Ids(store[f].open)
    BY <2>1 DEF BookOf
  <2>8. store[f].matchId # 0
    BY <2>1 DEF BookOf
  <2>. HIDE DEF todo, id
  <2>9. OpenIds(f)' \subseteq InHand(f)'
    BY <2>2, <2>4, <2>5, <2>6 DEF InHand
  <2>. QED  BY <2>1, <2>2, <2>4, <2>5, <2>7, <2>8, <2>9 DEF BookOf
<1>6. ASSUME TickOpen(f) PROVE BookOf(f)'
  <2>. DEFINE n == Len(onchain) + 1
  <2>1. PICK q :
           LET m == Opened(f, tick[f], q)
           IN  /\ onchain' = Append(onchain, m)
               /\ tick' = [tick EXCEPT ![f].opens = FALSE,
                                       ![f].keep = Append(@, Recorded(n, m)),
                                       ![f].recent = NewestThree(<<q.template>> \o @)]
    BY <1>6 DEF TickOpen
  <2>. DEFINE m == Opened(f, tick[f], q)
              l == Recorded(n, m)
              keep == tick[f].keep
  <2>2. /\ tick[f].stage = "closing" /\ store' = store /\ queue' = queue /\ ensuring' = ensuring
        /\ dropped' = dropped
    BY <1>6 DEF TickOpen
  <2>3. l.marketId = n
    BY DEF Recorded
  <2>. HIDE DEF m, l
  <2>4. /\ tick'[f].stage = "closing" /\ tick'[f].todo = tick[f].todo
        /\ tick'[f].keep = Append(keep, l)
    BY <1>s, <2>1, <2>2 DEF SchedulerShape, TickOf, Idle, m, l
  <2>5. Ids(tick[f].keep) \cup {n} \subseteq Ids(Append(keep, l))
    <3>1. keep \in Seq(Listings)
      BY <1>s DEF TickOf
    <3>2. /\ DOMAIN Append(keep, l) = DOMAIN keep \cup {Len(keep) + 1}
          /\ Append(keep, l)[Len(keep) + 1] = l
          /\ \A i \in DOMAIN keep : Append(keep, l)[i] = keep[i]
      BY <3>1
    <3>. QED  BY <2>3, <3>2 DEF Ids
  <2>6. OpenIds(f)' \subseteq OpenIds(f) \cup {n}
    <3>1. \A x \in DOMAIN onchain' : \/ x = n
                                     \/ x \in DOMAIN onchain /\ onchain'[x] = onchain[x]
      BY <2>1 DEF SchedulerShape, m
    <3>. QED  BY <2>2, <3>1 DEF OpenIds
  <2>7. OpenIds(f) \subseteq Ids(tick[f].todo) \cup Ids(tick[f].keep)
    BY <2>2 DEF BookOf, InHand
  <2>8. store[f].matchId # 0 /\ Ids(tick[f].todo) \subseteq Ids(store[f].open)
    BY <2>2 DEF BookOf
  <2>. HIDE DEF n, keep
  <2>9. OpenIds(f)' \subseteq InHand(f)'
    BY <2>4, <2>5, <2>6, <2>7 DEF InHand
  <2>. QED  BY <2>2, <2>4, <2>8, <2>9 DEF BookOf
<1>7. ASSUME TickReadFile(f) PROVE BookOf(f)'
  <2>1. /\ tick[f].stage = "closing" /\ UNCHANGED <<onchain, store, queue, ensuring, dropped>>
        /\ tick' = [tick EXCEPT ![f].stage = "writing", ![f].file = store]
    BY <1>7 DEF TickReadFile
  <2>2. /\ tick'[f].stage = "writing" /\ tick'[f].todo = tick[f].todo
        /\ tick'[f].keep = tick[f].keep /\ tick'[f].file = store
    BY <1>s, <2>1 DEF SchedulerShape, TickOf, Idle
  <2>3. store[f].matchId # 0
    BY <2>1 DEF BookOf
  <2>4. OpenIds(f)' \subseteq InHand(f)'
    BY <2>1, <2>2 DEF BookOf, OpenIds, InHand
  <2>. QED  BY <2>1, <2>2, <2>3, <2>4 DEF BookOf
<1>8. ASSUME TickWriteFile(f) PROVE BookOf(f)'
  <2>1. /\ tick[f].stage = "writing" /\ UNCHANGED <<onchain, queue, ensuring, dropped>>
        /\ store' = [tick[f].file EXCEPT ![f].open = tick[f].keep, ![f].recent = tick[f].recent]
        /\ tick' = [tick EXCEPT ![f] = Idle]
    BY <1>8 DEF TickWriteFile
  <2>2. tick[f].todo = <<>> /\ tick[f].file \in [Fixtures -> Records]
    BY <1>s, <2>1 DEF TickOf
  <2>3. store'[f].open = tick[f].keep /\ store'[f].matchId = tick[f].file[f].matchId
    BY <2>1, <2>2 DEF Records
  <2>4. tick'[f].stage = "idle"
    BY <2>1 DEF SchedulerShape, Idle
  <2>5. store[f].matchId # 0 /\ tick[f].file[f].matchId # 0
    BY <2>1 DEF BookOf
  <2>6. OpenIds(f)' \subseteq InHand(f)'
    <3>1. Ids(<<>>) = {}
      BY DEF Ids
    <3>2. OpenIds(f) \subseteq Ids(tick[f].keep)
      BY <2>1, <2>2, <3>1 DEF BookOf, InHand
    <3>. QED  BY <2>1, <2>3, <2>4, <3>2 DEF OpenIds, InHand
  <2>. QED  BY <2>1, <2>3, <2>4, <2>5, <2>6 DEF BookOf
<1>9. ASSUME TickFails(f) PROVE BookOf(f)'
  <2>1. /\ tick[f].stage # "idle" /\ UNCHANGED <<onchain, store, queue, ensuring>>
        /\ dropped' = dropped \cup (Ids(tick[f].keep) \ Ids(store[f].open))
        /\ tick' = [tick EXCEPT ![f] = Idle]
    BY <1>9 DEF TickFails
  <2>2. tick'[f].stage = "idle"
    BY <2>1 DEF SchedulerShape, Idle
  <2>3. store[f].matchId # 0
    BY <2>1 DEF BookOf
  <2>4. OpenIds(f)' \subseteq InHand(f)'
    <3>1. /\ OpenIds(f) \subseteq Ids(tick[f].todo) \cup Ids(tick[f].keep)
          /\ Ids(tick[f].todo) \subseteq Ids(store[f].open)
      BY <2>1 DEF BookOf, InHand
    <3>. QED  BY <2>1, <2>2, <3>1 DEF OpenIds, InHand
  <2>. QED  BY <2>1, <2>2, <2>3, <2>4 DEF BookOf
<1>10. ASSUME NEW id \in DOMAIN onchain, CloseByWatcher(id) PROVE BookOf(f)'
  <2>. DEFINE m == [onchain[id] EXCEPT !.state = "Closed"]
  <2>3. onchain[id] \in Traded
    BY DEF SchedulerShape
  <2>1. m.fixture = onchain[id].fixture /\ m.state # "Open"
    BY <2>3 DEF Traded
  <2>2. /\ onchain' = [onchain EXCEPT ![id] = m]
        /\ UNCHANGED <<matches, store, ensuring, queue, tick, dropped>>
    BY <1>10 DEF CloseByWatcher
  <2>. HIDE DEF m
  <2>. QED  BY <2>1, <2>2, FewerOpen
<1>11. ASSUME NEW id \in DOMAIN onchain, Settle(id) PROVE BookOf(f)'
  <2>. DEFINE answer == Answer(onchain[id].fixture, onchain[id])
              s == IF answer.outcome = "Void" THEN "Voided" ELSE "Resolved"
              m == [onchain[id] EXCEPT !.outcome = answer.outcome, !.state = s]
  <2>1. /\ onchain' = [onchain EXCEPT ![id] = m]
        /\ UNCHANGED <<matches, store, ensuring, queue, tick, dropped>>
    BY <1>11 DEF Settle
  <2>. HIDE DEF answer
  <2>3. onchain[id] \in Traded
    BY DEF SchedulerShape
  <2>2. m.fixture = onchain[id].fixture /\ m.state # "Open"
    BY <2>3 DEF Traded
  <2>. HIDE DEF m
  <2>. QED  BY <2>1, <2>2, FewerOpen
<1>. QED  BY <1>1, <1>2, <1>3, <1>4, <1>5, <1>6, <1>7, <1>8, <1>9, <1>10, <1>11
          DEF SchedulerNext, TickStep

\* While one fixture is followed, ticks that queue lose none of its open markets,
\* through failures and restarts, any number of screens, polls and markets
\* (scheduler.ts tickQueue, match-store.ts).
THEOREM NoneIsForgotten ==
    ASSUME OneAtATime
    PROVE  Spec => []NoMarketForgotten
<1>. DEFINE Inv == RunInv /\ SchedulerShape /\ BooksKept
<1>1. Init => Inv
  BY RunInit, ShapeInit, BooksInit
<1>2. Inv /\ [Next]_vars => Inv'
  BY RunKept, ShapeKept, BooksStayKept
<1>3. Inv => NoMarketForgotten
  <2>. SUFFICES ASSUME Inv, NEW id \in DOMAIN onchain \ dropped, onchain[id].state = "Open"
                PROVE  LET f == onchain[id].fixture IN
                       id \in Ids(store[f].open) \cup Ids(tick[f].todo) \cup Ids(tick[f].keep)
    BY DEF NoMarketForgotten
  <2>. DEFINE f == onchain[id].fixture
  <2>3. onchain[id] \in Traded
    BY DEF SchedulerShape
  <2>1. f \in Fixtures
    BY <2>3 DEF Traded
  <2>2. id \in OpenIds(f) /\ OpenIds(f) \subseteq InHand(f)
    BY <2>1 DEF OpenIds, BooksKept, BookOf
  <2>. QED  BY <2>2 DEF InHand
<1>. HIDE DEF Inv
<1>. QED  BY <1>1, <1>2, <1>3, PTL DEF Spec
=============================================================================
