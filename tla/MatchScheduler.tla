--------------------------- MODULE MatchScheduler ---------------------------
(***************************************************************************)
(* The web server's scheduler. A screen that shows a fixture makes sure it *)
(* has a match on chain, then polls: each poll reads how far the replay    *)
(* is and queues a tick, which closes the markets whose window is over and *)
(* may open the next. Ticks of one fixture run one at a time, each a       *)
(* sequence of awaited steps between a read of the record and a write of   *)
(* the whole file of records.                                              *)
(***************************************************************************)
EXTENDS MatchReplay, Functions, Totals

CONSTANTS Openers,      \* screens that may be the first to show a fixture
          MaxMarkets,   \* bound: markets on chain
          MaxFaults,    \* bound: failed closes, failed ticks and restarts
          CadenceSec, MaxConcurrent

VARIABLES onchain,      \* markets on chain, by id
          matches,      \* matches on chain: the fixture each was created for
          store,        \* fixture -> its record in the file
          ensuring,     \* viewer -> the match it created and awaits, 0 for none
          queue,        \* fixture -> polls waiting for their tick
          tick,         \* fixture -> the tick underway
          dropped,      \* markets a failure left open and unrecorded
          faults

schedulerVars == <<onchain, matches, store, ensuring, queue, tick, dropped, faults>>

NoRecord == [matchId |-> 0, open |-> <<>>, recent |-> <<>>]
Idle == [stage |-> "idle", viewer |-> NoScreen, seen |-> 0, todo |-> <<>>, keep |-> <<>>,
         recent |-> <<>>, opens |-> FALSE, file |-> <<>>]
Ids(open) == {open[i].marketId : i \in DOMAIN open}

SchedulerTypeOK ==
    /\ \A m \in DOMAIN onchain : /\ onchain[m].state \in {"Open", "Closed", "Resolved", "Voided"}
                                 /\ onchain[m].windowStart < onchain[m].windowEnd
                                 /\ onchain[m].fixture \in Fixtures
    /\ matches \in Seq(Fixtures)
    /\ \A f \in Fixtures : /\ Ids(store[f].open) \subseteq DOMAIN onchain
                           /\ store[f].matchId \in 0..Len(matches)
                           /\ Len(store[f].open) <= MaxConcurrent
                           /\ Len(store[f].recent) <= 3
                           /\ tick[f].stage \in {"idle", "closing", "writing"}
    /\ dropped \subseteq DOMAIN onchain
    /\ faults \in 0..MaxFaults

SchedulerInit ==
    /\ onchain = <<>> /\ matches = <<>>
    /\ store = [f \in Fixtures |-> NoRecord]
    /\ ensuring = [v \in Viewers |-> 0]
    /\ queue = [f \in Fixtures |-> <<>>]
    /\ tick = [f \in Fixtures |-> Idle]
    /\ dropped = {} /\ faults = 0

----------------------------------------------------------------------------
(* The next question: scores are in ten-thousandths, heat in hundredths *)

LookbackSec == 360
RecencyPenaltyPct == <<20, 45, 70>>
TeamBase == 5500
NoHeat == [t \in EventTypes |-> 0]
Heat == << [NoHeat EXCEPT !["shot_on_target"] = 50, !["shot_off_target"] = 35, !["corner"] = 25],
           [NoHeat EXCEPT !["corner"] = 50, !["shot_on_target"] = 25, !["shot_off_target"] = 25],
           [NoHeat EXCEPT !["card"] = 70],
           [NoHeat EXCEPT !["shot_on_target"] = 45, !["goal"] = 30, !["corner"] = 15,
                          !["shot_off_target"] = 15] >>

\* How hard a template's events have been coming, for one team or for both.
HeatOf(events, nowSec, template, teamId) ==
    LET recent == {i \in DOMAIN events : /\ events[i].matchClockSec > nowSec - LookbackSec
                                         /\ events[i].matchClockSec <= nowSec
                                         /\ teamId = AnyTeam \/ events[i].teamId = teamId}
    IN  FoldFunctionOnSet(+, 0, [i \in recent |-> Heat[template][events[i].type]], recent)

\* Newest first: a type just asked is worth less.
VarietyPct(template, recentTypes) ==
    IF template \in Range(recentTypes)
    THEN RecencyPenaltyPct[Min({i \in DOMAIN recentTypes : recentTypes[i] = template})]
    ELSE 100

\* What a question is worth for the play so far.
Interest(events, teams, nowSec, q) ==
    LET all == HeatOf(events, nowSec, q.template, AnyTeam)
        own == HeatOf(events, nowSec, q.template, TeamIdFor(q.teamFilter, teams))
        share == IF all > 0 THEN (100 * own * own) \div all ELSE 0
        late == IF q.template = 3 /\ nowSec > 3600 THEN 4000 ELSE 0
    IN  late + (IF q.teamFilter = 0 THEN 10000 + 50 * all ELSE TeamBase + 50 * own + share)

\* A question is a type and a team, never one that is open, in the order tried.
AllQuestions == [template : 1..4, teamFilter : 0..2]
Asked(q, open) == \E m \in open : m.template = q.template /\ m.teamFilter = q.teamFilter
Questions(open, teams) == {q \in AllQuestions : q.teamFilter <= Len(teams) /\ ~Asked(q, open)}
Precedes(p, q) == \/ p.template < q.template
                  \/ p.template = q.template /\ p.teamFilter < q.teamFilter

\* The best score; on a tie the first tried, and type 1 when there is no question.
PickNextMarket(interest, teams, open, recentTypes) ==
    LET Score(q) == (interest[q.template][q.teamFilter]
                        * VarietyPct(q.template, recentTypes)) \div 100
        Beats(p, q) == \/ Score(p) > Score(q)
                       \/ Score(p) = Score(q) /\ (p = q \/ Precedes(p, q))
        questions == Questions(open, teams)
    IN  IF questions = {} THEN [template |-> 1, teamFilter |-> 0]
        ELSE CHOOSE p \in questions :
                 \A q \in AllQuestions : q.teamFilter > Len(teams) \/ Asked(q, open) \/ Beats(p, q)

----------------------------------------------------------------------------
(* A screen: the match on chain, then one poll after another *)

\* No record yet: the match is created, and its receipt awaited.
Ensure(v, f) ==
    /\ v \in Openers /\ ensuring[v] = 0
    /\ store[f] = NoRecord
    /\ matches' = Append(matches, f)
    /\ ensuring' = [ensuring EXCEPT ![v] = Len(matches) + 1]
    /\ UNCHANGED <<onchain, store, queue, tick, dropped, faults>>

\* The receipt is here: the record of the match replaces whatever was stored.
Ensured(v) ==
    /\ ensuring[v] # 0
    /\ store' = [store EXCEPT ![matches[ensuring[v]]] = [NoRecord EXCEPT !.matchId = ensuring[v]]]
    /\ ensuring' = [ensuring EXCEPT ![v] = 0]
    /\ UNCHANGED <<onchain, matches, queue, tick, dropped, faults>>

Waiting(v, f) == tick[f].viewer = v \/ \E i \in DOMAIN queue[f] : queue[f][i].viewer = v

\* A poll reads what the replay has shown and whether it is over, and queues its tick.
Poll(v, f) ==
    /\ ensuring[v] = 0 /\ ~Waiting(v, f)
    /\ store[f] # NoRecord
    /\ queue' = [queue EXCEPT ![f] = Append(@, [viewer |-> v, seen |-> live[f].emitted,
                                                ended |-> Finished(f)])]
    /\ UNCHANGED <<onchain, matches, store, ensuring, tick, dropped, faults>>

\* What a page that has been shown so many events makes of the record's markets:
\* those whose window is under way, and those it shows as decided already.
PageNow(f, seen) == Max({0} \cup {Stream(f)[i].matchClockSec : i \in 1..seen})
LiveMarkets(f, open, seen, ended) ==
    {m \in open : ~ended /\ m.windowStart <= PageNow(f, seen) /\ m.windowEnd > PageNow(f, seen)}
IsDecided(f, m, seen) ==
    LiveWindow(SubSeq(Stream(f), 1, seen), m.template, m.windowStart, m.windowEnd,
               PageNow(f, seen), TeamIdFor(m.teamFilter, Match[f].teams)).decided

----------------------------------------------------------------------------
(* A tick *)

\* The record without the markets known to be closed; unreadable ones stay.
StillOpen(open, unread) ==
    Among(open, {m \in Range(open) : onchain[m.marketId].state = "Open" \/ m.marketId \in unread})

\* What is left of the record to close, and what its window keeps open.
Running(open, now) == Among(open, {m \in Range(open) : m.windowEnd > now})
Without(open, ids) == Among(open, {m \in Range(open) : m.marketId \notin ids})

\* Mutant: full time closes only the windows that are over.
Decision_WindowsOnly(f, req, kept) ==
    LET now == CursorAt(Stream(f), req.seen)
        keep == Running(kept, now)
    IN  [stage |-> "closing", viewer |-> req.viewer, seen |-> req.seen, file |-> <<>>,
         todo |-> Without(kept, Ids(keep)), keep |-> keep,
         recent |-> store[f].recent,
         opens |-> ~req.ended /\ Len(keep) < MaxConcurrent /\ kept = <<>> /\ Len(onchain) < MaxMarkets]

\* What a tick decides from its poll, before it awaits anything on chain.
Decision(f, req, kept) ==
    LET now == CursorAt(Stream(f), req.seen)
        restarted == \E i \in DOMAIN kept : kept[i].windowStart > now
        closeAll == restarted \/ req.ended
        keep == IF closeAll THEN <<>> ELSE Running(kept, now)
        due == restarted \/ kept = <<>> \/ now - kept[Len(kept)].windowStart >= CadenceSec
    IN  [stage |-> "closing", viewer |-> req.viewer, seen |-> req.seen, file |-> <<>>,
         todo |-> Without(kept, Ids(keep)), keep |-> keep,
         recent |-> IF restarted THEN <<>> ELSE store[f].recent,
         opens |-> ~req.ended /\ Len(keep) < MaxConcurrent /\ due /\ Len(onchain) < MaxMarkets]

\* Mutant: ticks are not queued, one replaces the other.
TickStart_Overlapping(f) ==
    /\ queue[f] # <<>>
    /\ tick' = [tick EXCEPT ![f] = Decision(f, Head(queue[f]), StillOpen(store[f].open, {}))]
    /\ queue' = [queue EXCEPT ![f] = Tail(@)]
    /\ UNCHANGED <<onchain, matches, store, ensuring, dropped, faults>>

\* The record is read, then each of its markets on chain; an unreadable one is kept.
TickStart(f) ==
    /\ tick[f].stage = "idle" /\ queue[f] # <<>>
    /\ \E unread \in SUBSET {id \in Ids(store[f].open) : onchain[id].state # "Open"} :
        tick' = [tick EXCEPT ![f] = Decision(f, Head(queue[f]), StillOpen(store[f].open, unread))]
    /\ queue' = [queue EXCEPT ![f] = Tail(@)]
    /\ UNCHANGED <<onchain, matches, store, ensuring, dropped, faults>>

\* The next close: done, refused because it is closed already, or lost.
TickClose(f) ==
    /\ tick[f].stage = "closing" /\ tick[f].todo # <<>>
    /\ LET id == Head(tick[f].todo).marketId IN
        \/ /\ onchain' = [onchain EXCEPT ![id].state = IF @ = "Open" THEN "Closed" ELSE @]
           /\ UNCHANGED <<dropped, faults>>
        \/ /\ onchain[id].state = "Open" /\ faults < MaxFaults
           /\ dropped' = dropped \cup {id} /\ faults' = faults + 1
           /\ UNCHANGED onchain
    /\ tick' = [tick EXCEPT ![f].todo = Tail(@)]
    /\ UNCHANGED <<matches, store, ensuring, queue>>

NewestThree(types) == SubSeq(types, 1, Min({3, Len(types)}))

\* The question a tick asks next, from what its poll had seen.
Interests == [f \in Fixtures |-> [seen \in 0..Len(Stream(f)) |->
    [template \in 1..4 |-> [teamFilter \in 0..Len(Match[f].teams) |->
        Interest(SubSeq(Stream(f), 1, seen), Match[f].teams, CursorAt(Stream(f), seen),
                 [template |-> template, teamFilter |-> teamFilter])]]]]
NextQuestion(f, t) ==
    PickNextMarket(Interests[f][t.seen], Match[f].teams, Range(t.keep), t.recent)
Opened(f, t, q) ==
    LET now == CursorAt(Stream(f), t.seen)
    IN  [fixture |-> f, state |-> "Open", outcome |-> "Unresolved",
         template |-> q.template, teamFilter |-> q.teamFilter,
         windowStart |-> now, windowEnd |-> now + TemplateWindowSec[q.template]]
Recorded(id, m) ==
    [marketId |-> id, template |-> m.template, teamFilter |-> m.teamFilter,
     windowStart |-> m.windowStart, windowEnd |-> m.windowEnd]

\* The next question is put on chain, and remembered as the newest of three.
TickOpen(f) ==
    /\ tick[f].stage = "closing" /\ tick[f].todo = <<>> /\ tick[f].opens
    /\ \E q \in AllQuestions \cap {NextQuestion(f, tick[f])} :
        LET m == Opened(f, tick[f], q)
        IN  /\ onchain' = Append(onchain, m)
            /\ tick' = [tick EXCEPT ![f].opens = FALSE,
                                    ![f].keep = Append(@, Recorded(Len(onchain) + 1, m)),
                                    ![f].recent = NewestThree(<<q.template>> \o @)]
    /\ UNCHANGED <<matches, store, ensuring, queue, dropped, faults>>

\* The save reads the whole file first, then writes it whole with this record changed.
TickReadFile(f) ==
    /\ tick[f].stage = "closing" /\ tick[f].todo = <<>> /\ ~tick[f].opens
    /\ tick' = [tick EXCEPT ![f].stage = "writing", ![f].file = store]
    /\ UNCHANGED <<onchain, matches, store, ensuring, queue, dropped, faults>>

TickWriteFile(f) ==
    /\ tick[f].stage = "writing"
    /\ store' = [tick[f].file EXCEPT ![f].open = tick[f].keep, ![f].recent = tick[f].recent]
    /\ tick' = [tick EXCEPT ![f] = Idle]
    /\ UNCHANGED <<onchain, matches, ensuring, queue, dropped, faults>>

\* A step throws or the server restarts: what the tick opened is never recorded.
TickFails(f) ==
    /\ tick[f].stage # "idle" /\ faults < MaxFaults
    /\ faults' = faults + 1
    /\ dropped' = dropped \cup (Ids(tick[f].keep) \ Ids(store[f].open))
    /\ tick' = [tick EXCEPT ![f] = Idle]
    /\ UNCHANGED <<onchain, matches, store, ensuring, queue>>

TickStep(f) == \/ TickStart(f) \/ TickClose(f) \/ TickOpen(f)
               \/ TickReadFile(f) \/ TickWriteFile(f)

----------------------------------------------------------------------------
(* The rest of the system, as far as the scheduler sees it *)

\* The settlement watcher closes a market past its closesAt, known here or not.
CloseByWatcher(id) ==
    /\ onchain[id].state = "Open"
    /\ onchain' = [onchain EXCEPT ![id].state = "Closed"]
    /\ UNCHANGED <<matches, store, ensuring, queue, tick, dropped, faults>>

\* A closed market is settled by what the match data service answers for it.
Settle(id) ==
    LET answer == Answer(onchain[id].fixture, onchain[id]) IN
    /\ onchain[id].state = "Closed"
    /\ onchain' = [onchain EXCEPT ![id].outcome = answer.outcome,
                      ![id].state = IF answer.outcome = "Void" THEN "Voided" ELSE "Resolved"]
    /\ UNCHANGED <<matches, store, ensuring, queue, tick, dropped, faults>>

SchedulerNext ==
    \/ \E v \in Viewers : Ensured(v) \/ \E f \in Fixtures : Ensure(v, f) \/ Poll(v, f)
    \/ \E f \in Fixtures : TickStep(f) \/ TickFails(f)
    \/ \E id \in DOMAIN onchain : CloseByWatcher(id) \/ Settle(id)
=============================================================================
