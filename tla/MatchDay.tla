------------------------------ MODULE MatchDay ------------------------------
(***************************************************************************)
(* A fixture on a match day: its replay, the screens that watch it, the    *)
(* scheduler their polls drive, and the markets on chain until settled.    *)
(***************************************************************************)
EXTENDS MatchScheduler

VARIABLE day    \* what the day follows: the "markets" of its screens, or their "pages"

vars == <<replayVars, schedulerVars, day>>

\* Every variable keeps the shape its component declares.
MatchDayTypeOK == ReplayTypeOK /\ SchedulerTypeOK

Init == ReplayInit /\ SchedulerInit /\ day \in {"markets", "pages"}

\* Pages only read the replays and markets only what they have emitted, so a
\* day with both shows nothing that neither of the two does.
MarketsStep(A) == day = "markets" /\ A /\ UNCHANGED <<replayVars, day>>
PagesStep(A) == day = "pages" /\ A /\ UNCHANGED <<schedulerVars, day>>

Next == \/ ReplayNext /\ UNCHANGED <<schedulerVars, day>>
        \/ MarketsStep(SchedulerNext)
        \/ PagesStep(PagesNext)

Spec == Init /\ [][Next]_vars

\* A screen that stays open polls again and again, a queued tick gets run, and
\* the timers of a replaced run's clock go off like any.
Watched == /\ \A v \in Viewers, f \in Fixtures : WF_vars(MarketsStep(Poll(v, f)))
           /\ \A f \in Fixtures : WF_vars(MarketsStep(TickStep(f)))
           /\ WF_vars(\E i \in DOMAIN replaced : PlayOn(i) /\ UNCHANGED <<schedulerVars, day>>)

FairSpec == Spec /\ Watched

----------------------------------------------------------------------------

\* A market is resolved Yes or No only with the outcome, and the second, its
\* whole window has in the fixture: never from a window partly played, whatever
\* run the answer is asked of (match-data server.ts /settlement).  And "a YES
\* waiting to settle", as a page shows a market early, is one (match/[id]/page.tsx).
SettledAsPlayed ==
    \A id \in DOMAIN onchain :
        LET m == onchain[id]
            f == m.fixture
            truth == ResolveMarket(Stream(f), m.template, m.windowStart, m.windowEnd,
                                   TeamIdFor(m.teamFilter, Match[f].teams))
        IN  /\ m.state = "Resolved" => m.outcome = truth.outcome
            /\ \A seen \in 0..Len(Stream(f)) :
                   \A shown \in LiveMarkets(f, {m}, seen, FALSE) :
                       IsDecided(f, shown, seen) => truth.outcome = "Yes"

\* A market open on chain is on the fixture's record or in the hands of the tick
\* underway, unless a failed close or a failed tick let it go: ticks that queue
\* do not lose each other's markets (scheduler.ts tickQueue, match-store.ts).
NoMarketForgotten ==
    \A id \in DOMAIN onchain \ dropped :
        LET f == onchain[id].fixture IN
        onchain[id].state = "Open" =>
            id \in Ids(store[f].open) \cup Ids(tick[f].todo) \cup Ids(tick[f].keep)

\* Once a match is over and a screen still on it, its record is cleared: no
\* market of it is left shown as open (scheduler.ts, matchEnded); and every page
\* with a socket, on whichever of its runs, has come to show full time and no
\* big moment (useLiveMatch.ts), unless the match begins again.
FullTimeShown(f) ==
    \A v \in Viewers : feed[v].room # 0 /\ feed[v].fixture = f =>
                          feed[v].ended /\ feed[v].danger = {}
FullTimeClears ==
    \A f \in Fixtures :
        Finished(f) ~> (store[f].open = <<>> /\ FullTimeShown(f)) \/ ~Finished(f)
=============================================================================
