---------------------------- MODULE MatchReplay ----------------------------
(***************************************************************************)
(* The match data service: replays of fixtures, each run of a replay an    *)
(* object whose clock emits the fixture's events one by one to the pages   *)
(* whose sockets it has, and the settlement answers worked out from what   *)
(* the current run has emitted.  Starting a replay awaits the fixture's    *)
(* file between the check that none is playing and the new run, so two     *)
(* requests can start two runs; the one replaced plays on.                 *)
(***************************************************************************)
EXTENDS MatchData

CONSTANTS Fixtures, Viewers, NoScreen,
          Vendored,     \* fixtures whose file is in fixturesDir
          Mirrored,     \* whether a mirror is configured for the others
          Raw,          \* the provider's file of each fixture
          ReplaySpeed,
          MaxRuns       \* bound: runs, and requests for one of all replays together

RawEvents == [name : STRING, sub : STRING, tags : SUBSET STRING, teamId : Int,
              period : Periods, sec : Nat]

ASSUME RawAssumption == \A f \in Fixtures : Raw[f].events \in Seq(RawEvents)

VARIABLES live,         \* fixture -> its current run, NoRun before the first
          runs,         \* how many runs have started
          starting,     \* fixture -> requests that await its file
          replaced,     \* runs that are no longer current and play on
          feed          \* viewer -> what its page shows of the match it is on

replayVars == <<live, runs, starting, replaced, feed>>

Match == [f \in Fixtures |-> ParseMatch(Raw[f])]
Stream(f) == Match[f].events
NoRun == [started |-> FALSE, emitted |-> 0, ended |-> FALSE, room |-> 0]

\* Pages: the home screen, a request on its way, a match.  A page's room is the
\* set of sockets it is in, 0 for none.
Home == [at |-> "home", room |-> 0]
Requested(f) == [at |-> "starting", fixture |-> f, room |-> 0]
Page(f) == [at |-> "match", fixture |-> f, room |-> 0, connecting |-> TRUE,
            events |-> <<>>, ended |-> FALSE, danger |-> {},
            fetch |-> "asked", answer |-> <<>>]

ReplayTypeOK ==
    /\ runs \in 0..MaxRuns
    /\ \A f \in Fixtures : /\ live[f].emitted \in 0..Len(Stream(f))
                           /\ live[f].started \/ live[f] = NoRun
                           /\ Len(starting[f]) <= MaxRuns
    /\ \A v \in Viewers : feed[v].room \in 0..runs

ReplayInit ==
    /\ live = [f \in Fixtures |-> NoRun]
    /\ runs = 0
    /\ starting = [f \in Fixtures |-> <<>>]
    /\ replaced = <<>>
    /\ feed = [v \in Viewers |-> Home]

Started(f) == live[f].started
Playing(f) == Started(f) /\ ~live[f].ended
Finished(f) == Started(f) /\ live[f].ended
Emitted(f) == SubSeq(Stream(f), 1, live[f].emitted)
Cursor(f) == CursorAt(Stream(f), live[f].emitted)

----------------------------------------------------------------------------
(* What the sockets of a room carry.  A page is sent a run's messages in    *)
(* the order they are made; they are taken to arrive at once.               *)

\* The danger last broadcast of a run: nothing before its first event.
DangerOf(f, run) ==
    IF run.emitted = 0 THEN {}
    ELSE DangerTypes(Stream(f), run.emitted, run.ended, ReplaySpeed, DangerLeadRealSec)

\* The next event of a run, and with the last one full time.
Advanced(f, run) ==
    [run EXCEPT !.emitted = @ + 1, !.ended = run.emitted + 1 = Len(Stream(f))]

\* event, then danger if it changed, then end.
ShowEvent(p, f, run) ==
    LET next == Advanced(f, run) IN
    [p EXCEPT !.events = Append(@, next.emitted),
              !.ended = @ \/ next.ended,
              !.danger = IF next.ended THEN {}
                         ELSE IF DangerOf(f, next) # DangerOf(f, run) THEN DangerOf(f, next)
                         ELSE @]
ToRoom(f, run) ==
    feed' = [v \in Viewers |-> IF feed[v].room = run.room THEN ShowEvent(feed[v], f, run)
                               ELSE feed[v]]

\* backfill: the feed so far, in place of whatever the page showed.
Backfill(p, events) == [p EXCEPT !.events = events, !.ended = FALSE, !.danger = {}]

----------------------------------------------------------------------------
(* The service *)

\* What reading a fixture's file can come to: its own copy is read first, else the
\* mirror's; either can fail, and with neither there is nothing to read.
FetchRaw(f) == {"failed"} \cup (IF f \in Vendored \/ Mirrored THEN {"read"} ELSE {})

\* GET /matches: what the home screen lists is what is vendored.
Listed == Fixtures \cap Vendored

\* A request finds no run, or one at full time, and begins to load the file.
Requests(f, v) ==
    /\ ~Playing(f)
    /\ runs + Len(starting[f]) < MaxRuns
    /\ starting' = [starting EXCEPT ![f] = Append(@, [room |-> live[f].room, by |-> v])]
    /\ UNCHANGED <<live, runs, replaced>>

\* From the plugin's start, whose answer opens no page.
RequestStart(f) == Requests(f, NoScreen) /\ UNCHANGED feed

\* The file is loaded: a new run replaces whichever is current by now, and takes
\* over the sockets of the one its request had found.  A run it replaces before
\* full time plays on, for the sockets it shares or still has.
StartReplay(f) ==
    \E i \in DOMAIN starting[f] :
        LET request == starting[f][i]
            room == IF request.room = 0 THEN runs + 1 ELSE request.room
        IN  /\ "read" \in FetchRaw(f) /\ runs < MaxRuns
            /\ live' = [live EXCEPT ![f] = [started |-> TRUE, emitted |-> 0,
                                            ended |-> Stream(f) = <<>>, room |-> room]]
            /\ runs' = runs + 1
            /\ starting' = [starting EXCEPT ![f] = RemoveAt(@, i)]
            /\ replaced' = IF Playing(f) THEN Append(replaced, [fixture |-> f] @@ live[f])
                           ELSE replaced
            /\ feed' = [v \in Viewers |->
                            IF v = request.by THEN Page(f)
                            ELSE IF feed[v].room = room THEN Backfill(feed[v], <<>>)
                            ELSE feed[v]]

LoadFails(f) ==
    \E i \in DOMAIN starting[f] :
        /\ "failed" \in FetchRaw(f)
        /\ starting' = [starting EXCEPT ![f] = RemoveAt(@, i)]
        /\ feed' = [v \in Viewers |-> IF v = starting[f][i].by THEN Home ELSE feed[v]]
        /\ UNCHANGED <<live, runs, replaced>>

\* The current run's clock emits its next event.
Emit(f) ==
    /\ Playing(f)
    /\ live' = [live EXCEPT ![f] = Advanced(f, @)]
    /\ ToRoom(f, live[f])
    /\ UNCHANGED <<runs, starting, replaced>>

\* So does the clock of a run that was replaced: nothing stopped it.
PlayOn(i) ==
    LET run == replaced[i]
        next == Advanced(run.fixture, run)
    IN  /\ replaced' = IF next.ended THEN RemoveAt(replaced, i)
                       ELSE [replaced EXCEPT ![i] = next]
        /\ ToRoom(run.fixture, run)
        /\ UNCHANGED <<live, runs, starting>>

\* The service restarts: every replay, request and socket is gone, and a page
\* does not connect again.
ReplayRestart ==
    /\ \E f \in Fixtures : Started(f)
    /\ live' = [f \in Fixtures |-> NoRun]
    /\ starting' = [f \in Fixtures |-> <<>>]
    /\ replaced' = <<>>
    /\ feed' = [v \in Viewers |-> IF feed[v].at = "starting" THEN Home
                                  ELSE [feed[v] EXCEPT !.room = 0]]
    /\ UNCHANGED runs

ReplayNext ==
    \/ \E f \in Fixtures : RequestStart(f) \/ StartReplay(f) \/ LoadFails(f) \/ Emit(f)
    \/ \E i \in DOMAIN replaced : PlayOn(i)
    \/ ReplayRestart

----------------------------------------------------------------------------
(* The pages *)

Becomes(v, p) == feed' = [feed EXCEPT ![v] = p]
ServiceIdle == UNCHANGED <<live, runs, starting, replaced>>

\* watchMatch: the page opens once the replay is playing, already or at last.
WatchMatch(v, f) ==
    /\ feed[v].at = "home" /\ f \in Listed
    /\ \/ Playing(f) /\ Becomes(v, Page(f)) /\ ServiceIdle
       \/ Requests(f, v) /\ Becomes(v, Requested(f))

\* watchAgain: the page stays, its socket with it.
WatchAgain(v) ==
    /\ feed[v].at = "match" /\ feed[v].ended
    /\ Requests(feed[v].fixture, NoScreen) /\ UNCHANGED feed

\* The socket opens in the room of the run that is current, with what the run has
\* emitted; with no run it is closed, for good.
Connect(v) ==
    /\ feed[v].at = "match" /\ feed[v].connecting
    /\ LET f == feed[v].fixture
           all == [i \in 1..live[f].emitted |-> i]
       IN  Becomes(v, IF Started(f)
                      THEN [Backfill(feed[v], all) EXCEPT
                               !.connecting = FALSE, !.room = live[f].room,
                               !.danger = DangerOf(f, live[f]), !.ended = live[f].ended]
                      ELSE [feed[v] EXCEPT !.connecting = FALSE])
    /\ ServiceIdle

\* fetchEvents, asked as the page opens: answered with the events so far, none
\* without a run, and shown whenever the answer arrives.
EventsAnswered(v) ==
    /\ feed[v].at = "match" /\ feed[v].fetch = "asked"
    /\ Becomes(v, [feed[v] EXCEPT !.fetch = "answered",
                       !.answer = [i \in 1..live[feed[v].fixture].emitted |-> i]])
    /\ ServiceIdle
EventsArrive(v) ==
    /\ feed[v].at = "match" /\ feed[v].fetch = "answered"
    /\ Becomes(v, [feed[v] EXCEPT !.fetch = "over", !.events = feed[v].answer, !.answer = <<>>])
    /\ ServiceIdle

Leave(v) == feed[v].at = "match" /\ Becomes(v, Home) /\ ServiceIdle

PagesNext ==
    \E v \in Viewers :
        \/ \E f \in Fixtures : WatchMatch(v, f)
        \/ WatchAgain(v) \/ Connect(v) \/ EventsAnswered(v) \/ EventsArrive(v) \/ Leave(v)

----------------------------------------------------------------------------
(* Settlement *)

\* Mutant: any window that has begun is answered.
Played_Begun(f, windowStart, windowEnd) == Started(f) /\ windowStart <= Cursor(f)

\* Whether the current run has played a window whole: full time may cut it short.
Played(f, windowStart, windowEnd) ==
    /\ Started(f)
    /\ windowStart <= Cursor(f)
    /\ windowEnd <= Cursor(f) \/ Finished(f)

\* What the service answers for a market, as far as the current run has got.
Answer(f, m) ==
    IF ~Played(f, m.windowStart, m.windowEnd)
    THEN [outcome |-> "Void", qualifyingEventTs |-> 0]
    ELSE ResolveMarket(Emitted(f), m.template, m.windowStart, m.windowEnd,
                       TeamIdFor(m.teamFilter, Match[f].teams))
=============================================================================
