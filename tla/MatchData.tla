----------------------------- MODULE MatchData -----------------------------
(***************************************************************************)
(* What a match is to the rest of the system: the normalised event stream  *)
(* an adapter makes of a provider's file, the four market templates and    *)
(* what decides them, and the questions asked of a stream: how a window    *)
(* resolved, how hard a side has been pressing, which types are in danger. *)
(***************************************************************************)
EXTENDS Integers, Sequences, FiniteSets, SequencesExt

----------------------------------------------------------------------------
(* Events and templates *)

Periods == {"1H", "2H", "E1", "E2", "P"}
PeriodOffsetSec == [p \in Periods |->
    CASE p = "1H" -> 0 [] p = "2H" -> 2700 [] p = "E1" -> 5400
      [] p = "E2" -> 6300 [] p = "P" -> 7200]
ToMatchClockSec(period, periodSec) == PeriodOffsetSec[period] + periodSec

EventTypes == {"shot_on_target", "shot_off_target", "goal", "corner", "card", "other"}
TemplateNames == <<"SHOT_ON_TARGET", "CORNER", "CARD", "GOAL">>
QualifyingEvents == <<{"shot_on_target", "goal"}, {"corner"}, {"card"}, {"goal"}>>
TemplateWindowSec == <<120, 180, 300, 300>>

\* Home is team 1 of a market and away team 2; 0 is either team, read as none.
AnyTeam == 0
TeamIdFor(teamFilter, teams) ==
    IF teamFilter \in 1..2 /\ teamFilter <= Len(teams) THEN teams[teamFilter] ELSE AnyTeam

Qualifies(e, template, teamId) ==
    /\ e.type \in QualifyingEvents[template]
    /\ teamId = AnyTeam \/ e.teamId = teamId

\* A market pauses while a type that would decide it is in danger.
IsTemplateInDanger(template, dangerTypes) == QualifyingEvents[template] \cap dangerTypes # {}

----------------------------------------------------------------------------
(* The Wyscout adapter *)

\* A penalty is filed as a free kick, and is a shot; a card is a tag of a foul.
Classify(e) ==
    LET shot == e.name = "Shot" \/ (e.name = "Free Kick" /\ e.sub = "Penalty") IN
    CASE shot /\ "goal" \in e.tags -> "goal"
      [] shot /\ "goal" \notin e.tags /\ "accurate" \in e.tags -> "shot_on_target"
      [] shot /\ e.tags \cap {"goal", "accurate"} = {} -> "shot_off_target"
      [] ~shot /\ e.name = "Free Kick" /\ e.sub = "Corner" -> "corner"
      [] ~shot /\ e.name = "Foul" /\ "card" \in e.tags -> "card"
      [] OTHER -> "other"

Normalized(e) ==
    [type |-> Classify(e), teamId |-> e.teamId, period |-> e.period,
     periodSec |-> e.sec, matchClockSec |-> ToMatchClockSec(e.period, e.sec)]

\* Sorted by the match clock; events of one second keep the file's order.
ParseMatch(raw) ==
    LET events == [i \in DOMAIN raw.events |-> Normalized(raw.events[i])]
        Earlier(i, j) == \/ events[i].matchClockSec < events[j].matchClockSec
                         \/ events[i].matchClockSec = events[j].matchClockSec /\ i < j
        order == [i \in DOMAIN events |->
                     CHOOSE k \in DOMAIN events :
                         Cardinality({j \in DOMAIN events : Earlier(j, k)}) = i - 1]
    IN  [events |-> [i \in DOMAIN events |-> events[order[i]]],
         teams |-> SetToSortSeq(raw.teams, <)]

----------------------------------------------------------------------------
(* Questions about a stream *)

InWindow(e, windowStart, windowEnd) ==
    e.matchClockSec >= windowStart /\ e.matchClockSec < windowEnd

\* The outcome of a window, from the first qualifying event of the events given.
ResolveMarket(events, template, windowStart, windowEnd, teamId) ==
    LET hits == {i \in DOMAIN events : /\ InWindow(events[i], windowStart, windowEnd)
                                       /\ Qualifies(events[i], template, teamId)}
        clocks == {events[i].matchClockSec : i \in hits}
    IN  IF hits = {} THEN [outcome |-> "No", qualifyingEventTs |-> 0]
        ELSE [outcome |-> "Yes",
              qualifyingEventTs |-> CHOOSE c \in clocks : \A d \in clocks : c <= d]

\* Qualifying events of the last lookback seconds, (asOf - lookback, asOf].
CountRecentQualifying(events, template, asOf, lookback, teamId) ==
    Cardinality({i \in DOMAIN events : /\ events[i].matchClockSec > asOf - lookback
                                       /\ events[i].matchClockSec <= asOf
                                       /\ Qualifies(events[i], template, teamId)})

\* Where a window stands at a match clock: already decided, and seconds to play.
LiveWindow(events, template, windowStart, windowEnd, nowSec, teamId) ==
    LET from == IF nowSec > windowStart THEN nowSec ELSE windowStart IN
    [decided |-> \E i \in DOMAIN events :
                    /\ InWindow(events[i], windowStart, windowEnd)
                    /\ events[i].matchClockSec <= nowSec
                    /\ Qualifies(events[i], template, teamId),
     remainingSec |-> IF windowEnd > from THEN windowEnd - from ELSE 0]

DangerLeadRealSec == 14
DangerCooldownRealSec == 3
DangerousTypes == {"goal", "shot_on_target", "corner", "card"}

\* The match clock of the last of the first n events: where a replay stands.
CursorAt(events, n) == IF n > 0 THEN events[n].matchClockSec ELSE 0

\* Types about to happen, or that just did, once n events have been emitted.
DangerTypes(events, n, ended, speed, lead) ==
    LET cursor == CursorAt(events, n)
        near == {i \in DOMAIN events :
                    IF i > n THEN events[i].matchClockSec - cursor <= lead * speed
                    ELSE cursor - events[i].matchClockSec <= DangerCooldownRealSec * speed}
    IN  IF ended THEN {} ELSE {events[i].type : i \in near} \cap DangerousTypes

\* What the replay waits before the next event, in real milliseconds: nothing
\* across a change of period.
DelayRealMs(events, i, speed) ==
    LET crossed == i > 1 /\ events[i].period # events[i - 1].period
        last == IF i > 1 THEN events[i - 1].periodSec ELSE 0
        gap == events[i].periodSec - last
    IN  IF crossed \/ gap < 0 THEN 0 ELSE (gap * 1000) \div speed
=============================================================================
