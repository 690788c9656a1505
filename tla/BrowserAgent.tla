---------------------------- MODULE BrowserAgent ----------------------------
(***************************************************************************)
(* An agent run from its operator's page (web/lib/browser-agent.ts): its   *)
(* quote-signing key opened with the passkey, a sweep of the open markets  *)
(* every few seconds, and the page that starts it, shows how it stands and *)
(* stops it (web/components/AgentConsole.tsx).  Each await is a step       *)
(* boundary; a page that is left does not interrupt what it was awaiting.  *)
(* Prices and sizes are Quoting's; its memory is AgentConsole's.           *)
(***************************************************************************)
EXTENDS Naturals, Sequences, FiniteSetsExt

CONSTANTS
    Board,              \* 1..n: markets the match may open, in order
    RecentMarkets,      \* RECENT_MARKETS
    MaxRuns,            \* bound: times the key is opened
    MaxSlips            \* bound: failed calls

VARIABLES
    stage,      \* the state on chain of the markets opened so far
    hot,        \* markets whose kind of event is imminent or just happened
    runs,       \* BrowserAgents, by the order their keys were opened
    desk,       \* the page: what it runs and shows, and where start() stands
    rash,       \* markets a quote was signed for though their event was imminent
                \* from the sweep's look on, and the look had seen the match
    slips

agentVars == <<stage, hot, runs, desk, rash, slips>>

\* step: a sweep about to look, to read a market's budget, or to hear from the
\* relay; waiting for the next; or over.  todo is the markets left to quote, newest first,
\* and heated those in danger ever since the sweep looked.
KeyOpened == [key |-> TRUE, running |-> FALSE, step |-> "over", todo |-> {},
           retired |-> {}, heated |-> {}]

BrowserInit ==
    /\ stage = <<"Open">>
    /\ hot = {}
    /\ runs = <<>>
    /\ desk = [open |-> TRUE, starting |-> "no", current |-> 0, shown |-> FALSE]
    /\ rash = {}
    /\ slips = 0

Slip == slips < MaxSlips /\ slips' = slips + 1

-----------------------------------------------------------------------------
(* The match *)

NewMarket ==
    /\ Len(stage) + 1 \in Board
    /\ stage' = Append(stage, "Open")
    /\ UNCHANGED <<hot, runs, desk, rash, slips>>

MarketMoves(m) ==
    /\ \E s \in {"Open", "Suspended", "Closed"} \ {stage[m]} :
          stage[m] # "Closed" /\ stage' = [stage EXCEPT ![m] = s]
    /\ UNCHANGED <<hot, runs, desk, rash, slips>>

DangerBegins(m) ==
    /\ hot' = hot \cup {m}
    /\ UNCHANGED <<stage, runs, desk, rash, slips>>

DangerPasses(m) ==
    /\ m \in hot
    /\ hot' = hot \ {m}
    /\ runs' = [r \in DOMAIN runs |-> [runs[r] EXCEPT !.heated = @ \ {m}]]
    /\ UNCHANGED <<stage, desk, rash, slips>>

-----------------------------------------------------------------------------
(* start, on the page *)

PressStart ==
    /\ desk.open /\ ~desk.shown /\ desk.starting = "no"
    /\ Len(runs) < MaxRuns
    /\ desk' = [desk EXCEPT !.starting = "unlock"]
    /\ UNCHANGED <<stage, hot, runs, rash, slips>>

\* openAgentSigner: the passkey derives the key, or is refused.
Unlock ==
    /\ desk.starting = "unlock"
    /\ \/ /\ runs' = Append(runs, KeyOpened)
          /\ desk' = [desk EXCEPT !.starting = "check"]
          /\ UNCHANGED slips
       \/ Slip /\ desk' = [desk EXCEPT !.starting = "no"] /\ UNCHANGED runs
    /\ UNCHANGED <<stage, hot, rash>>

\* The registered signer is read: the agent runs if the key is its, and the
\* key is zeroed if it is not; nothing is done about it if the read fails.
CheckKey ==
    LET r == Len(runs)
        over == [desk EXCEPT !.starting = "no"]
    IN  /\ desk.starting = "check"
        /\ \/ /\ runs' = [runs EXCEPT ![r].running = TRUE, ![r].step = "look"]
              /\ desk' = [over EXCEPT !.current = r, !.shown = TRUE]
              /\ UNCHANGED slips
           \/ /\ Slip
              /\ desk' = over
              /\ \/ runs' = [runs EXCEPT ![r].key = FALSE]
                 \/ UNCHANGED runs
        /\ UNCHANGED <<stage, hot, rash>>

-----------------------------------------------------------------------------
(* stop *)

\* The timer is cleared and the key zeroed; a sweep under way goes on.
Stopped(r) ==
    IF r = 0 THEN runs
    ELSE [runs EXCEPT ![r].running = FALSE, ![r].key = FALSE,
                      ![r].step = IF @ = "wait" THEN "over" ELSE @]

PressStop ==
    /\ desk.open /\ desk.shown
    /\ runs' = Stopped(desk.current)
    /\ desk' = [desk EXCEPT !.current = 0, !.shown = FALSE]
    /\ UNCHANGED <<stage, hot, rash, slips>>

\* The page's cleanup stops what it runs at that moment.
LeavePage ==
    /\ desk.open
    /\ runs' = Stopped(desk.current)
    /\ desk' = [desk EXCEPT !.open = FALSE, !.shown = FALSE]
    /\ UNCHANGED <<stage, hot, rash, slips>>

-----------------------------------------------------------------------------
(* sweep *)

\* The tail of tick, on whichever agent's sweep it is: the page is told how
\* that agent stands, and the timer set if it still runs.
SweepOver(r, next) ==
    /\ runs' = [runs EXCEPT ![r] = [next EXCEPT
                   !.step = IF next.running THEN "wait" ELSE "over",
                   !.todo = {}, !.heated = {}]]
    /\ desk' = [desk EXCEPT !.shown = desk.open /\ next.running]

GoesOn(r, next) == runs' = [runs EXCEPT ![r] = next] /\ UNCHANGED desk

\* An await that rejects ends the sweep.
SweepThrows(r) == Slip /\ SweepOver(r, runs[r]) /\ UNCHANGED rash

\* The newest markets are read with the match, newest first; of those the
\* open ones out of danger are priced.  A match that cannot be read, or none,
\* is no danger.
LookAround(r) ==
    LET recent == {m \in DOMAIN stage : m + RecentMarkets > Len(stage)} \ runs[r].retired
        gone == {m \in recent : stage[m] = "Closed"}
        open == {m \in recent : stage[m] = "Open"}
        Sees(danger, heated) ==
            LET todo == open \ danger
                next == [runs[r] EXCEPT !.retired = @ \cup gone, !.todo = todo,
                                        !.step = "budget", !.heated = heated]
            IN  IF todo = {} THEN SweepOver(r, next) ELSE GoesOn(r, next)
    IN  /\ runs[r].step = "look"
        /\ \/ Sees(hot, hot) /\ UNCHANGED <<rash, slips>>
           \/ Slip /\ Sees({}, {}) /\ UNCHANGED rash
           \/ SweepThrows(r)
        /\ UNCHANGED <<stage, hot>>

NextMarket(r) ==
    LET next == [runs[r] EXCEPT !.todo = @ \ {Max(@)}, !.step = "budget"]
    IN  IF next.todo = {} THEN SweepOver(r, next) ELSE GoesOn(r, next)

\* The vault's budget is read.  With nothing to quote, or nothing left of the
\* market's window, it is passed over; otherwise a quote is signed, which a
\* key that was zeroed meanwhile cannot.
Quote(r) ==
    LET m == Max(runs[r].todo)
    IN  /\ runs[r].step = "budget"
        /\ \/ NextMarket(r) /\ UNCHANGED <<rash, slips>>
           \/ /\ runs[r].key
              /\ rash' = rash \cup ({m} \cap runs[r].heated)
              /\ GoesOn(r, [runs[r] EXCEPT !.step = "post"])
              /\ UNCHANGED slips
           \/ ~runs[r].key /\ SweepOver(r, runs[r]) /\ UNCHANGED <<rash, slips>>
           \/ SweepThrows(r)
        /\ UNCHANGED <<stage, hot>>

\* The relay takes it, and is asked whether it is among the best three.
Post(r) ==
    /\ runs[r].step = "post"
    /\ \/ NextMarket(r) /\ UNCHANGED <<rash, slips>>
       \/ SweepThrows(r)
    /\ UNCHANGED <<stage, hot>>

NextSweep(r) ==
    /\ runs[r].step = "wait"
    /\ GoesOn(r, [runs[r] EXCEPT !.step = "look"])
    /\ UNCHANGED <<stage, hot, rash, slips>>

BrowserStep ==
    \/ NewMarket
    \/ \E m \in DOMAIN stage : MarketMoves(m) \/ DangerBegins(m) \/ DangerPasses(m)
    \/ PressStart \/ Unlock \/ CheckKey \/ PressStop \/ LeavePage
    \/ \E r \in DOMAIN runs : LookAround(r) \/ Quote(r) \/ Post(r) \/ NextSweep(r)

-----------------------------------------------------------------------------

\* "Leaving the page must not leave a signing key alive"
\* (AgentConsole.tsx:93): once the page is gone, and what it had started has
\* ended one way or the other, no key opened on it can sign.
KeyDiesWithPage ==
    ~desk.open /\ desk.starting = "no" => \A r \in DOMAIN runs : ~runs[r].key
=============================================================================
