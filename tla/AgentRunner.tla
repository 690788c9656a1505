---------------------------- MODULE AgentRunner ----------------------------
(***************************************************************************)
(* A house agent's process (packages/agents/src/runner.ts) at one market:  *)
(* the sweep that prices it, signs a quote and its hold offers, posts them *)
(* to the relay and then looks for locks sold; and the pass, each second,  *)
(* that honours those locks.  Each await is a step boundary, and sweeps    *)
(* started by the timer and by a nudge may overlap.                        *)
(***************************************************************************)
EXTENDS QuoteRelay

CONSTANTS
    Prices,             \* what the strategy may ask: [probYesBps, probNoBps]
    Budget,             \* the vault's quotableBudget for the market
    MaxStakePerQuote,
    QuoteExpirySec, PollSec,
    LeadSec, CooldownSec,   \* of match-data's danger
    WindowEnds,         \* the second the market's window ends
    Speed,              \* match seconds per second
    Me,                 \* the agent of this process
    FanSide,            \* the side the page watches
    NudgeAt,            \* the seconds at which a market opens
    MaxIncidents        \* bound: nudges, restarts and failed calls together

VARIABLES
    sweeps,             \* the timer's sweep and a nudge's: see SweepStep
    holds,              \* locks being honoured: [remaining, live]
    highestLockIdSeen,
    pass,               \* the honouring pass under way
    incidents

runnerVars == <<sweeps, holds, highestLockIdSeen, pass, incidents>>

\* Where a sweep stands: idle; about to read the market; about to sign; with
\* a quote to post; with offers to post; looking for locks; with locks found.
SweepSteps == {"idle", "check", "sign", "offer", "discover", "apply"}
Slots == {"timer", "nudge"}
Idle == [step |-> "idle"]

Started(t) == [step |-> "check", at |-> t]

RunnerInit ==
    /\ sweeps = [s \in Slots |-> IF s = "timer" THEN Started(0) ELSE Idle]
    /\ holds = <<>>
    /\ highestLockIdSeen = 0
    /\ pass = Idle
    /\ incidents = 0

Incident == incidents < MaxIncidents /\ incidents' = incidents + 1

-----------------------------------------------------------------------------
(* What the process sees of the match *)

InDanger(t) == event.at - t <= LeadSec /\ t - event.at <= CooldownSec
Decided(t) == event.decides /\ t >= event.at
WindowLeft(t) == (WindowEnds - t) * Speed

\* matchDataJson answers from a cache of one second; with no match list the
\* process prices blind: nothing in danger, the window whole.  What is left of
\* the window only moves a fee, and is taken as of now.
AsSeen(t) == [blind |-> FALSE, danger |-> InDanger(t), decided |-> Decided(t),
              left |-> WindowLeft(now)]
Blind == [blind |-> TRUE, danger |-> FALSE, decided |-> FALSE,
          left |-> WindowLeft(0)]

Look(Then(_)) ==
    \/ /\ \E t \in {now, now - 1} \cap Nat : Then(AsSeen(t))
       /\ UNCHANGED incidents
    \/ Incident /\ Then(Blind)

-----------------------------------------------------------------------------
(* sweep *)

To(s, step) == sweeps' = [sweeps EXCEPT ![s] = [step |-> step, at |-> @.at]]

\* quoteMarket up to the price: nothing to do for a market that is not open,
\* in danger, decided, or over.
SweepCheck(s) ==
    /\ sweeps[s].step = "check"
    /\ Look(LAMBDA view :
            IF market # "Open" \/ view.danger \/ view.decided \/ view.left <= 0
            THEN To(s, "discover")
            ELSE sweeps' = [sweeps EXCEPT ![s] =
                               [step |-> "sign", at |-> @.at, view |-> view]])
    /\ UNCHANGED <<holds, highestLockIdSeen, pass, relayVars>>

QuoteOf(s, p, size) ==
    [agentId |-> Me, probYesBps |-> p.probYesBps, probNoBps |-> p.probNoBps,
     maxStake |-> size, expiry |-> now + QuoteExpirySec, salt |-> <<s, now>>]

\* Signed and posted.  A post the relay refuses, or that never reaches it,
\* ends this market's turn of the sweep.
SweepQuote(s) ==
    /\ sweeps[s].step = "sign"
    /\ \E p \in Prices :
          LET size == QuoteMaxStake(Budget, p.probYesBps, p.probNoBps, MaxStakePerQuote)
              q == QuoteOf(s, p, size)
          IN  \/ /\ size = 0 /\ To(s, "discover")
                 /\ UNCHANGED <<relayVars, incidents>>
              \/ /\ size > 0
                 /\ AcceptQuote([quote |-> q, at |-> now, blind |-> sweeps[s].view.blind],
                                FanSide)
                 /\ sweeps' = [sweeps EXCEPT ![s] =
                                  [step |-> "offer", at |-> @.at, quote |-> q,
                                   todo |-> HoldOffers(q, @.view.left, Speed)]]
                 /\ UNCHANGED incidents
              \/ size > 0 /\ Incident /\ To(s, "discover") /\ UNCHANGED relayVars
    /\ UNCHANGED <<holds, highestLockIdSeen, pass>>

\* offerHolds: the offers beside a quote, yes before no.
OfferOf(q, o) ==
    [agentId |-> q.agentId, side |-> o.side, probBps |-> o.probBps,
     feeBps |-> o.feeBps, holdSeconds |-> o.holdSeconds,
     maxStake |-> q.maxStake, expiry |-> q.expiry, salt |-> q.salt]

SweepOffer(s) ==
    /\ sweeps[s].step = "offer"
    /\ LET todo == sweeps[s].todo
           next == CHOOSE o \in todo : o.side = "yes" \/ \A p \in todo : p.side = "no"
           offer == OfferOf(sweeps[s].quote, next)
       IN  \/ /\ todo = {} /\ To(s, "discover")
              /\ UNCHANGED <<relayVars, incidents>>
           \/ /\ todo # {}
              /\ AcceptOffer(offer, FanSide)
              /\ sweeps' = [sweeps EXCEPT ![s].todo = todo \ {next}]
              /\ UNCHANGED incidents
           \/ /\ todo # {}
              /\ \/ Incident
                 \/ ~Live(offer, now) /\ UNCHANGED incidents
              /\ To(s, "discover") /\ UNCHANGED relayVars
    /\ UNCHANGED <<holds, highestLockIdSeen, pass>>

\* discoverHolds: the count is read, then the locks, and only then are they
\* honoured and marked as seen.
SweepDiscover(s) ==
    /\ sweeps[s].step = "discover"
    /\ sweeps' = [sweeps EXCEPT ![s] = [step |-> "apply", at |-> @.at,
                                        from |-> highestLockIdSeen + 1,
                                        count |-> Len(locks)]]
    /\ UNCHANGED <<holds, highestLockIdSeen, pass, incidents, relayVars>>

SweepApply_SeenByNow(s) ==
    /\ sweeps[s].step = "apply"
    /\ LET mine == {id \in sweeps[s].from..sweeps[s].count : locks[id].agentId = Me}
       IN  holds' = [id \in mine |-> [remaining |-> locks[id].stake, live |-> None]]
                    @@ holds
    /\ highestLockIdSeen' = Len(locks)
    /\ sweeps' = [sweeps EXCEPT ![s] = Idle]
    /\ UNCHANGED <<pass, incidents, relayVars>>
SweepApply(s) ==
    /\ sweeps[s].step = "apply"
    /\ LET mine == {id \in sweeps[s].from..sweeps[s].count : locks[id].agentId = Me}
       IN  holds' = [id \in mine |-> [remaining |-> locks[id].stake, live |-> None]]
                    @@ holds
    /\ highestLockIdSeen' = sweeps[s].count
    /\ sweeps' = [sweeps EXCEPT ![s] = Idle]
    /\ UNCHANGED <<pass, incidents, relayVars>>

-----------------------------------------------------------------------------
(* honourHolds *)

\* The pass's now is the second it began; its view of danger comes after.
PassLook ==
    /\ pass.step = "look"
    /\ Look(LAMBDA view : pass' = [step |-> "next", at |-> pass.at, last |-> 0,
                                   view |-> [view EXCEPT !.left = 0]])
    /\ UNCHANGED <<sweeps, holds, highestLockIdSeen, relayVars>>

HonouringQuote(id, remaining, t) ==
    LET l == locks[id]
    IN  HonouringPrices(l.side, l.probBps) @@
        [agentId |-> Me, maxStake |-> remaining,
         expiry |-> Least(t + QuoteExpirySec, l.heldUntil), salt |-> <<"lock", id>>]

\* What of a hold is not yet bet, as the pass finds it.
Remaining_Whole(id) == holds[id].remaining
Remaining(id) ==
    holds[id].remaining
        - IF holds[id].live = None THEN 0 ELSE FillOf(holds[id].live.quote)

\* A hold the pass comes to: over, covered by a live quote, wholly bet or on
\* a market that is done, paused, or due its next quote.
Over(id) ==
    \/ pass.at >= locks[id].heldUntil
    \/ Remaining(id) <= 0
    \/ market # "Open"
    \/ ~pass.view.danger /\ pass.view.decided
Covered(id) ==
    /\ pass.at < locks[id].heldUntil
    /\ holds[id].live # None /\ holds[id].live.quote.expiry > pass.at
Paused_Never(id) == FALSE
Paused(id) == pass.view.danger

HonourNext ==
    /\ pass.step = "next"
    /\ LET todo == {i \in DOMAIN holds : i > pass.last}
           id == Min(todo)
           signed == [quote |-> HonouringQuote(id, Remaining(id), pass.at),
                      at |-> pass.at, blind |-> pass.view.blind]
           On == pass' = [pass EXCEPT !.last = id]
       IN  \/ todo = {} /\ pass' = Idle /\ UNCHANGED holds
           \/ todo # {} /\ Covered(id) /\ On /\ UNCHANGED holds
           \/ /\ todo # {} /\ ~Covered(id) /\ Over(id) /\ On
              /\ holds' = [i \in DOMAIN holds \ {id} |-> holds[i]]
           \/ /\ todo # {} /\ ~Covered(id) /\ ~Over(id) /\ Paused(id) /\ On
              /\ holds' = [holds EXCEPT ![id] = [remaining |-> Remaining(id), live |-> None]]
           \/ /\ todo # {} /\ ~Covered(id) /\ ~Over(id) /\ ~Paused(id)
              /\ holds' = [holds EXCEPT ![id] = [remaining |-> Remaining(id),
                                                live |-> signed]]
              /\ pass' = [step |-> "post", at |-> pass.at, last |-> id,
                          view |-> pass.view, signed |-> signed]
    /\ UNCHANGED <<sweeps, highestLockIdSeen, incidents, relayVars>>

\* publishHold, which throws out of the pass when the relay refuses.
HonourPost ==
    /\ pass.step = "post"
    /\ \/ /\ AcceptHold(pass.last, pass.signed)
          /\ pass' = [step |-> "next", at |-> pass.at, last |-> pass.last,
                      view |-> pass.view]
          /\ UNCHANGED incidents
       \/ /\ \/ Incident
             \/ ~Live(pass.signed.quote, now) /\ UNCHANGED incidents
          /\ pass' = Idle /\ UNCHANGED relayVars
    /\ UNCHANGED <<sweeps, holds, highestLockIdSeen>>

-----------------------------------------------------------------------------
(* What else happens to the process *)

\* The scheduler has had a market opened, this one or another, and says so once,
\* to whoever hears it.
NudgeAgents == now \in NudgeAt /\ Incident

\* A sweep on top of the timer's.
Nudge ==
    /\ sweeps["nudge"] = Idle
    /\ NudgeAgents
    /\ sweeps' = [sweeps EXCEPT !["nudge"] = Started(now)]
    /\ UNCHANGED <<holds, highestLockIdSeen, pass, relayVars>>

\* Its locks are in memory only, and are found again from the first.
RunnerRestart ==
    /\ Incident
    /\ sweeps' = [s \in Slots |-> Idle]
    /\ holds' = <<>>
    /\ highestLockIdSeen' = 0
    /\ pass' = Idle
    /\ UNCHANGED relayVars

\* The timers, at second t.  A pass still running lets its turn go by.
Timers(t) ==
    /\ sweeps' = IF t % PollSec = 0 THEN [sweeps EXCEPT !["timer"] = Started(t)]
                 ELSE sweeps
    /\ pass' = IF pass = Idle /\ holds # <<>> THEN [step |-> "look", at |-> t]
               ELSE pass
    /\ UNCHANGED <<holds, highestLockIdSeen, incidents>>

RunnerStep ==
    \/ \E s \in Slots : \/ SweepCheck(s) \/ SweepQuote(s) \/ SweepOffer(s)
                        \/ SweepDiscover(s) \/ SweepApply(s)
    \/ PassLook \/ HonourNext \/ HonourPost \/ Nudge \/ RunnerRestart
=============================================================================
