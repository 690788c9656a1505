---------------------------- MODULE MatchReader ----------------------------
(***************************************************************************)
(* The match reader beside the house agents                                *)
(* (packages/agents/src/coach.ts, wired in main.ts): now and then it shows *)
(* an LLM the match being played and keeps the reply's multipliers, which  *)
(* every agent prices by while they are fresh, and each agent publishes    *)
(* the reply's note as its own on the relay.  Each await is a step         *)
(* boundary.  What the match's description and the note say is left out.   *)
(***************************************************************************)
EXTENDS Naturals, Sequences

CONSTANTS
    Configured,         \* the prefixes whose endpoint the environment gives
    Replies,            \* what one may say: market kind |-> thousandths
    IntervalSec, MaxAgeSec, TimeoutSec,
    NoteTtlSec,         \* the relay's NOTE_TTL_MS
    Notaries,           \* the lead agent, then its cosigners
    Horizon,            \* bound: the clock stops here
    MaxUpsets,          \* bound: restarts and failed calls
    Nothing

ASSUME ReaderConstants ==
    /\ TimeoutSec \in Nat /\ MaxAgeSec \in Nat /\ IntervalSec \in Nat
    /\ Notaries \in Seq(Nat) \ {<<>>}

VARIABLES
    second,     \* the clock
    play,       \* the clock of the match being replayed, or Nothing
    reader,     \* where the reader stands
    notes,      \* the relay's: agent |-> its last note, or Nothing
    upsets

readerVars == <<second, play, reader, notes, upsets>>

\* Each endpoint is tried in turn.
IfConfigured(prefix) == IF prefix \in Configured THEN <<prefix>> ELSE <<>>
Endpoints == IfConfigured("LLM") \o IfConfigured("LLM_FALLBACK")

MarketKinds == DOMAIN CHOOSE reply \in Replies : TRUE

\* step: about to look at the match; waiting for an endpoint; publishing; or
\* waiting for the timer.  latest is of the match as looked at in readFrom.
Awoken == [step |-> "look", latest |-> Nothing, lastClockSec |-> Nothing,
           lookedAt |-> 0, endpoint |-> 0, askedAt |-> 0, readFrom |-> 0,
           unpublished |-> <<>>, wakesAt |-> 0]

ReaderInit ==
    /\ second = 0
    /\ play = Nothing
    /\ reader = Awoken
    /\ notes = [a \in {Notaries[i] : i \in DOMAIN Notaries} |-> Nothing]
    /\ upsets = 0

Upset == upsets < MaxUpsets /\ upsets' = upsets + 1

-----------------------------------------------------------------------------
(* Time and the match *)

\* An endpoint is given up after TimeoutSec.
SecondPasses ==
    /\ second < Horizon
    /\ reader.step = "ask" => second < reader.askedAt + TimeoutSec
    /\ second' = second + 1
    /\ play' = IF play = Nothing THEN Nothing ELSE play + 1
    /\ UNCHANGED <<reader, notes, upsets>>

MatchStarts ==
    /\ play = Nothing
    /\ play' = 0
    /\ UNCHANGED <<second, reader, notes, upsets>>

MatchEnds ==
    /\ play # Nothing
    /\ play' = Nothing
    /\ UNCHANGED <<second, reader, notes, upsets>>

-----------------------------------------------------------------------------
(* A read *)

\* start: the timer is set again when a read has ended, however it did.
Rearmed(r) == [r EXCEPT !.step = "wait", !.wakesAt = second + IntervalSec,
                        !.lookedAt = 0, !.endpoint = 0, !.askedAt = 0]

Asking(r, endpoint) ==
    IF endpoint > Len(Endpoints) THEN Rearmed(r)
    ELSE [r EXCEPT !.step = "ask", !.endpoint = endpoint, !.askedAt = second]

\* matchSnapshot and the start of read: nothing is asked when nothing is
\* played, the snapshot fails, or the clock has not moved.
LookAtMatch ==
    /\ reader.step = "look"
    /\ \/ /\ reader' = IF play = Nothing \/ play = reader.lastClockSec
                       THEN Rearmed(reader)
                       ELSE Asking([reader EXCEPT !.lastClockSec = play,
                                                  !.lookedAt = second], 1)
          /\ UNCHANGED upsets
       \/ Upset /\ reader' = Rearmed(reader)
    /\ UNCHANGED <<second, play, notes>>

InRange(value) == value \in 500..2000

\* parseRead: what is missing or out of range reads as "as usual", and a reply
\* with nothing in range is none.
ParseRead(reply, at) ==
    IF \A k \in MarketKinds : ~InRange(reply[k]) THEN Nothing
    ELSE [multipliers |-> [k \in MarketKinds |->
                              IF InRange(reply[k]) THEN reply[k] ELSE 1000],
          at |-> at]

\* The reply is dated when it comes, not when the match was looked at.  A note
\* may be empty, and is then not published.
EndpointReplies ==
    /\ reader.step = "ask"
    /\ \E reply \in Replies, noted \in BOOLEAN :
          LET read == ParseRead(reply, second)
              kept == [reader EXCEPT !.latest = read, !.readFrom = reader.lookedAt]
          IN  reader' = CASE read = Nothing -> Asking(reader, reader.endpoint + 1)
                          [] read # Nothing /\ noted ->
                               [kept EXCEPT !.step = "publish", !.unpublished = Notaries,
                                            !.lookedAt = 0, !.endpoint = 0, !.askedAt = 0]
                          [] OTHER -> Rearmed(kept)
    /\ UNCHANGED <<second, play, notes, upsets>>

\* An error, or the timeout: the next endpoint is asked.
EndpointFails ==
    /\ reader.step = "ask"
    /\ \/ second = reader.askedAt + TimeoutSec /\ UNCHANGED upsets
       \/ Upset
    /\ reader' = Asking(reader, reader.endpoint + 1)
    /\ UNCHANGED <<second, play, notes>>

\* Each agent signs the note and posts it, one after the other; the relay keeps
\* an agent's last.  A post that fails is passed over.
PublishNote ==
    LET rest == Tail(reader.unpublished)
    IN  /\ reader.step = "publish"
        /\ \/ /\ notes' = [notes EXCEPT ![Head(reader.unpublished)] = reader.latest.at]
              /\ UNCHANGED upsets
           \/ Upset /\ UNCHANGED notes
        /\ reader' = IF rest = <<>> THEN Rearmed([reader EXCEPT !.unpublished = <<>>])
                     ELSE [reader EXCEPT !.unpublished = rest]
        /\ UNCHANGED <<second, play>>

ReadAgain ==
    /\ reader.step = "wait" /\ second >= reader.wakesAt
    /\ reader' = [reader EXCEPT !.step = "look", !.wakesAt = 0]
    /\ UNCHANGED <<second, play, notes, upsets>>

\* The reader keeps nothing but in memory.
RestartReader ==
    /\ Upset
    /\ reader' = Awoken
    /\ UNCHANGED <<second, play, notes>>

ReaderStep ==
    \/ SecondPasses \/ MatchStarts \/ MatchEnds
    \/ LookAtMatch \/ EndpointReplies \/ EndpointFails \/ PublishNote
    \/ ReadAgain \/ RestartReader

-----------------------------------------------------------------------------
(* What it is read for *)

\* The rate multiplier every agent's next quote takes, or Nothing.
Multiplier_AnyAge(kind) ==
    IF reader.latest = Nothing THEN Nothing ELSE reader.latest.multipliers[kind]
Multiplier(kind) ==
    IF reader.latest = Nothing \/ second > reader.latest.at + MaxAgeSec
    THEN Nothing ELSE reader.latest.multipliers[kind]

\* The notes the agents page is given, by agent.
NotesShown == {a \in DOMAIN notes : /\ notes[a] # Nothing
                                    /\ second < notes[a] + NoteTtlSec}

\* A multiplier in use comes of a look at the match no longer ago than a read's
\* age and the time every endpoint may take to fail before one answers
\* ("A read older than this is ignored: the match has moved on", coach.ts:183).
ReadIsRecent ==
    \A kind \in MarketKinds :
        Multiplier(kind) # Nothing =>
            /\ InRange(Multiplier(kind))
            /\ second <= reader.readFrom + MaxAgeSec + Len(Endpoints) * TimeoutSec
=============================================================================
