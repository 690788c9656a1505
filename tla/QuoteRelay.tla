----------------------------- MODULE QuoteRelay -----------------------------
(***************************************************************************)
(* The relay between agents and fans (packages/quote-relay): each agent's  *)
(* latest quote and its latest offer to hold either side's price, and the  *)
(* quotes that honour holds.  All of it in memory.  A page subscribed to   *)
(* the market is pushed the best of the book each time it moves, and loses *)
(* its socket, for good, when the relay restarts.                          *)
(***************************************************************************)
EXTENDS OddsLock

CONSTANTS RelaySweepSec         \* sweepIntervalMs

VARIABLES
    book,           \* QuoteBook: agent |-> its signed quote
    offerBook,      \* LockOfferBook: agent and side |-> its offer
    holdBook,       \* HoldBook: lock |-> the signed quote honouring it
    page            \* what the fan's page shows: useMarketQuotes

relayVars == <<book, offerBook, holdBook, page>>

EmptyPage == [quotes |-> <<>>, offer |-> None]

RelayInit ==
    /\ book = [a \in Agents |-> None]
    /\ offerBook = [a \in Agents |-> [s \in Sides |-> None]]
    /\ holdBook = <<>>
    /\ page = [shown |-> EmptyPage, subscribed |-> TRUE,
               asked |-> TRUE, rest |-> None]

\* A quote whose expiry is this second is over for the relay.
Live(x, t) == x # None /\ x.expiry > t

BestQuotes(quotes, side, t) ==
    LET live == {a \in Agents : quotes[a] # None /\ Live(quotes[a].quote, t)}
        best == SetToSortSeq({quotes[a] : a \in live},
                             LAMBDA s, u : SidePrice(s.quote, side)
                                             < SidePrice(u.quote, side))
    IN  SubSeq(best, 1, Least(Len(best), 3))

\* The lowest price held on the side, the cheaper fee breaking a tie.
BestOffer(offers, side, t) ==
    LET live == {offers[a][side] : a \in {b \in Agents : Live(offers[b][side], t)}}
        Better(o, p) == \/ o.probBps < p.probBps
                        \/ o.probBps = p.probBps /\ o.feeBps <= p.feeBps
    IN  IF live = {} THEN None
        ELSE CHOOSE o \in live : \A p \in live : Better(o, p)

\* The page watches one side of the market.
Snapshot(quotes, offers, side) ==
    [quotes |-> BestQuotes(quotes, side, now), offer |-> BestOffer(offers, side, now)]

\* A push replaces what the page shows.  Its socket is opened once and, when it
\* goes, never again.
OnUpdate(update) == IF page.subscribed THEN [page EXCEPT !.shown = update] ELSE page
Pushed(quotes, offers, side) == OnUpdate(Snapshot(quotes, offers, side))

\* POST /quotes, /lock-offers, /holds: refused once expired.
AcceptQuote(signed, side) ==
    /\ Live(signed.quote, now)
    /\ book' = [book EXCEPT ![signed.quote.agentId] = signed]
    /\ page' = Pushed(book', offerBook, side)
    /\ UNCHANGED <<offerBook, holdBook>>

AcceptOffer(offer, side) ==
    /\ Live(offer, now)
    /\ offerBook' = [offerBook EXCEPT ![offer.agentId][offer.side] = offer]
    /\ page' = Pushed(book, offerBook', side)
    /\ UNCHANGED <<book, holdBook>>

AcceptHold(id, signed) ==
    /\ Live(signed.quote, now)
    /\ holdBook' = (id :> signed) @@ holdBook
    /\ UNCHANGED <<book, offerBook, page>>

\* GET /holds/:lockId, for the fan who bought the lock.
HoldQuote(id) ==
    IF id \in DOMAIN holdBook /\ Live(holdBook[id].quote, now)
    THEN holdBook[id] ELSE None

\* sweepExpired of the three books, at second t.
SweepExpired(t) ==
    /\ book' = [a \in Agents |-> IF book[a] # None /\ Live(book[a].quote, t)
                                 THEN book[a] ELSE None]
    /\ offerBook' = [a \in Agents |-> [s \in Sides |->
                        IF Live(offerBook[a][s], t) THEN offerBook[a][s] ELSE None]]
    /\ holdBook' = LET live == {id \in DOMAIN holdBook : Live(holdBook[id].quote, t)}
                   IN  [id \in live |-> holdBook[id]]

RelayRestart ==
    /\ book' = [a \in Agents |-> None]
    /\ offerBook' = [a \in Agents |-> [s \in Sides |-> None]]
    /\ holdBook' = <<>>
    /\ page' = [page EXCEPT !.subscribed = FALSE]

\* fetchBestQuotes: asked as the page opens, answered with quotes and no
\* offers, and shown whenever the answer arrives.
RestAnswer(side) ==
    /\ page.asked
    /\ page' = [page EXCEPT !.asked = FALSE,
                            !.rest = [quotes |-> BestQuotes(book, side, now),
                                      offer |-> None]]
    /\ UNCHANGED <<book, offerBook, holdBook>>

RestArrives ==
    /\ page.rest # None
    /\ page' = [page EXCEPT !.shown = page.rest, !.rest = None]
    /\ UNCHANGED <<book, offerBook, holdBook>>
=============================================================================
