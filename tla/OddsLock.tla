------------------------------ MODULE OddsLock ------------------------------
(***************************************************************************)
(* The chain a held price lives on: the second it is, the one market, the  *)
(* locks OddsLock.sol has sold, and the bets BetRouter has struck on that  *)
(* market.  A transaction is one step, and a revert changes nothing.       *)
(*                                                                         *)
(* A quote or an offer travels with what only the model knows of it: the   *)
(* second it was signed, and whether its agent could see the match then.   *)
(* Its hash is the quote itself.                                           *)
(***************************************************************************)
EXTENDS Quoting, FiniteSetsExt

CONSTANTS
    Agents,
    Events,             \* the events the match may hold: [at, decides]
    DelaySeconds,       \* of BetRouter
    None

VARIABLES
    now,
    event,              \* the event of this match; at Never if there is none
    market,             \* "Open" or "Closed"
    locks,              \* _locks, 1..lockCount
    quoteFilled,        \* of BetRouter: quote |-> stake, where there is any
    heldStake,          \* lock |-> stake of the bets struck at its price
    betCount

lockVars == <<event, market, locks, quoteFilled, heldStake, betCount>>
strikeVars == <<quoteFilled, heldStake, betCount>>

Never == 1000

LockInit ==
    /\ now = 0
    /\ event \in Events
    /\ market = "Open"
    /\ locks = <<>>
    /\ quoteFilled = <<>>
    /\ heldStake = <<>>
    /\ betCount = 0

-----------------------------------------------------------------------------
(* OddsLock.sol *)

\* offerFilled: the stake of the locks already sold on an offer.
OfferFilled(offer) ==
    MapThenSumSet(LAMBDA id : locks[id].stake,
                  {id \in DOMAIN locks : locks[id].offer = offer})

\* buy's checks, in the contract.
CanBuy(tx) ==
    /\ market = "Open"
    /\ now <= tx.offer.expiry
    /\ OfferTermsValid(tx.offer)
    /\ tx.stake > 0
    /\ OfferFilled(tx.offer) + tx.stake <= tx.offer.maxStake
    /\ LockFeeFor(tx.stake, tx.offer.feeBps) <= tx.maxFee

LockOf(tx) ==
    [agentId |-> tx.offer.agentId, side |-> tx.offer.side,
     probBps |-> tx.offer.probBps, stake |-> tx.stake,
     heldUntil |-> now + tx.offer.holdSeconds, offer |-> tx.offer]

Buy(tx) ==
    /\ locks' = Append(locks, LockOf(tx))
    /\ heldStake' = Append(heldStake, 0)
    /\ UNCHANGED <<quoteFilled, betCount>>

-----------------------------------------------------------------------------
(* BetRouter.sol, as far as a ladder of one quote goes *)

\* The quote that honours lock id, told by its salt.
Honours(q, id) == q.salt = <<"lock", id>>

FillOf(q) == IF q \in DOMAIN quoteFilled THEN quoteFilled[q] ELSE 0

CanStrike(tx) ==
    LET q == tx.signed.quote
    IN  /\ market = "Open"
        /\ now <= q.expiry
        /\ FillOf(q) + tx.stake <= q.maxStake
        /\ PayoutFor(tx.stake, SidePrice(q, tx.side)) >= tx.minPayout

Strike(tx) ==
    LET q == tx.signed.quote
    IN  /\ quoteFilled' = (q :> FillOf(q) + tx.stake) @@ quoteFilled
        /\ heldStake' = [id \in DOMAIN locks |->
                            heldStake[id] + IF Honours(q, id) THEN tx.stake ELSE 0]
        /\ betCount' = betCount + 1
        /\ UNCHANGED locks

\* A bet placed at second t is voided when the event that decides the market
\* comes too soon after it.
Voided(t) == event.decides /\ t + DelaySeconds > event.at

\* Nobody reads how far an expired quote was filled, but for an agent that
\* signed it for a lock, nor what an expired offer sold; the model forgets it.
Forget(t) ==
    LET kept == {q \in DOMAIN quoteFilled :
                    q.expiry >= t \/ \E id \in DOMAIN locks : Honours(q, id)}
        Sold(l) == IF l.offer # None /\ l.offer.expiry >= t THEN l.offer ELSE None
    IN  /\ quoteFilled' = [q \in kept |-> quoteFilled[q]]
        /\ locks' = [id \in DOMAIN locks |-> [locks[id] EXCEPT !.offer = Sold(locks[id])]]
=============================================================================
