------------------------------ MODULE Pricing ------------------------------
(***************************************************************************)
(* Questions asked of the arithmetic, one after the other: a ladder to     *)
(* fill, a quote to bet both sides of, a state of play for an agent to     *)
(* price, a stake to preview, a bet to cash out.  The properties compare   *)
(* each answer to what it has to mean.                                     *)
(***************************************************************************)
EXTENDS Quoting, Totals

CONSTANTS
    Weights,        \* the weight vectors of BetRouter._ladderFor
    Amounts,        \* stakes and budgets
    Capacities,     \* of one rung
    Prices,         \* probabilities, in basis points
    MinMarginBps,
    Counts,         \* recent qualifying events
    SecondsLeft,    \* of a window
    Readings,       \* of the match reader, in thousandths, or NoReading
    Learned,        \* margin adjustments learn can reach
    Budgets,        \* of a vault
    Speeds          \* of a match

ASSUME PricingConstants ==
    /\ Weights \subseteq Seq(Nat)
    /\ Amounts \subseteq Nat /\ Capacities \subseteq Nat
    /\ Prices \subseteq 1..BPS
    /\ MinMarginBps \in Nat
    /\ Counts \subseteq Nat /\ SecondsLeft \subseteq Nat /\ Budgets \subseteq Nat
    /\ Readings \subseteq Nat /\ Learned \subseteq -100..500
    /\ Speeds \subseteq 1..LockHoldSec

VARIABLE question

LadderQuestions ==
    UNION {[kind : {"ladder"}, total : Amounts, weights : {w},
            caps : [1..Len(w) -> Capacities]] : w \in Weights}

QuoteQuestions == [kind : {"quote"}, yes : Prices, no : Prices,
                   onYes : Amounts, onNo : Amounts]

SignQuestions == [kind : {"sign"}, agent : SigningAgents, template : Templates,
                  teamFilter : {0, 1}, recent : Counts, left : SecondsLeft,
                  reading : Readings, adj : Learned, budget : Budgets,
                  speed : Speeds]

PreviewQuestions ==
    UNION {[kind : {"preview"}, stake : Amounts,
            caps : [1..n -> Capacities \ {0}]] : n \in 1..3}

CoverQuestions ==
    UNION {[kind : {"cover"}, held : Amounts,
            book : {b \in [1..n -> [maxStake : Capacities \ {0}, probYesBps : Prices]] :
                       \A i \in 1..(n - 1) : b[i].probYesBps <= b[i + 1].probYesBps}] :
           n \in 1..3}

NoQuestion == [kind |-> "none"]

Ask(questions) == question = NoQuestion /\ question' \in questions
AskLadder == Ask(LadderQuestions)
AskQuote == Ask(QuoteQuestions)
AskSign == Ask(SignQuestions)
AskPreview == Ask(PreviewQuestions)
AskCover == Ask(CoverQuestions)
Answered == question # NoQuestion /\ question' = NoQuestion

Init == question = NoQuestion
Next == AskLadder \/ AskQuote \/ AskSign \/ AskPreview \/ AskCover
        \/ Answered
Spec == Init /\ [][Next]_question

-----------------------------------------------------------------------------
\* ladderAllocate reverts exactly when the capacities have no room for the
\* stake; otherwise it places all of it, to the last unit, no more than a
\* capacity on its rung, and more than its weighted share on a rung only once
\* every better price is full: what roundings and small capacities leave over
\* goes to the best price that has room.
FillsExactly(total, caps, weights, n) ==
    LET stakes == LadderStakes(total, caps, weights, n)
        MoreThanShare(i) == stakes[i] > MulDiv(total, weights[i], BPS)
    IN  /\ LadderPlaces(total, caps, weights, n) <=> SumTo(caps, n) >= total
        /\ \A i \in 1..n : stakes[i] \in 0..caps[i]
        /\ LadderPlaces(total, caps, weights, n) =>
              /\ SumTo(stakes, n) = total
              /\ \A i, j \in 1..n : i < j /\ MoreThanShare(j) => stakes[i] = caps[i]

LadderFillsExactly ==
    question.kind = "ladder" =>
        FillsExactly(question.total, question.caps, question.weights,
                     Len(question.weights))

\* Backing both sides of a quote that validateQuote accepts never returns
\* more than it cost, whichever side wins: the margin leaves a fan no
\* riskless profit at any stakes, roundings included.
NoSureProfit ==
    question.kind = "quote" /\ ValidQuote(question.yes, question.no, MinProbBps,
                                          MaxProbBps, MinMarginBps) =>
        Lesser(PayoutFor(question.onYes, question.yes),
               PayoutFor(question.onNo, question.no))
            <= question.onYes + question.onNo

\* Everything an agent signs is something the contracts take: its quote
\* clears validateQuote, no stake the quote allows costs the vault more than
\* its budget on either side, each hold it offers is within OddsLock's terms,
\* and the quote that honours the hold clears validateQuote too -- whatever
\* the play, the reading, and the margin learned.
QuoteFits(quote, budget, cap) ==
    LET stake == QuoteMaxStake(budget, quote.probYesBps, quote.probNoBps, cap)
    IN  \A side \in Sides :
            LiabilityFor(stake, SidePrice(quote, side)) \in 0..budget

OfferHonourable(offer) ==
    LET honouring == HonouringPrices(offer.side, offer.probBps)
    IN  /\ OfferTermsValid(offer)
        /\ ValidQuote(honouring.probYesBps, honouring.probNoBps,
                      MinProbBps, MaxProbBps, MinMarginBps)

SignedWorkAccepted ==
    question.kind = "sign" =>
        \A quote \in {Price(question.agent, question)} :
            /\ MarginReachable(EffectiveMarginBps(question.agent.margin,
                                                  question.adj))
            /\ ValidQuote(quote.probYesBps, quote.probNoBps,
                          MinProbBps, MaxProbBps, MinMarginBps)
            /\ QuoteFits(quote, question.budget, question.agent.maxStake)
            /\ question.agent \in HouseAgents /\ question.left > 0 =>
                  \A offer \in HoldOffers(quote, question.left, question.speed) :
                      OfferHonourable(offer)

\* One more event, a longer window or a higher reading never makes Yes
\* cheaper or No dearer: clamping and rounding do not turn a price around.
PriceFollowsPlay ==
    question.kind = "sign" =>
        \A quote \in {Price(question.agent, question)},
           livelier \in {[question EXCEPT !.recent = @ + 1],
                         [question EXCEPT !.left = @ + 1]}
                        \cup {[question EXCEPT !.reading = r] :
                              r \in {m \in Readings :
                                        NoReading < question.reading
                                        /\ question.reading < m}} :
            LET dearer == Price(question.agent, livelier)
            IN  /\ dearer.probYesBps >= quote.probYesBps
                /\ dearer.probNoBps <= quote.probNoBps

\* What a fan is shown is what is struck.  The fills of a preview that got a
\* stake, sent alone, are split by the router's own ladder exactly as
\* previewed, though fewer quotes mean other weights (bet-preview.ts); and a
\* cash-out locks in the value shown, above what it costs, whichever side wins
\* (YourBets.tsx), though its search works on a payout that roundings make uneven
\* (cash-out.ts), and one sent after the book moved leaves at least 97% of the
\* value that was shown.
StruckAsShown(quotes, preview) ==
    LET sent == Among([i \in DOMAIN preview.stakes |-> i],
                      {i \in DOMAIN preview.stakes : preview.stakes[i] > 0})
        caps == [i \in DOMAIN sent |-> quotes[sent[i]].maxStake]
        n == Len(sent)
    IN  n > 0 =>
          /\ preview.left = 0
          /\ LadderPlaces(preview.fillableStake, caps, LadderFor(n), n)
          /\ LadderStakes(preview.fillableStake, caps, LadderFor(n), n)
                = [i \in 1..n |-> preview.stakes[sent[i]]]

CashOutEven(book, held) ==
    \A offer \in {CashOutShown([yes |-> 0, no |-> held], TRUE, FALSE, book)} \ {NoOffer} :
        \A cover \in {PreviewBet(book, "yes", offer.coverStake)} :
            LET after == [yes |-> cover.totalPayout, no |-> held]
            IN  /\ offer.value > 0
                /\ cover.fillableStake = offer.coverStake
                /\ CashedOut(after) /\ LockedIn(after) - offer.coverStake >= offer.value
                /\ StruckAsShown(book, cover)
                /\ \A shown \in 1..held :
                      \A sent \in {PlaceCashOut(book, "yes", held, shown)} \ {NoOffer} :
                          /\ cover.totalPayout >= sent.minPayout
                          /\ (LockedIn(after) - sent.coverStake) * 100 >= shown * 97

PreviewIsTheBet ==
    /\ question.kind = "preview" =>
          LET quotes == [i \in DOMAIN question.caps |->
                            [maxStake |-> question.caps[i],
                             probYesBps |-> BPS \div 2, probNoBps |-> BPS \div 2]]
          IN  StruckAsShown(quotes, PreviewBet(quotes, "yes", question.stake))
    /\ question.kind = "cover" => CashOutEven(question.book, question.held)
=============================================================================
