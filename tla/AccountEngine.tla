---------------------------- MODULE AccountEngine ----------------------------
(***************************************************************************)
(* What a fan's account does without being asked, in one open page         *)
(* (web/lib/account-engine.ts, account-context.tsx): it watches the fan's  *)
(* bets on chain, collects what they pay, and shows one result for each    *)
(* market.  Its tick is a sequence of awaited steps; the fan bets beside   *)
(* it, here or on another device, and may reload the page.  Apart from     *)
(* that, it keeps the account in nUSD and gas, by writes that queue.       *)
(***************************************************************************)
EXTENDS Indexer, Totals

CONSTANTS
    MaxFaults,          \* bound: failed calls, lost receipts and reloads
    MaxCopies,          \* bound: times one bet is counted within one result
    Cooldown,           \* CLAIM_COOLDOWN of the faucet
    FullTank            \* transactions a top-up of gas pays for

ASSUME AccountBounds == MaxBets \in Nat /\ MaxCopies \in Nat

VARIABLES
    engine,     \* where the page's tick stands, and what it works on
    watched,    \* bets it watches
    settled,    \* bets settled and not announced: bet |-> [copies, amount]
    receipt,    \* the bet a placement made, until its receipt is in
    results,    \* shown: market and stake |-> [outcome, amount]
    faults,
    funds       \* the account's nUSD and gas, and the page's keeping of them

pageVars == <<engine, watched, settled, receipt, results>>
accountVars == <<pageVars, faults>>

\* backoff: RETRY_MS since a failed payout are not over.
Resting == [step |-> "rest", backoff |-> engine.backoff]
Closed == [step |-> "closed", backoff |-> FALSE]

AccountInit ==
    /\ engine = Closed
    /\ watched = {} /\ settled = <<>> /\ receipt = None /\ results = <<>>
    /\ faults = 0

Fault == faults < MaxFaults /\ faults' = faults + 1

-----------------------------------------------------------------------------
(* The page *)

\* Setup: gas, nUSD and the approval; ticks follow whether or not it succeeded.
Open ==
    /\ engine.step = "closed"
    /\ engine' = Resting
    /\ UNCHANGED <<watched, settled, receipt, results, faults, indexerVars>>

\* A reload forgets everything the page knew.
Reload ==
    /\ engine.step # "closed"
    /\ Fault
    /\ engine' = Closed
    /\ watched' = {} /\ settled' = <<>> /\ receipt' = None /\ results' = <<>>
    /\ UNCHANGED indexerVars

\* placeBet, from this page once it is set up, or from another device.
Bet(m, s) ==
    /\ engine.step # "closed" /\ receipt = None
    /\ PlaceBet(m, s)
    /\ receipt' = Len(bets) + 1
    /\ UNCHANGED <<engine, watched, settled, results, faults>>
BetElsewhere(m, s) == PlaceBet(m, s) /\ UNCHANGED accountVars

\* trackPlaced, and collectNow, which waits out no back-off.
TrackPlaced ==
    /\ receipt # None
    /\ watched' = watched \cup {receipt}
    /\ receipt' = None
    /\ engine' = [engine EXCEPT !.backoff = FALSE]
    /\ UNCHANGED <<settled, results, faults, indexerVars>>

\* The wait for the receipt failed: the slip shows an error.
ReceiptLost ==
    /\ receipt # None
    /\ Fault
    /\ receipt' = None
    /\ UNCHANGED <<engine, watched, settled, results, indexerVars>>

ClaimElsewhere ==
    /\ \E id \in DOMAIN bets : Claimable(bets[id]) > 0 /\ ClaimBets({id})
    /\ UNCHANGED accountVars

BackoffOver ==
    /\ engine.backoff
    /\ engine' = [engine EXCEPT !.backoff = FALSE]
    /\ UNCHANGED <<watched, settled, receipt, results, faults, indexerVars>>

-----------------------------------------------------------------------------
(* A tick: seed, checkBets, announce *)

\* What the indexer has as open, or as won or voided and not yet claimed.
Seeds_OpenOnly == {id \in DOMAIN rows.bet : rows.bet[id].status = "Open"}
Seeds ==
    {id \in DOMAIN rows.bet :
        \/ rows.bet[id].status = "Open"
        \/ rows.bet[id].status \in {"Won", "Voided"} /\ ~rows.bet[id].claimed}

\* Every so often a tick begins with it; a tick whose reads fail is no tick.
Seed ==
    /\ engine.step = "rest"
    /\ watched' = watched \cup Seeds
    /\ UNCHANGED <<engine, settled, receipt, results, faults, indexerVars>>

\* A total over some of the bets, by betId.
TotalOver(ids, amounts) ==
    SumTo([id \in 1..MaxBets |-> IF id \in ids THEN amounts[id] ELSE 0], MaxBets)

\* settle: one part more of the market's result.
WithParts(parts, ids, amounts) ==
    [id \in DOMAIN parts \cup ids |->
        LET before == IF id \in DOMAIN parts THEN parts[id] ELSE [copies |-> 0, amount |-> 0]
        IN  IF id \notin ids THEN before
            ELSE [copies |-> Min({before.copies + 1, MaxCopies}),
                  amount |-> before.amount + amounts[id]]]

Result(parts, ids) ==
    LET statuses == {bets[id].status : id \in ids}
    IN  [amount |-> TotalOver(ids, [id \in ids |-> parts[id].amount]),
         outcome |-> CASE Cardinality({bets[id].side : id \in ids}) > 1 -> "CashedOut"
                       [] OTHER -> IF "Won" \in statuses THEN "Won"
                                   ELSE IF statuses = {"Voided"} THEN "Voided" ELSE "Lost"]

StakeOf(parts, ids) == Stake * TotalOver(ids, [id \in ids |-> parts[id].copies])

\* A market is announced once none of its bets is open or waiting to be paid.
\* A result of the same market and stake as one already shown is not shown.
Announce_Again(parts, waiting) ==
    LET Pending(m) == \E id \in waiting : bets[id].market = m
        due == {id \in DOMAIN parts : ~Pending(bets[id].market)}
        Of(m) == {id \in due : bets[id].market = m}
        keys == {<<m, StakeOf(parts, Of(m))>> : m \in {bets[id].market : id \in due}}
    IN  /\ results' = [k \in DOMAIN results \cup keys |->
                          IF k \in DOMAIN results THEN results[k] ELSE Result(parts, Of(k[1]))]
        /\ settled' = parts
Announce(parts, waiting) ==
    LET Pending(m) == \E id \in waiting : bets[id].market = m
        due == {id \in DOMAIN parts : ~Pending(bets[id].market)}
        Of(m) == {id \in due : bets[id].market = m}
        keys == {<<m, StakeOf(parts, Of(m))>> : m \in {bets[id].market : id \in due}}
    IN  /\ results' = [k \in DOMAIN results \cup keys |->
                          IF k \in DOMAIN results THEN results[k] ELSE Result(parts, Of(k[1]))]
        /\ settled' = [id \in DOMAIN parts \ due |-> parts[id]]

\* checkBets: getBet and claimableAmount are one batched call.  A bet is open,
\* owes something, or is done with: lost, or paid out already.
Check ==
    LET open == {id \in watched : bets[id].status = "Open"}
        payable == {id \in watched \ open : Claimable(bets[id]) > 0}
        done == watched \ (open \cup payable)
        parts == WithParts(settled, done, [id \in done |-> 0])
    IN  /\ engine.step = "rest" /\ watched # {}
        /\ watched' = watched \ done
        /\ IF payable # {} /\ ~engine.backoff
           THEN /\ engine' = [step |-> "pay", backoff |-> FALSE, open |-> open,
                              payable |-> [id \in payable |-> Owed(bets[id])]]
                /\ settled' = parts /\ UNCHANGED results
           ELSE UNCHANGED engine /\ Announce(parts, open \cup payable)
        /\ UNCHANGED <<receipt, faults, indexerVars>>

Paying == DOMAIN engine.payable

Pay ==
    /\ engine.step = "pay"
    /\ ClaimBets(Paying)
    /\ watched' = watched \ Paying
    /\ Announce(WithParts(settled, Paying, engine.payable), engine.open)
    /\ engine' = Resting
    /\ UNCHANGED <<receipt, faults>>

\* Never mined, or mined and its receipt lost: tried again later.
PayFails ==
    /\ engine.step = "pay"
    /\ Fault
    /\ ClaimBets(Paying) \/ UNCHANGED indexerVars
    /\ Announce(settled, engine.open \cup Paying)
    /\ engine' = [Resting EXCEPT !.backoff = TRUE]
    /\ UNCHANGED <<watched, receipt>>

TickStep == Open \/ Check \/ Pay

AccountStep ==
    \/ TickStep \/ Seed \/ TrackPlaced \/ BackoffOver
    \/ Reload \/ ReceiptLost \/ PayFails \/ ClaimElsewhere
    \/ \E m \in Markets, s \in BetSides : Bet(m, s) \/ BetElsewhere(m, s)

-----------------------------------------------------------------------------
(* The account's money.  funded: it holds LOW_NUSD or more; owed: it has    *)
(* winnings to collect; cooldown, refillAt: how long until the faucet gives *)
(* again, and until the page means to ask it.                               *)

FundsInit ==
    funds = [setup |-> "closed", funded |-> FALSE, owed |-> FALSE, approved |-> FALSE,
             gas |-> 0, cooldown |-> 0, refillAt |-> None, writes |-> <<>>]

\* sendTx: one write of an account at a time, in the order they came.
Queued(f, what, by) ==
    [f EXCEPT !.writes = Append(@, [what |-> what, by |-> by, step |-> "queued"])]
InQueue(by) == \E i \in DOMAIN funds.writes : funds.writes[i].by = by

\* refill: claims if the faucet allows it now, or notes when it will.
Cooling(f) == f.cooldown > 0
Refill(f, by) == IF Cooling(f) THEN [f EXCEPT !.refillAt = f.cooldown]
                 ELSE Queued(f, "claim", by)

Ready(f) == LET r == [f EXCEPT !.setup = "ready"]
            IN  IF f.approved THEN r ELSE Queued(r, "approve", "setup")

\* When the page opens, and on the fan's retry; ticks begin after the first.
SetUp ==
    LET f == [funds EXCEPT !.setup = IF @ = "closed" THEN "opening" ELSE "retrying"]
        refilled == Refill(f, "setup")
    IN  /\ funds.setup \in {"closed", "failed"}
        /\ \/ /\ funds' = IF f.funded THEN Ready(f)
                          ELSE IF Cooling(f) THEN Ready(refilled) ELSE refilled
              /\ UNCHANGED faults
           \/ Fault /\ funds' = [f EXCEPT !.setup = "failed"]
        /\ UNCHANGED <<pageVars, indexerVars>>

\* checkRefill, once in a while or when the cooldown should be over; winnings
\* on their way will fix it sooner than the faucet.
CheckRefill ==
    /\ funds.setup \notin {"closed", "opening"}
    /\ ~InQueue("tick")
    /\ funds.refillAt \in {None, 0}
    /\ funds' = IF funds.funded THEN [funds EXCEPT !.refillAt = None]
                ELSE IF funds.owed THEN funds ELSE Refill(funds, "tick")
    /\ UNCHANGED <<pageVars, faults, indexerVars>>

\* A bet waits for setup, and approves for itself where setup could not.
StakeFunds ==
    /\ funds.setup \notin {"closed", "opening"}
    /\ funds.funded /\ ~InQueue("fan")
    /\ funds' = IF funds.approved THEN Queued(funds, "bet", "fan")
                ELSE Queued(Queued(funds, "approve", "fan"), "bet", "fan")
    /\ UNCHANGED <<pageVars, faults, indexerVars>>

\* Before each write the sponsor is asked, if gas is low; its refusal is only
\* logged.
EnsureGas ==
    /\ funds.writes # <<>> /\ Head(funds.writes).step = "queued"
    /\ LET f == [funds EXCEPT !.writes[1].step = "send"]
       IN  IF f.gas > 0 THEN funds' = f /\ UNCHANGED faults
           ELSE \/ funds' = [f EXCEPT !.gas = FullTank] /\ UNCHANGED faults
                \/ funds' = f /\ Fault
    /\ UNCHANGED <<pageVars, indexerVars>>

\* On chain: claim has a cooldown; a bet needs its stake and the approval.
WriteReverts(f, what) ==
    \/ what = "claim" /\ Cooling(f)
    \/ what = "bet" /\ ~(f.funded /\ f.approved)
Effect(f, what) ==
    CASE what = "claim" -> [f EXCEPT !.funded = TRUE, !.cooldown = Cooldown]
      [] what = "approve" -> [f EXCEPT !.approved = TRUE]
      [] what = "bet" -> [f EXCEPT !.funded = FALSE]

\* What the caller does once its write is in, or has failed.
Told(f, write, done) ==
    LET g == [f EXCEPT !.writes = Tail(@)]
        h == IF done THEN [g EXCEPT !.refillAt = None] ELSE g
    IN  CASE write.what # "claim" -> g
          [] write.by = "tick" -> h
          [] write.by = "setup" -> IF done THEN Ready(h) ELSE [g EXCEPT !.setup = "failed"]

\* What the fan is told of the account (home/page.tsx).
AccountNotice ==
    CASE funds.setup \in {"closed", "opening", "retrying"} -> "setting up"
      [] funds.setup = "failed" -> "could not finish"
      [] funds.refillAt # None -> "out of nUSD"
      [] OTHER -> "none"

SendWrite ==
    LET write == Head(funds.writes)
        paid == [funds EXCEPT !.gas = @ - 1]
        mined == Effect(paid, write.what)
    IN  /\ funds.writes # <<>> /\ write.step = "send"
        /\ IF funds.gas = 0 \/ WriteReverts(funds, write.what)
           THEN funds' = Told(funds, write, FALSE) /\ UNCHANGED faults
           ELSE \/ funds' = Told(mined, write, TRUE) /\ UNCHANGED faults
                \/ Fault /\ \E f \in {funds, mined} : funds' = Told(f, write, FALSE)
        /\ UNCHANGED <<pageVars, indexerVars>>

\* The bets are won and collected, and the faucet used, elsewhere.
MoneyMoves ==
    /\ \/ ~funds.owed /\ funds' = [funds EXCEPT !.owed = TRUE]
       \/ funds.owed /\ funds' = [funds EXCEPT !.owed = FALSE, !.funded = TRUE]
       \/ ~Cooling(funds) /\ funds' = Effect(funds, "claim")
    /\ UNCHANGED <<pageVars, faults, indexerVars>>

TimePasses ==
    LET Less(t) == IF t \in {None, 0} THEN t ELSE t - 1
    IN  /\ Cooling(funds) \/ funds.refillAt \notin {None, 0}
        /\ funds' = [funds EXCEPT !.cooldown = Less(@), !.refillAt = Less(@)]
        /\ UNCHANGED <<pageVars, faults, indexerVars>>

ReloadFunds ==
    /\ funds.setup # "closed" /\ Fault
    /\ funds' = [funds EXCEPT !.setup = "closed", !.refillAt = None, !.writes = <<>>]
    /\ UNCHANGED <<pageVars, indexerVars>>

FundsStep ==
    \/ SetUp \/ CheckRefill \/ StakeFunds \/ EnsureGas \/ SendWrite
    \/ MoneyMoves \/ TimePasses \/ ReloadFunds

-----------------------------------------------------------------------------

\* What the results of a market show, whatever the stake each is of: of at most
\* every bet there is, each counted as often as it may be.
MaxShown == Stake * MaxCopies * MaxBets
ShownOf(m) ==
    SumTo([s \in 1..MaxShown |->
              IF <<m, s>> \in DOMAIN results THEN results[<<m, s>>].amount ELSE 0], MaxShown)

\* The results a page shows of a market never add up to more than its bets
\* have paid, though bets are settled, collected and announced out of step
\* (checkBets, settle, announce).
NeverOverstated ==
    \A m \in Markets :
        ShownOf(m) <= TotalOver({id \in DOMAIN bets : bets[id].market = m /\ bets[id].claimed},
                                [id \in DOMAIN bets |-> Owed(bets[id])])

\* "One result per market, however many bets the fan had on it" (BetResult).
OneResultPerMarket ==
    \A k, l \in DOMAIN results : k[1] = l[1] => k = l
=============================================================================
