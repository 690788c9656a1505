----------------------------- MODULE WagerBook -----------------------------
(***************************************************************************)
(* What BetRouter promises a fan (contracts/src/interfaces/IBetRouter.sol  *)
(* and the contract's comments), with no vaults, quotes or markets in      *)
(* sight.  A wager is struck with its stake in custody and a payout fixed  *)
(* for good; it ends once; what it is owed is in custody until it is       *)
(* collected, once.                                                        *)
(***************************************************************************)
EXTENDS Integers, Totals

CONSTANTS
    MaxWagers,      \* wagers are numbered 1..MaxWagers in the order struck
    Fans,
    Nobody

VARIABLES
    struck,         \* how many wagers exist
    wagers,         \* [fan, stake, payout, state]
    custody         \* money held for fans

bookVars == <<struck, wagers, custody>>

Wagers == 1..MaxWagers

Due(w) == CASE w.state = "Open" -> w.stake
            [] w.state = "Won" -> w.payout
            [] w.state = "Voided" -> w.stake
            [] OTHER -> 0

BookInit ==
    /\ struck = 0
    /\ wagers = [b \in Wagers |-> [fan |-> Nobody, stake |-> 0, payout |-> 0,
                                   state |-> "None"]]
    /\ custody = 0

\* One payment by one fan strikes the next few wagers.
Strike ==
    /\ struck' \in struck + 1 .. MaxWagers
    /\ LET fresh == struck + 1 .. struck'
       IN  /\ \A b \in Wagers \ fresh : wagers'[b] = wagers[b]
           /\ \E fan \in Fans : \A b \in fresh :
                 /\ wagers'[b].fan = fan
                 /\ wagers'[b].state = "Open"
                 /\ wagers'[b].stake > 0
                 /\ wagers'[b].payout >= wagers'[b].stake
           /\ custody' = custody + SumTo([b \in Wagers |-> IF b \in fresh
                                                           THEN wagers'[b].stake
                                                           ELSE 0], MaxWagers)

\* The house adds its side of a winner and takes the stake of a loser.
End(b, state) ==
    /\ wagers[b].state = "Open"
    /\ wagers' = [wagers EXCEPT ![b].state = state]
    /\ custody' = custody - Due(wagers[b]) + Due(wagers'[b])
    /\ UNCHANGED struck

Collect(b) ==
    /\ wagers[b].state \in {"Won", "Voided"}
    /\ wagers' = [wagers EXCEPT ![b].state = "Paid"]
    /\ custody' = custody - Due(wagers[b])
    /\ UNCHANGED struck

BookNext ==
    \/ Strike
    \/ \E b \in Wagers : \/ \E state \in {"Won", "Lost", "Voided"} : End(b, state)
                         \/ Collect(b)

BookSpec == BookInit /\ [][BookNext]_bookVars
=============================================================================
