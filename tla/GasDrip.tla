------------------------------- MODULE GasDrip -------------------------------
(***************************************************************************)
(* The gas sponsor (web/app/api/gas-drip/route.ts, server/gas-budget.ts):  *)
(* requests to top an address up to a target, each a sequence of awaited   *)
(* steps, any number at once, over one day.  Amounts are in hundredths of  *)
(* a MON.                                                                  *)
(***************************************************************************)
EXTENDS Naturals, FiniteSets, FiniteSetsExt, Sequences

CONSTANTS
    Addresses,
    IpOf,               \* address |-> the IP its requests come from
    Requests,           \* bound: requests, in all
    Floor, Target,      \* purpose |-> GAS_FLOOR_WEI, GAS_TARGET_WEI
    IpCap, DailyCap, NewAccountsPerIp,
    Reserve,
    SponsorStart,
    Nobody

VARIABLES
    balance,    \* address |-> MON
    fresh,      \* addresses that have sent nothing yet
    sponsor,    \* MON of the sponsor
    grants,     \* DripBudget.grants
    requests    \* request |-> where it stands

gasVars == <<balance, fresh, sponsor, grants, requests>>

Purposes == {"fan", "agent"}

ASSUME GasConstants ==
    /\ Floor \in [Purposes -> Nat] /\ Target \in [Purposes -> Nat]
    /\ \A p \in Purposes : Floor[p] <= Target[p]

NotAsked == [step |-> "none", address |-> Nobody, purpose |-> Nobody,
             amount |-> 0, new |-> FALSE]

GasInit ==
    /\ balance = [a \in Addresses |-> 0]
    /\ fresh = Addresses
    /\ sponsor = SponsorStart
    /\ grants = <<>>
    /\ requests = [r \in Requests |-> NotAsked]

Goes(r, step) == requests' = [requests EXCEPT ![r].step = step]
Over(r) == Goes(r, "over")

\* Requests are numbered as they come.
Unused(r) == {q \in Requests : q <= r /\ requests[q].step = "none"} = {r}

\* A request for an address and purpose already in flight shares its answer.
InFlight(a, p) ==
    \E r \in Requests : /\ requests[r].step \notin {"none", "over"}
                        /\ requests[r].address = a /\ requests[r].purpose = p

Ask_Unshared(r, a, p) ==
    /\ Unused(r)
    /\ requests' = [requests EXCEPT ![r] = [NotAsked EXCEPT
                       !.step = "asked", !.address = a, !.purpose = p]]
    /\ UNCHANGED <<balance, fresh, sponsor, grants>>
Ask(r, a, p) ==
    /\ Unused(r)
    /\ ~InFlight(a, p)
    /\ requests' = [requests EXCEPT ![r] = [NotAsked EXCEPT
                       !.step = "asked", !.address = a, !.purpose = p]]
    /\ UNCHANGED <<balance, fresh, sponsor, grants>>

\* The balance is read, and topped up only below the purpose's floor.
ReadBalance(r) ==
    LET a == requests[r].address
        p == requests[r].purpose
    IN  /\ requests[r].step = "asked"
        /\ IF balance[a] >= Floor[p] THEN Over(r)
           ELSE requests' = [requests EXCEPT ![r].step = "check",
                                             ![r].amount = Target[p] - balance[a]]
        /\ UNCHANGED <<balance, fresh, sponsor, grants>>

Total(of) == MapThenSumSet(LAMBDA i : grants[i].amount, of)

Denied(ip, new, amount) ==
    LET fromIp == {i \in DOMAIN grants : grants[i].ip = ip}
    IN  \/ new /\ Cardinality({i \in fromIp : grants[i].new}) >= NewAccountsPerIp
        \/ Total(fromIp) + amount > IpCap
        \/ Total(DOMAIN grants) + amount > DailyCap

\* Whether it has sent anything is read, and the budget asked at once.
CheckBudget(r) ==
    LET a == requests[r].address
        new == a \in fresh
    IN  /\ requests[r].step = "check"
        /\ IF Denied(IpOf[a], new, requests[r].amount) THEN Over(r)
           ELSE requests' = [requests EXCEPT ![r].step = "cover", ![r].new = new]
        /\ UNCHANGED <<balance, fresh, sponsor, grants>>

\* The sponsor's balance is awaited; then the grant is booked, and sent.
Record(r) ==
    LET req == requests[r]
    IN  /\ req.step = "cover"
        /\ IF sponsor < req.amount + Reserve
           THEN Over(r) /\ UNCHANGED grants
           ELSE /\ Goes(r, "sent")
                /\ grants' = Append(grants, [ip |-> IpOf[req.address], new |-> req.new,
                                             amount |-> req.amount])
        /\ UNCHANGED <<balance, fresh, sponsor>>

\* Mined: an over-balance transfer is included and reverts.
Transfer(r) ==
    LET req == requests[r]
    IN  /\ req.step = "sent"
        /\ IF sponsor < req.amount
           THEN Over(r) /\ UNCHANGED <<sponsor, balance>>
           ELSE /\ Goes(r, "settling")
                /\ sponsor' = sponsor - req.amount
                /\ balance' = [balance EXCEPT ![req.address] = @ + req.amount]
        /\ UNCHANGED <<fresh, grants>>

\* Answered some blocks later, when the MON can pay for gas.
Answer(r) ==
    /\ requests[r].step = "settling"
    /\ Over(r)
    /\ UNCHANGED <<balance, fresh, sponsor, grants>>

\* The account uses what it got: part of it, or all.
Spend(a) ==
    /\ balance[a] > 0
    /\ \E left \in {0, balance[a] \div 2} : balance' = [balance EXCEPT ![a] = left]
    /\ fresh' = fresh \ {a}
    /\ UNCHANGED <<sponsor, grants, requests>>

GasStep ==
    \/ \E r \in Requests : \/ \E a \in Addresses, p \in Purposes : Ask(r, a, p)
                           \/ ReadBalance(r) \/ CheckBudget(r) \/ Record(r)
                           \/ Transfer(r) \/ Answer(r)
    \/ \E a \in Addresses : Spend(a)

-----------------------------------------------------------------------------

\* An address is never given more than one target of each purpose on top of
\* nothing: requests that overlap do not each pay for the same low balance
\* (route.ts, inFlight).
NeverPaidTwice ==
    \A a \in Addresses : balance[a] <= Target["fan"] + Target["agent"]

\* "Counted before sending, so two requests at once can't both slip under a
\* limit" (route.ts drip): what was given in a day is within the day's ceiling.
WithinDailyCap == Total(DOMAIN grants) <= DailyCap
=============================================================================
