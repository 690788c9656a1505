------------------------------- MODULE Trader -------------------------------
(***************************************************************************)
(* The MetaMask plugin's commands that bet and collect                     *)
(* (packages/mm-plugin): each reads the chain, the indexer or the relay,   *)
(* and sends one or two transactions through the Agent Wallet, which may   *)
(* refuse one, hold it until its owner approves it, or send it and not     *)
(* wait for it.  A trader, person or agent, may run several commands at    *)
(* once, and try again when one reports an error.                          *)
(***************************************************************************)
EXTENDS Indexer, Totals

CONSTANTS
    MaxCommands,        \* bound: commands run, numbered in the order they start
    Splits,             \* fills a bet may be split into
    Purse,              \* nUSD to begin with
    Grant               \* the faucet's

ASSUME TraderConstants ==
    /\ MaxCommands \in Nat /\ Splits \subseteq Nat \ {0}
    /\ None \notin {"bet", "collect", "faucet", "approve", "placeBet", "claim",
                    "done", "not_sent", "reverted"}

VARIABLES
    purse,      \* nUSD of the trader
    allowance,  \* that the bet router may take of it
    drawn,      \* the faucet has been claimed and refills later
    group,      \* groupId by bet: the command that placed it
    command,    \* where each command stands, and what it told the trader
    tx          \* where each transaction stands, by command and call

Commands == 1..MaxCommands

traderVars == <<purse, allowance, drawn, group, command, tx>>

Unstarted == [does |-> None, step |-> "none", call |-> None, market |-> None,
              side |-> None, fills |-> 0, ids |-> {}, told |-> None]

TraderInit ==
    /\ purse = Purse
    /\ allowance = 0
    /\ drawn = FALSE
    /\ group = <<>>
    /\ command = [c \in Commands |-> Unstarted]
    /\ tx = <<>>

Starts(c) == {d \in Commands : d <= c /\ command[d].does = None} = {c}
StakeOfBet(c) == Stake * command[c].fills

MovesTo(c, step) == command' = [command EXCEPT ![c].step = step]
Tells(c, what) == command' = [command EXCEPT ![c].step = "over", ![c].told = what]
Sends(c, call) == command' = [command EXCEPT ![c].step = "estimate", ![c].call = call]

\* A bet allows the router exactly its stake.
Approval_ForAll(c) == Purse
Approval(c) == StakeOfBet(c)

\* Only a command moved on.
Thinks == UNCHANGED <<purse, allowance, drawn, group, tx, indexerVars>>

-----------------------------------------------------------------------------
(* The Agent Wallet and the chain *)

\* What simulating a call, or mining it, comes to just now.
Reverts(c, call) ==
    CASE call = "placeBet" -> \/ outcome[command[c].market] # None
                              \/ allowance < StakeOfBet(c) \/ purse < StakeOfBet(c)
      [] call = "faucet" -> drawn
      [] OTHER -> FALSE

Mine(c, call) ==
    /\ <<c, call>> \in DOMAIN tx /\ tx[<<c, call>>] = "sent"
    /\ UNCHANGED command
    /\ IF Reverts(c, call)
       THEN /\ tx' = [tx EXCEPT ![<<c, call>>] = "reverted"]
            /\ UNCHANGED <<purse, allowance, drawn, group, indexerVars>>
       ELSE /\ tx' = [tx EXCEPT ![<<c, call>>] = "mined"]
            /\ \/ /\ call = "approve"
                  /\ allowance' = Approval(c)
                  /\ UNCHANGED <<purse, drawn, group, indexerVars>>
               \/ /\ call = "placeBet"
                  /\ PlaceFills(command[c].market, command[c].side, command[c].fills)
                  /\ purse' = purse - StakeOfBet(c)
                  /\ allowance' = allowance - StakeOfBet(c)
                  /\ group' = group \o [i \in 1..command[c].fills |-> c]
                  /\ UNCHANGED drawn
               \/ /\ call = "claim"
                  /\ ClaimBets(command[c].ids)
                  /\ purse' = purse + MapThenSumSet(LAMBDA id : Claimable(bets[id]),
                                                    command[c].ids)
                  /\ UNCHANGED <<allowance, drawn, group>>
               \/ /\ call = "faucet"
                  /\ drawn' = TRUE
                  /\ purse' = purse + Grant
                  /\ UNCHANGED <<allowance, group, indexerVars>>

\* A call the wallet's policy holds is approved by its owner, or expires.
Decide(c, call) ==
    /\ <<c, call>> \in DOMAIN tx /\ tx[<<c, call>>] = "held"
    /\ \E to \in {"sent", "expired"} : tx' = [tx EXCEPT ![<<c, call>>] = to]
    /\ UNCHANGED <<purse, allowance, drawn, group, command, indexerVars>>

-----------------------------------------------------------------------------
(* send *)

\* Approved, or on its way to be: a bet goes on to its price.
Sent(c, what) == IF command[c].call = "approve" THEN MovesTo(c, "price") ELSE Tells(c, what)

\* A call that would revert is not sent, nor one the wallet has no gas for.
Estimate(c) ==
    /\ command[c].step = "estimate"
    /\ \/ ~Reverts(c, command[c].call) /\ MovesTo(c, "execute")
       \/ Tells(c, "not_sent")
    /\ Thinks

\* The wallet refuses it, holds it, or has it mined or on its way.
Execute_HeldIsRefused(c) ==
    LET call == command[c].call
        Has(where) == tx' = Put(tx, <<c, call>>, where)
    IN  /\ command[c].step = "execute"
        /\ \/ Tells(c, "not_sent") /\ UNCHANGED tx
           \/ Has("held") /\ Tells(c, "not_sent")
           \/ Has("sent") /\ MovesTo(c, "receipt")
        /\ UNCHANGED <<purse, allowance, drawn, group, indexerVars>>
Execute(c) ==
    LET call == command[c].call
        Has(where) == tx' = Put(tx, <<c, call>>, where)
    IN  /\ command[c].step = "execute"
        /\ \/ Tells(c, "not_sent") /\ UNCHANGED tx
           \/ Has("held") /\ Sent(c, "awaiting_approval")
           \/ Has("sent") /\ MovesTo(c, "receipt")
        /\ UNCHANGED <<purse, allowance, drawn, group, indexerVars>>

\* Its receipt, or none within a minute.
Receipt(c) ==
    LET now == tx[<<c, command[c].call>>]
    IN  /\ command[c].step = "receipt"
        /\ \/ now = "mined" /\ Sent(c, "done")
           \/ now = "reverted" /\ Tells(c, "reverted")
           \/ Tells(c, "no_receipt")
        /\ Thinks

-----------------------------------------------------------------------------
(* The commands *)

\* Bets under way are within the bound on bets.
Room(n) ==
    Len(bets) + n
        + MapThenSumSet(LAMBDA c : command[c].fills,
                        {c \in Commands : /\ command[c].does = "bet"
                                          /\ \A i \in DOMAIN group : group[i] # c})
    <= MaxBets

BeginBet(c, m, s, n) ==
    LET begun == [Unstarted EXCEPT !.does = "bet", !.market = m, !.side = s, !.fills = n]
    IN  /\ Starts(c) /\ Room(n)
        /\ command' = [command EXCEPT ![c] =
               IF purse < Stake * n
               THEN [begun EXCEPT !.step = "over", !.told = "not_sent"]
               ELSE [begun EXCEPT !.step = "allowance"]]
        /\ Thinks

\* Exactly the stake is allowed, before pricing, if it is not already.
Allow(c) ==
    /\ command[c].step = "allowance"
    /\ IF allowance >= StakeOfBet(c) THEN MovesTo(c, "price") ELSE Sends(c, "approve")
    /\ Thinks

\* What the book comes to for a stake, at this moment.
Plans == {"no_prices", "too_big", "below_min_odds", "fills"}

\* Priced only once the router may take the stake: the fills are sent at once,
\* or the trader is told why not, and the allowance stays.
PriceBet(c) ==
    /\ command[c].step = "price"
    /\ \E plan \in Plans :
           IF plan = "fills" THEN Sends(c, "placeBet") ELSE Tells(c, "not_sent")
    /\ Thinks

\* recentBets: the indexer's fills of the trader's ...
BeginCollect(c) ==
    /\ Starts(c)
    /\ command' = [command EXCEPT ![c] = [Unstarted EXCEPT
           !.does = "collect", !.step = "refresh", !.ids = DOMAIN rows.bet]]
    /\ Thinks

\* ... brought up to date, and added up into the bets they were placed as.
Refresh(c) ==
    LET due == {id \in command[c].ids : Claimable(bets[id]) > 0}
        ids == {id \in command[c].ids : \E d \in due : group[d] = group[id]}
    IN  /\ command[c].step = "refresh"
        /\ command' = [command EXCEPT ![c].step = "owed", ![c].ids = ids]
        /\ Thinks

ReadOwed(c) ==
    LET payable == {id \in command[c].ids : Claimable(bets[id]) > 0}
    IN  /\ command[c].step = "owed"
        /\ command' = [command EXCEPT
               ![c].ids = payable,
               ![c].step = IF payable = {} THEN "over" ELSE "estimate",
               ![c].call = IF payable = {} THEN None ELSE "claim",
               ![c].told = IF payable = {} THEN "nothing_to_collect" ELSE None]
        /\ Thinks

BeginFaucet(c) ==
    /\ Starts(c)
    /\ command' = [command EXCEPT ![c] =
           IF drawn THEN [Unstarted EXCEPT !.does = "faucet", !.step = "over", !.told = "not_sent"]
           ELSE [Unstarted EXCEPT !.does = "faucet", !.step = "estimate", !.call = "faucet"]]
    /\ Thinks

TraderStep ==
    \E c \in Commands :
        \/ \E m \in Markets, s \in BetSides, n \in Splits : BeginBet(c, m, s, n)
        \/ Allow(c) \/ PriceBet(c)
        \/ BeginCollect(c) \/ Refresh(c) \/ ReadOwed(c)
        \/ BeginFaucet(c)
        \/ Estimate(c) \/ Execute(c) \/ Receipt(c)
        \/ \E call \in {"approve", "placeBet", "claim", "faucet"} : Mine(c, call) \/ Decide(c, call)

-----------------------------------------------------------------------------

Struck(c) == \E id \in DOMAIN group : group[id] = c
Pending(c, call) == <<c, call>> \in DOMAIN tx /\ tx[<<c, call>>] \in {"held", "sent"}

\* What a command tells stays true, whatever the wallet holds, sends late or
\* loses sight of (send): a bet it reported as not sent or reverted is not
\* struck, then or later; one it reported as placed is; and what it reported
\* as collected is not left to collect.
ToldTruly ==
    \A c \in Commands :
        LET told == command[c].told
        IN  /\ command[c].does = "bet" /\ told = "done" => Struck(c)
            /\ command[c].does = "bet" /\ told \in {"not_sent", "reverted"} =>
                   ~Struck(c) /\ ~Pending(c, "placeBet")
            /\ command[c].does = "collect" /\ told = "done" =>
                   \A id \in command[c].ids : bets[id].claimed

\* "Allow the bet router exactly this stake, if it can't already take it"
\* (bet.ts): what it has taken and may still take is never more than the
\* trader asked to bet, though bets overlap, fail after their approval or are
\* tried again.
SpentAsAsked ==
    allowance + Stake * Len(group)
        <= SumTo([c \in Commands |-> IF command[c].does = "bet" THEN StakeOfBet(c) ELSE 0],
                 MaxCommands)
=============================================================================
