------------------------------- MODULE Session -------------------------------
(***************************************************************************)
(* What goes on around the program on one person's side: a fan's account   *)
(* collecting its winnings while a page is open, and kept in money; an     *)
(* operator's console teaching an agent; a trader using the MetaMask       *)
(* plugin; the sponsor answering accounts out of gas; an agent quoting     *)
(* from its operator's page; or the match reader the house agents price    *)
(* by.  A behaviour is about one of the seven; three of them look at the   *)
(* same bets through the same indexer.                                     *)
(***************************************************************************)
EXTENDS AccountEngine, AgentConsole, GasDrip, Trader, BrowserAgent, MatchReader

CONSTANT Topics     \* of "account", "funds", "console", "trader", "sponsor", "agent",
                    \* "reader"

VARIABLE topic

sideVars == <<accountVars, funds, consoleVars, traderVars, gasVars, agentVars, readerVars>>
vars == <<topic, indexerVars, sideVars>>

Init ==
    /\ topic \in Topics
    /\ IndexerInit /\ AccountInit /\ FundsInit /\ ConsoleInit /\ TraderInit
    /\ GasInit /\ BrowserInit /\ ReaderInit

Settlement ==
    \/ \E m \in Markets, result \in Outcomes : ResolveMarket(m, result)
    \/ \E id \in DOMAIN bets : SettleBet(id)

SettlementStep ==
    /\ topic \in {"account", "console", "trader"}
    /\ Settlement
    /\ UNCHANGED <<topic, sideVars>>
IndexStep == Index /\ UNCHANGED <<topic, sideVars>>

Engine(Step) ==
    /\ topic = "account" /\ Step
    /\ UNCHANGED <<topic, funds, consoleVars, traderVars, gasVars, agentVars, readerVars>>
Funds(Step) ==
    /\ topic = "funds" /\ Step
    /\ UNCHANGED <<topic, consoleVars, traderVars, gasVars, agentVars, readerVars>>

Next ==
    \/ SettlementStep
    \/ IndexStep
    \/ Engine(AccountStep)
    \/ Funds(FundsStep)
    \/ topic = "console" /\ ConsoleStep
          /\ UNCHANGED <<topic, accountVars, funds, traderVars, gasVars, agentVars, readerVars>>
    \/ topic = "trader" /\ TraderStep
          /\ UNCHANGED <<topic, accountVars, funds, consoleVars, gasVars, agentVars, readerVars>>
    \/ topic = "sponsor" /\ GasStep
          /\ UNCHANGED <<topic, indexerVars, accountVars, funds, consoleVars,
                         traderVars, agentVars, readerVars>>
    \/ topic = "agent" /\ BrowserStep
          /\ UNCHANGED <<topic, indexerVars, accountVars, funds, consoleVars, traderVars,
                         gasVars, readerVars>>
    \/ topic = "reader" /\ ReaderStep
          /\ UNCHANGED <<topic, indexerVars, accountVars, funds, consoleVars, traderVars,
                         gasVars, agentVars>>

Spec == Init /\ [][Next]_vars

\* The engine's timers go off and its calls are answered, faults apart; a page
\* that was closed is opened again; the indexer catches up; time passes.
Fairness ==
    /\ WF_vars(Engine(TickStep)) /\ SF_vars(Engine(Seed)) /\ WF_vars(Engine(BackoffOver))
    /\ WF_vars(IndexStep)
    /\ WF_vars(Funds(funds.setup = "closed" /\ SetUp))
    /\ WF_vars(Funds(EnsureGas \/ SendWrite)) /\ SF_vars(Funds(CheckRefill))
    /\ WF_vars(Funds(TimePasses))

FairSpec == Spec /\ Fairness
-----------------------------------------------------------------------------

\* A won or voided bet reaches the fan's balance though calls fail, receipts
\* are lost and the page reloads: seed finds what no page remembers, and a
\* failed payout is tried again.  And an account is never left without nUSD: it
\* has some, or winnings to come, whatever became of its setup, its claims or its
\* top-ups (setup, checkRefill, refill), nor told for good that it is out of nUSD
\* when it is not (accountNotice).
PaidOut ==
    /\ []<>/\ topic = "account" => \A id \in DOMAIN bets : Claimable(bets[id]) = 0
           /\ topic = "funds" => funds.funded \/ funds.owed
    /\ []<>(topic = "funds" => ~(AccountNotice = "out of nUSD" /\ funds.funded))

\* What an agent prices by was looked at lately: a multiplier is of a recent
\* read, and a quote signed in a page is for a market that was out of danger at
\* some moment of its own sweep (or whose match could not be read).
PricedFromRecentLook == ReadIsRecent /\ rash = {}
=============================================================================
