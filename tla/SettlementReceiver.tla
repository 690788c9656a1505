------------------------- MODULE SettlementReceiver -------------------------
(***************************************************************************)
(* The only way an outcome reaches a market:                               *)
(* contracts/src/SettlementReceiver.sol.  A report names a match, its      *)
(* position in the order of reports and the outcomes of some markets.      *)
(* Reports of the simulation forwarder also carry the attestor's           *)
(* signature, which names the nonce it was made for.                       *)
(***************************************************************************)
EXTENDS MarketManager, Sequences, FiniteSets

CONSTANTS
    Attestors,      \* keys that may sign simulated reports
    Workflows       \* identities a report's metadata may carry

VARIABLES
    simEnabled,
    simAttestor,
    productionLocked,
    expectedWorkflow,   \* None until setExpectedWorkflow
    lastProducedAt,     \* by match
    simNonce            \* by match

receiverVars == <<simEnabled, simAttestor, productionLocked, expectedWorkflow,
                  lastProducedAt, simNonce>>

Forwarders == {"Production", "Simulation"}

\* The outcome bytes of a report; the others are refused.
OutcomeYes == 1
OutcomeNo == 2
OutcomeVoid == 3

ReceiverTypeOK ==
    /\ simEnabled \in BOOLEAN /\ productionLocked \in BOOLEAN
    /\ simAttestor \in Attestors \cup {None}
    /\ expectedWorkflow \in Workflows \cup {None}
    /\ lastProducedAt \in [Matches -> Nat]
    /\ simNonce \in [Matches -> Nat]

ReceiverInit ==
    /\ simEnabled = FALSE
    /\ simAttestor = None
    /\ productionLocked = FALSE
    /\ expectedWorkflow = None
    /\ lastProducedAt = [id \in Matches |-> 0]
    /\ simNonce = [id \in Matches |-> 0]

-----------------------------------------------------------------------------
(* Owner controls *)

SetForwarder(allowed) ==
    /\ ~productionLocked
    /\ simEnabled' = allowed
    /\ UNCHANGED <<simAttestor, productionLocked, expectedWorkflow,
                   lastProducedAt, simNonce>>

SetSimAttestor(key) ==
    /\ ~productionLocked
    /\ simAttestor' = key
    /\ UNCHANGED <<simEnabled, productionLocked, expectedWorkflow,
                   lastProducedAt, simNonce>>

\* One-way: the simulation path never comes back.
LockProduction ==
    /\ simEnabled' = FALSE
    /\ simAttestor' = None
    /\ productionLocked' = TRUE
    /\ UNCHANGED <<expectedWorkflow, lastProducedAt, simNonce>>

SetExpectedWorkflow(workflow) ==
    /\ expectedWorkflow' = workflow
    /\ UNCHANGED <<simEnabled, simAttestor, productionLocked,
                   lastProducedAt, simNonce>>

-----------------------------------------------------------------------------
(* onReport *)

IsAllowedForwarder(forwarder) ==
    \/ forwarder = "Production"
    \/ forwarder = "Simulation" /\ simEnabled /\ ~productionLocked

WorkflowMatches(workflow) == expectedWorkflow \in {None, workflow}

\* signature = [key, nonce]: the digest binds the nonce and the whole report.
ValidSimSignature(signature, matchId) ==
    /\ simAttestor # None
    /\ signature = [key |-> simAttestor, nonce |-> simNonce[matchId]]

Fresh(report) == report.producedAt > lastProducedAt[report.matchId]

\* Whether MarketManager takes the outcome; if it refuses, the market is
\* skipped and the rest of the report goes on.
Applies(entry) ==
    \/ entry.outcome \in {OutcomeYes, OutcomeNo} /\ CanResolve(entry.marketId)
    \/ entry.outcome = OutcomeVoid /\ CanVoid(entry.marketId)

Decided(entry) ==
    CASE entry.outcome = OutcomeYes ->
           Resolution(entry.marketId, "Yes", entry.qualifyingEventTs)
      [] entry.outcome = OutcomeNo ->
           Resolution(entry.marketId, "No", entry.qualifyingEventTs)
      [] OTHER -> Voiding(entry.marketId)

\* A market's first entry that applies settles it; later ones then fail.
ApplyReport(entries) ==
    markets' =
      [m \in Markets |->
         LET hits == {i \in DOMAIN entries : /\ entries[i].marketId = m
                                             /\ Applies(entries[i])}
         IN  IF hits = {}
             THEN markets[m]
             ELSE Decided(entries[CHOOSE i \in hits : \A j \in hits : i <= j])]

ReportAccepted(forwarder, workflow, report, signature) ==
    /\ IsAllowedForwarder(forwarder)
    /\ WorkflowMatches(workflow)
    /\ forwarder = "Simulation" => ValidSimSignature(signature, report.matchId)
    /\ Len(report.markets) > 0
    /\ Fresh(report)

OnReport(forwarder, workflow, report, signature) ==
    /\ ReportAccepted(forwarder, workflow, report, signature)
    /\ lastProducedAt' = [lastProducedAt EXCEPT ![report.matchId] = report.producedAt]
    /\ simNonce' = IF forwarder = "Simulation"
                   THEN [simNonce EXCEPT ![report.matchId] = @ + 1]
                   ELSE simNonce
    /\ ApplyReport(report.markets)
    /\ UNCHANGED <<matchCount, marketCount, templateEnabled, simEnabled,
                   simAttestor, productionLocked, expectedWorkflow>>
=============================================================================
