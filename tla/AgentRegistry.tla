--------------------------- MODULE AgentRegistry ---------------------------
(***************************************************************************)
(* Who may quote: contracts/src/AgentRegistry.sol.  An agent has an        *)
(* operator, one quote signer and an enabled flag; its vault is deployed   *)
(* with it and is the vault of the same id.  The strategy blob, its        *)
(* commitment and the metadata URI are bytes nobody on chain reads, so     *)
(* setStrategy and setMetadataURI change nothing here.                     *)
(***************************************************************************)
EXTENDS AgentVault

CONSTANTS
    Signers,        \* quote-signing keys
    Owner           \* the registry's owner

ASSUME RegistryConstants ==
    /\ Agents \subseteq Nat \ {0}
    /\ None \notin Signers

VARIABLES
    betRouterSet,       \* betRouter # address(0)
    agentCount,         \* _agentCount
    agents,             \* _agents
    agentIdOfSigner     \* reverse lookup, 0 when the signer is unused

registryVars == <<betRouterSet, agentCount, agents, agentIdOfSigner>>

Agent == [operator : Users \cup {None},
          quoteSigner : Signers \cup {None},
          enabled : BOOLEAN]

NoAgent == [operator |-> None, quoteSigner |-> None, enabled |-> FALSE]

RegistryTypeOK ==
    /\ betRouterSet \in BOOLEAN
    /\ agentCount \in Nat
    /\ agents \in [Agents -> Agent]
    /\ agentIdOfSigner \in [Signers -> Agents \cup {0}]

RegistryInit ==
    /\ betRouterSet = FALSE
    /\ agentCount = 0
    /\ agents = [a \in Agents |-> NoAgent]
    /\ agentIdOfSigner = [s \in Signers |-> 0]

-----------------------------------------------------------------------------
IsQuotable(a, signer) ==
    /\ agents[a].enabled
    /\ signer # None
    /\ agents[a].quoteSigner = signer

Exists(a) == agents[a].operator # None

SignerUnused(s) == agentIdOfSigner[s] = 0

-----------------------------------------------------------------------------
\* Write-once, by the owner.
SetBetRouter ==
    /\ ~betRouterSet
    /\ betRouterSet' = TRUE
    /\ UNCHANGED <<agentCount, agents, agentIdOfSigner>>

\* Deploys the vault; the caller becomes the operator of both, for good.
Register(caller, signer) ==
    LET a == agentCount + 1
    IN  /\ a \in Agents
        /\ SignerUnused(signer)
        /\ agentCount' = a
        /\ agents' = [agents EXCEPT ![a] = [operator |-> caller,
                                            quoteSigner |-> signer,
                                            enabled |-> TRUE]]
        /\ agentIdOfSigner' = [agentIdOfSigner EXCEPT ![signer] = a]
        /\ operator' = [operator EXCEPT ![a] = caller]
        /\ UNCHANGED betRouterSet

\* Rotation frees the old key and takes effect at once.
SetQuoteSigner_KeepsOldKey(a, caller, signer) ==
    /\ Exists(a)
    /\ caller = agents[a].operator
    /\ SignerUnused(signer)
    /\ agents' = [agents EXCEPT ![a].quoteSigner = signer]
    /\ agentIdOfSigner' = [agentIdOfSigner EXCEPT ![signer] = a]
    /\ UNCHANGED <<betRouterSet, agentCount>>
SetQuoteSigner(a, caller, signer) ==
    /\ Exists(a)
    /\ caller = agents[a].operator
    /\ SignerUnused(signer)
    /\ agents' = [agents EXCEPT ![a].quoteSigner = signer]
    /\ agentIdOfSigner' = [agentIdOfSigner EXCEPT ![agents[a].quoteSigner] = 0,
                                                  ![signer] = a]
    /\ UNCHANGED <<betRouterSet, agentCount>>

SetEnabled(a, caller, enabled) ==
    /\ Exists(a)
    /\ caller \in {agents[a].operator, Owner}
    /\ agents' = [agents EXCEPT ![a].enabled = enabled]
    /\ UNCHANGED <<betRouterSet, agentCount, agentIdOfSigner>>

-----------------------------------------------------------------------------
(* Properties *)

\* Keys and agents are matched one to one, both ways, over any sequence of
\* registrations and rotations: the reverse lookup never keeps a key its
\* agent has dropped, so a dropped key can be taken again, by anyone.
SignersIndexed ==
    \A a \in Agents, s \in Signers :
        agentIdOfSigner[s] = a <=> agents[a].quoteSigner = s
=============================================================================
