---------------------------- MODULE AgentConsole ----------------------------
(***************************************************************************)
(* An operator's agent run from a browser page, and its memory             *)
(* (web/components/AgentConsole.tsx, web/lib/agent-memory.ts): opened from *)
(* the last save on chain, taught by the bets settled since, and saved     *)
(* again.  The operator may have a page open on each of several devices.   *)
(* A house agent's runner learns with the same function, and keeps its     *)
(* memory in process (packages/agents/src/runner.ts).                      *)
(***************************************************************************)
EXTENDS Indexer, Integers

CONSTANTS
    Consoles,           \* the operator's pages
    FilledSides,        \* bound: the sides fans take on its prices
    MaxSaves,           \* bound: saves on chain
    MaxMishaps          \* bound: failed calls and reloads

ASSUME ConsoleConstants == FilledSides \subseteq BetSides

VARIABLES
    console,    \* page |-> what it shows and where its save stands
    mishaps

consoleVars == <<console, mishaps>>

\* counted is what each session learned from; sessions and lessons say nothing
\* that counted and adj do not.
FreshMemory == [lastBetId |-> 0, counted |-> <<>>, adj |-> 0]

\* stored is what the indexer served, or None; next is a memory being saved.
Loading == [polling |-> TRUE, chainVersion |-> 0, stored |-> None,
            memory |-> None, running |-> FALSE, next |-> None]

ConsoleInit ==
    /\ console = [c \in Consoles |-> Loading]
    /\ mishaps = 0

Mishap == mishaps < MaxMishaps /\ mishaps' = mishaps + 1

-----------------------------------------------------------------------------
(* Learning *)

\* fetchSettledBets: every bet the indexer has as settled.
SettledBets == {id \in DOMAIN rows.bet : rows.bet[id].status \in Final}

\* The agent's side of a bet: what its fan lost or won.
AgentPnl(id) == CASE rows.bet[id].status = "Lost" -> Stake
                  [] rows.bet[id].status = "Won" -> Stake - Payout
                  [] OTHER -> 0

\* The margin moves only on a session of two bets or more: 100 up after a
\* loss, 25 down after a profit, between -100 and 500.
Adjusted(adj, fresh) ==
    LET pnl == FoldSet(LAMBDA id, sum : sum + AgentPnl(id), 0, fresh)
    IN  IF Cardinality(fresh) < 2 \/ pnl = 0 THEN adj
        ELSE IF pnl < 0 THEN Min({500, adj + 100}) ELSE Max({-100, adj - 25})

Learn_FromLast(memory) ==
    LET fresh == {id \in SettledBets : id >= memory.lastBetId}
    IN  IF fresh = {} THEN memory
        ELSE [lastBetId |-> Max(fresh),
              counted |-> Append(memory.counted, fresh),
              adj |-> Adjusted(memory.adj, fresh)]
Learn(memory) ==
    LET fresh == {id \in SettledBets : id > memory.lastBetId}
    IN  IF fresh = {} THEN memory
        ELSE [lastBetId |-> Max(fresh),
              counted |-> Append(memory.counted, fresh),
              adj |-> Adjusted(memory.adj, fresh)]

-----------------------------------------------------------------------------
(* The page *)

Version(stored) == IF stored = None THEN 0 ELSE stored.version
Syncing(c) == console[c].chainVersion > Version(console[c].stored)

\* fetchMemoryStatus: the saves the chain counts, the save the indexer has,
\* and whether that is the one the chain commits to (each is sealed anew, so
\* no two blobs are alike); asked until they agree.
Status(c) ==
    /\ console[c].polling
    /\ console' = [console EXCEPT
           ![c].chainVersion = Len(saves),
           ![c].stored = IF rows.memory = None THEN None
                         ELSE [version |-> rows.memory.version,
                               memory |-> rows.memory.memory,
                               commitOk |-> rows.memory.version = Len(saves)],
           ![c].polling = Len(saves) > Version(rows.memory)]
    /\ UNCHANGED <<mishaps, indexerVars>>

StatusFails(c) ==
    /\ console[c].polling
    /\ Mishap
    /\ console' = [console EXCEPT ![c].polling = FALSE]
    /\ UNCHANGED indexerVars

\* openMemory: what the page has open, or the sealed save, or a blank one.
Opened(c) == LET page == console[c]
             IN  IF page.memory # None THEN page.memory
                 ELSE IF page.stored = None THEN FreshMemory ELSE page.stored.memory

\* Reading another's save, or none yet, is refused.
CanOpen(c) ==
    \/ console[c].memory # None
    \/ ~Syncing(c) /\ (console[c].stored # None => console[c].stored.commitOk)

\* To look at it, or to run the agent with it.
Start(c) ==
    /\ ~console[c].running /\ console[c].next = None
    /\ CanOpen(c)
    /\ \E run \in BOOLEAN :
          console' = [console EXCEPT ![c].memory = Opened(c), ![c].running = run]
    /\ UNCHANGED <<mishaps, indexerVars>>

\* stopAndRemember: learned at once; with nothing new, nothing is saved.
Stop(c) ==
    /\ console[c].running
    /\ console' = [console EXCEPT
           ![c].running = FALSE,
           ![c].next = IF Learn(console[c].memory) = console[c].memory
                       THEN None ELSE Learn(console[c].memory)]
    /\ UNCHANGED <<mishaps, indexerVars>>

\* Sealed, sent and mined; the page counts the save on top of what it saw.
Save(c) ==
    LET next == console[c].next
        version == console[c].chainVersion + 1
    IN  /\ next # None
        /\ Len(saves) < MaxSaves
        /\ SaveMemory(next)
        /\ console' = [console EXCEPT
               ![c].memory = next, ![c].next = None, ![c].chainVersion = version,
               ![c].stored = [version |-> version, memory |-> next, commitOk |-> TRUE]]
        /\ UNCHANGED mishaps

\* The passkey is refused, the transaction fails, or is mined and its receipt lost.
SaveFails(c) ==
    LET next == console[c].next
    IN  /\ next # None
        /\ Mishap
        /\ \/ Len(saves) < MaxSaves /\ SaveMemory(next)
           \/ UNCHANGED indexerVars
        /\ console' = [console EXCEPT ![c].next = None]

Reopen(c) ==
    /\ console[c] # Loading
    /\ Mishap
    /\ console' = [console EXCEPT ![c] = Loading]
    /\ UNCHANGED indexerVars

\* Fans bet on the agent's prices while it runs.
Fill(m, s) ==
    /\ \E c \in Consoles : console[c].running
    /\ PlaceBet(m, s)
    /\ UNCHANGED consoleVars

ConsoleStep ==
    \/ \E c \in Consoles : \/ Status(c) \/ StatusFails(c) \/ Start(c) \/ Stop(c)
                           \/ Save(c) \/ SaveFails(c) \/ Reopen(c)
    \/ \E m \in Markets, s \in FilledSides : Fill(m, s)

-----------------------------------------------------------------------------

Memories ==
    {saves[v] : v \in DOMAIN saves}
        \cup {console[c].memory : c \in {d \in Consoles : console[d].memory # None}}

\* A bet is never counted twice in a memory ("lastBetId: ... so a bet is never
\* counted twice", agent-memory.ts), however pages, failed saves and a trailing
\* indexer follow one another: not in what is saved, nor in what is open.
NeverCountedTwice ==
    \A memory \in Memories :
        \A i, j \in DOMAIN memory.counted :
            i # j => memory.counted[i] \cap memory.counted[j] = {}
=============================================================================
