--------------------------- MODULE SessionProofs ---------------------------
(***************************************************************************)
(* Around one person the program keeps its word, however many markets,     *)
(* bets, pages, commands and requests there are: a memory counts no bet    *)
(* twice, a trader is told the truth and spends what was asked, an address *)
(* out of gas is topped up once, a price comes of a recent look at the     *)
(* match, and a fan's page shows no more than was paid. The sums are       *)
(* OddsMathProofs'.                                                        *)
(***************************************************************************)
EXTENDS Session, OddsMathProofs, FiniteSetTheorems, FunctionTheorems,
        SequenceTheorems

-----------------------------------------------------------------------------
(* What is known of the chain at second hand *)

BetStatuses == {"Open"} \cup Final
ChainBet == [market : Markets, side : BetSides, status : BetStatuses, claimed : BOOLEAN]

\* What no session of a memory learned from was learned from before, and the
\* next one starts after the last.
Memory ==
    {memory \in [lastBetId : Nat, counted : Seq(SUBSET Nat), adj : Int] :
        /\ \A i \in DOMAIN memory.counted :
              \A id \in memory.counted[i] : id <= memory.lastBetId
        /\ \A i, j \in DOMAIN memory.counted :
              i # j => memory.counted[i] \cap memory.counted[j] = {}}

Events(n) == [event : {"BetPlaced", "BetClaimed"}, id : 1..n]
                \cup [event : {"BetSettled"}, id : 1..n, status : Final]
                \cup [event : {"MemorySaved"}, version : Nat, memory : Memory]

\* The indexer has rows, and has yet to handle events, of bets on chain only;
\* and every memory it has or will have is one that was saved.
IndexInv ==
    /\ bets \in Seq(ChainBet)
    /\ saves \in Seq(Memory)
    /\ log \in Seq(Events(Len(bets)))
    /\ rows = [bet |-> rows.bet, memory |-> rows.memory]
    /\ rows.bet = [id \in DOMAIN rows.bet |-> rows.bet[id]]
    /\ DOMAIN rows.bet \subseteq DOMAIN bets
    /\ rows.memory \in {None} \cup [version : Nat, memory : Memory]

Page == [polling : BOOLEAN, chainVersion : Nat, running : BOOLEAN,
         stored : {None} \cup [version : Nat, memory : Memory, commitOk : BOOLEAN],
         memory : {None} \cup Memory, next : {None} \cup Memory]

\* The pages' memories count no bet twice either.
ConsoleInv ==
    /\ IndexInv /\ console \in [Consoles -> Page]
    /\ \A c \in Consoles : console[c].running => console[c].memory \in Memory

-----------------------------------------------------------------------------
(* A trader *)

Calls == {"approve", "placeBet", "claim", "faucet"}
Steps == {"none", "allowance", "price", "refresh", "owed", "estimate", "execute",
          "receipt", "over"}
Reports == {"done", "not_sent", "reverted", "awaiting_approval", "no_receipt",
            "nothing_to_collect"}

\* What command c has sent so far, and what became of it.
SentCall(c, call) == <<c, call>> \in DOMAIN tx
MinedCall(c, call) == SentCall(c, call) /\ tx[<<c, call>>] = "mined"

Command == [does : {None, "bet", "collect", "faucet"}, step : Steps,
            call : {None} \cup Calls, market : {None} \cup Markets,
            side : {None} \cup BetSides, fills : Nat, ids : SUBSET Nat,
            told : {None} \cup Reports]

TraderType ==
    /\ allowance \in Nat
    /\ group \in Seq(Commands)
    /\ command \in [Commands -> Command]
    /\ tx = [x \in DOMAIN tx |-> tx[x]]
    /\ DOMAIN tx \subseteq Commands \X Calls

\* A command sends the calls of its kind, each at most once, and a bet's after
\* its approval.
KindOf == [approve |-> "bet", placeBet |-> "bet", claim |-> "collect", faucet |-> "faucet"]
Sending(cmd, call) == cmd.step \in {"estimate", "execute", "receipt"} /\ cmd.call = call

InOrder(c, cmd) ==
    /\ cmd.does = None => cmd.step = "none"
    /\ cmd.does = "bet" => cmd.market \in Markets /\ cmd.side \in BetSides /\ cmd.fills > 0
    /\ cmd.step \in {"allowance", "price"} => cmd.does = "bet"
    /\ cmd.step \in {"refresh", "owed"} => cmd.does = "collect"
    /\ cmd.step \in {"none", "allowance", "refresh", "owed"} => \A k \in Calls : ~SentCall(c, k)
    /\ cmd.step = "price" \/ Sending(cmd, "approve") => ~SentCall(c, "placeBet")
    /\ cmd.step \in {"estimate", "execute", "receipt"} => cmd.call \in Calls
    /\ cmd.step \in {"estimate", "execute"} => ~SentCall(c, cmd.call)
    /\ cmd.step = "receipt" => SentCall(c, cmd.call)
    /\ \A k \in Calls : SentCall(c, k) \/ Sending(cmd, k) => cmd.does = KindOf[k]

\* What a command was told is what became of its calls, and a bet to collect
\* stays collectable until it is collected.
Collectable(id) == bets[id].claimed \/ Claimable(bets[id]) > 0

TruthKept(c, cmd) ==
    /\ Struck(c) <=> MinedCall(c, "placeBet")
    /\ cmd.step # "over" => cmd.told = None
    /\ cmd.does = "bet" /\ cmd.told = "done" => Struck(c)
    /\ cmd.does = "bet" /\ cmd.told \in {"not_sent", "reverted"} /\ SentCall(c, "placeBet") =>
           tx[<<c, "placeBet">>] = "reverted"
    /\ cmd.does = "collect" => cmd.ids \subseteq DOMAIN bets
    /\ SentCall(c, "claim") \/ Sending(cmd, "claim") => \A id \in cmd.ids : Collectable(id)
    /\ MinedCall(c, "claim") => \A id \in cmd.ids : bets[id].claimed
    /\ cmd.does = "collect" /\ cmd.told = "done" => MinedCall(c, "claim")

\* The router was allowed no more than the bets whose approval went through,
\* and each once.
AllowedFor(c) == IF MinedCall(c, "approve") THEN StakeOfBet(c) ELSE 0
SpendingCovered ==
    allowance + Stake * Len(group) <= SumTo([c \in Commands |-> AllowedFor(c)], MaxCommands)

TraderInv ==
    /\ IndexInv /\ TraderType
    /\ \A c \in Commands : InOrder(c, command[c]) /\ TruthKept(c, command[c])
    /\ SpendingCovered

-----------------------------------------------------------------------------
(* The sponsor *)

Request == [step : {"none", "asked", "check", "cover", "sent", "settling", "over"},
            address : {Nobody} \cup Addresses,
            purpose : {Nobody} \cup Purposes, amount : Nat, new : BOOLEAN]

\* A request is in flight for an address and purpose, and has MON on its way.
Underway(req, a, p) ==
    req.address = a /\ req.purpose = p /\ req.step \notin {"none", "over"}
Promised(req, a, p) ==
    IF req.address = a /\ req.purpose = p /\ req.step \in {"check", "cover", "sent"}
    THEN req.amount ELSE 0

\* With what is on its way to it, no address has more than a target of each
\* purpose: there is one request in flight for each, and it asks for what was
\* missing when it looked.
Both == Target["fan"] + Target["agent"]
GasInv ==
    /\ balance \in [Addresses -> Nat]
    /\ requests \in [Requests -> Request]
    /\ \A r \in Requests : requests[r].step \notin {"none", "over"} =>
           requests[r].address \in Addresses /\ requests[r].purpose \in Purposes
    /\ \A r, q \in Requests, a \in Addresses, p \in Purposes :
           Underway(requests[r], a, p) /\ Underway(requests[q], a, p) => r = q
    /\ \A r \in Requests, a \in Addresses, p \in Purposes :
           Promised(requests[r], a, p) <= Target[p]
    /\ \A a \in Addresses : balance[a] <= Both
    /\ \A r, q \in Requests, a \in Addresses :
           balance[a] + Promised(requests[r], a, "fan") + Promised(requests[q], a, "agent") <= Both

-----------------------------------------------------------------------------
(* The agent in its operator's page, and the match reader *)

Run == [key : BOOLEAN, running : BOOLEAN,
        step : {"over", "look", "budget", "post", "wait"},
        todo : SUBSET Nat, retired : SUBSET Nat, heated : SUBSET Nat]

\* A sweep has markets left to quote, all of them out of danger when it looked.
BrowserInv ==
    /\ stage \in Seq({"Open", "Suspended", "Closed"}) /\ hot \subseteq Nat
    /\ runs \in Seq(Run)
    /\ \A r \in DOMAIN runs :
           /\ runs[r].todo \subseteq DOMAIN stage
           /\ runs[r].todo \cap runs[r].heated = {}
           /\ runs[r].step \in {"budget", "post"} => runs[r].todo # {}
    /\ rash = {}

\* The multipliers InRange holds of, kept out of the provers' sight.
Fitting == 500..2000
Read == [multipliers : [MarketKinds -> Fitting], at : Nat]
Reader == [step : {"look", "ask", "publish", "wait"}, latest : {Nothing} \cup Read,
           lastClockSec : {Nothing} \cup Nat, lookedAt : Nat, endpoint : Nat, askedAt : Nat, readFrom : Nat,
           unpublished : Seq(Nat), wakesAt : Nat]

\* Each endpoint in turn has taken no more than its timeout since the look.
ReaderInv ==
    /\ second \in Nat
    /\ play \in {Nothing} \cup Nat
    /\ reader \in Reader
    /\ reader.step = "publish" => reader.unpublished # <<>>
    /\ reader.step = "ask" =>
           /\ reader.endpoint \in 1..Len(Endpoints)
           /\ reader.askedAt <= reader.lookedAt + (reader.endpoint - 1) * TimeoutSec
           /\ second <= reader.askedAt + TimeoutSec
    /\ reader.latest # Nothing =>
           reader.latest.at <= reader.readFrom + Len(Endpoints) * TimeoutSec

-----------------------------------------------------------------------------
(* All of it *)

\* What goes on is about one topic, and leaves the others as they began.
SessionInv ==
    /\ topic = "console" => ConsoleInv
    /\ topic # "console" => saves = <<>> /\ ConsoleInit
    /\ topic = "trader" => TraderInv
    /\ topic # "trader" => TraderInit
    /\ GasInv /\ BrowserInv /\ ReaderInv

-----------------------------------------------------------------------------
(* Numbers and sequences *)

\* A set of numbers below a bound has a largest.
LEMMA LargestExists ==
    ASSUME NEW n \in Nat, NEW S \in SUBSET Nat, S # {}, \A x \in S : x <= n
    PROVE  Max(S) \in S /\ \A x \in S : x <= Max(S)
<1>. DEFINE Good == {k \in 0..n : (\A x \in S : x <= k) => \E x \in S : \A y \in S : x >= y}
<1>1. Good \in SUBSET (0..n)
  OBVIOUS
<1>2. 0 \in Good
  <2>1. SUFFICES ASSUME \A x \in S : x <= 0 PROVE \E x \in S : \A y \in S : x >= y
    OBVIOUS
  <2>2. PICK x \in S : TRUE
    OBVIOUS
  <2>3. \A y \in S : y = 0
    BY <2>1
  <2>. QED  BY <2>2, <2>3
<1>3. ASSUME NEW k \in 0..n, k \in Good, k < n PROVE k + 1 \in Good
  <2>1. SUFFICES ASSUME \A x \in S : x <= k + 1 PROVE \E x \in S : \A y \in S : x >= y
    BY <1>3
  <2>2. CASE k + 1 \in S
    BY <2>1, <2>2
  <2>3. CASE k + 1 \notin S
    <3>1. \A x \in S : x <= k
      BY <2>1, <2>3
    <3>. QED  BY <1>3, <3>1
  <2>. QED  BY <2>2, <2>3
<1>. HIDE DEF Good
<1>4. Good = 0..n
  BY <1>1, <1>2, <1>3, SetInduction
<1>5. \E x \in S : \A y \in S : x >= y
  BY <1>4 DEF Good
<1>. QED  BY <1>5 DEF Max

\* A function on 1..n is a sequence.
LEMMA FunctionIsSeq ==
    ASSUME NEW S, NEW n \in Nat, NEW f \in [1..n -> S]
    PROVE  f \in Seq(S) /\ Len(f) = n
OBVIOUS

-----------------------------------------------------------------------------
(* The chain and its indexer *)

\* Of the bets on chain none goes away, a result stays as it is, one that is
\* claimed stays so, and one that can be collected can be until it is.
BetsAdvance ==
    /\ Len(bets) <= Len(bets')
    /\ \A id \in DOMAIN bets :
          /\ id \in DOMAIN bets' /\ bets'[id].market = bets[id].market
          /\ bets[id].status # "Open" => bets'[id].status = bets[id].status
          /\ bets[id].claimed => bets'[id].claimed
          /\ Claimable(bets[id]) > 0 => bets'[id].claimed \/ Claimable(bets'[id]) > 0

\* What is owed on a bet is a number.
LEMMA ClaimableType ==
    ASSUME NEW b \in ChainBet
    PROVE  /\ Claimable(b) \in Nat
           /\ Claimable(b) > 0 <=> ~b.claimed /\ b.status \in {"Won", "Voided"}
BY IndexerConstants DEF Claimable, Owed, ChainBet, BetStatuses, Final

\* A bet that is settled is a bet.
LEMMA ChangedBet ==
    ASSUME NEW b \in ChainBet, NEW status \in Final
    PROVE  /\ [b EXCEPT !.status = status] \in ChainBet
           /\ [b EXCEPT !.status = status].claimed = b.claimed
           /\ [b EXCEPT !.status = status].market = b.market
BY DEF ChainBet, BetStatuses

\* Events of the bets there were are events of the bets there are.
LEMMA MoreEvents ==
    ASSUME NEW n \in Nat, NEW k \in Nat, n <= k
    PROVE  Events(n) \subseteq Events(k)
BY DEF Events

\* placeBet, of any number of fills.
LEMMA PlaceFillsKeeps ==
    ASSUME IndexInv, NEW m \in Markets, NEW s \in BetSides, NEW n \in Nat, PlaceFills(m, s, n)
    PROVE  IndexInv' /\ BetsAdvance /\ Len(bets') = Len(bets) + n
<1>. DEFINE more == [i \in 1..n |-> Placed(m, s)]
            events == [i \in 1..n |-> [event |-> "BetPlaced", id |-> Len(bets) + i]]
<1>1. Placed(m, s) \in ChainBet
  BY DEF Placed, ChainBet, BetStatuses
<1>2. more \in Seq(ChainBet) /\ Len(more) = n
  BY <1>1, FunctionIsSeq
<1>3. bets \in Seq(ChainBet) /\ log \in Seq(Events(Len(bets))) /\ Len(bets) \in Nat
  BY DEF IndexInv
<1>4. Len(bets) + n \in Nat /\ Len(bets) <= Len(bets) + n
  BY <1>3
<1>5. events \in Seq(Events(Len(bets) + n))
  <2>1. \A i \in 1..n : Len(bets) + i \in 1..(Len(bets) + n)
    BY <1>3
  <2>2. \A i \in 1..n : [event |-> "BetPlaced", id |-> Len(bets) + i] \in Events(Len(bets) + n)
    BY <2>1 DEF Events
  <2>3. events \in [1..n -> Events(Len(bets) + n)]
    BY <2>2
  <2>. QED  BY <2>3, FunctionIsSeq
<1>6. log \in Seq(Events(Len(bets) + n))
  BY <1>3, <1>4, MoreEvents, SeqMonotonic
<1>7. bets' = bets \o more /\ log' = log \o events /\ UNCHANGED <<saves, rows>>
  BY DEF PlaceFills
<1>. HIDE DEF more, events
<1>8. /\ bets' \in Seq(ChainBet) /\ Len(bets') = Len(bets) + n
      /\ \A i \in 1..Len(bets) : bets'[i] = bets[i]
  <2>1. /\ bets \o more \in Seq(ChainBet) /\ Len(bets \o more) = Len(bets) + n
        /\ \A i \in 1..(Len(bets) + n) :
              (bets \o more)[i] = IF i <= Len(bets) THEN bets[i] ELSE more[i - Len(bets)]
    BY <1>2, <1>3, ConcatProperties
  <2>2. \A i \in 1..Len(bets) : i \in 1..(Len(bets) + n) /\ i <= Len(bets)
    BY <1>3
  <2>. QED  BY <1>7, <2>1, <2>2
<1>9. log' \in Seq(Events(Len(bets')))
  BY <1>5, <1>6, <1>7, <1>8, ConcatProperties
<1>10. DOMAIN bets = 1..Len(bets) /\ DOMAIN bets' = 1..Len(bets')
  BY <1>3, <1>8
<1>11. IndexInv'
  BY <1>7, <1>8, <1>9, <1>10 DEF IndexInv
<1>. QED  BY <1>4, <1>8, <1>10, <1>11 DEF BetsAdvance

\* A market resolves.
LEMMA ResolveKeeps ==
    ASSUME IndexInv, NEW m \in Markets, NEW result, ResolveMarket(m, result)
    PROVE  IndexInv' /\ BetsAdvance
BY DEF ResolveMarket, IndexInv, BetsAdvance

\* settleBatch.
LEMMA SettleKeeps ==
    ASSUME IndexInv, NEW id \in DOMAIN bets, SettleBet(id)
    PROVE  IndexInv' /\ BetsAdvance
<1>. DEFINE event == [event |-> "BetSettled", id |-> id, status |-> StatusOf(id)]
<1>1. bets \in Seq(ChainBet) /\ log \in Seq(Events(Len(bets))) /\ DOMAIN bets = 1..Len(bets)
      /\ Len(bets) \in Nat
  BY DEF IndexInv
<1>2. StatusOf(id) \in Final
  BY DEF StatusOf, Final
<1>3. event \in Events(Len(bets))
  BY <1>1, <1>2 DEF Events
<1>4. /\ bets' = [bets EXCEPT ![id].status = StatusOf(id)]
      /\ bets[id].status = "Open" /\ log' = Append(log, event)
      /\ UNCHANGED <<saves, rows>>
  BY DEF SettleBet, Logged
<1>5. /\ bets[id] \in ChainBet /\ [bets[id] EXCEPT !.status = StatusOf(id)] \in ChainBet
      /\ [bets[id] EXCEPT !.status = StatusOf(id)].claimed = bets[id].claimed
      /\ [bets[id] EXCEPT !.status = StatusOf(id)].market = bets[id].market
  <2>1. bets[id] \in ChainBet
    BY <1>1
  <2>. QED  BY <1>2, <2>1, ChangedBet
<1>6. /\ bets' \in Seq(ChainBet) /\ Len(bets') = Len(bets)
      /\ \A i \in DOMAIN bets : i # id => bets'[i] = bets[i]
      /\ bets'[id] = [bets[id] EXCEPT !.status = StatusOf(id)]
  BY <1>1, <1>4, <1>5, ExceptSeq
<1>7. DOMAIN bets' = DOMAIN bets
  BY <1>1, <1>6
<1>. HIDE DEF event
<1>8. IndexInv'
  BY <1>1, <1>3, <1>4, <1>6, <1>7 DEF IndexInv
<1>9. /\ ~(Claimable(bets[id]) > 0) /\ bets'[id].claimed = bets[id].claimed
      /\ bets'[id].market = bets[id].market
  BY <1>4, <1>5, <1>6, ClaimableType
<1>10. \A i \in DOMAIN bets :
          /\ bets'[i].market = bets[i].market
          /\ bets[i].status # "Open" => bets'[i].status = bets[i].status
          /\ bets[i].claimed => bets'[i].claimed
          /\ Claimable(bets[i]) > 0 => Claimable(bets'[i]) > 0
  BY <1>4, <1>6, <1>9
<1>11. BetsAdvance
  BY <1>1, <1>6, <1>7, <1>10 DEF BetsAdvance
<1>. QED  BY <1>8, <1>11

\* claim: what was due of the bets asked for is claimed, and nothing else changes.
LEMMA ClaimKeeps ==
    ASSUME IndexInv, NEW ids, ids \subseteq DOMAIN bets, ClaimBets(ids)
    PROVE  /\ IndexInv' /\ BetsAdvance
           /\ \A id \in ids : Collectable(id) => bets'[id].claimed
<1>. DEFINE due == {id \in ids : Claimable(bets[id]) > 0}
<1>1. bets \in Seq(ChainBet) /\ log \in Seq(Events(Len(bets))) /\ DOMAIN bets = 1..Len(bets)
      /\ Len(bets) \in Nat
  BY DEF IndexInv
<1>2. PICK order \in SetToSeqs(due) :
         log' = log \o [i \in DOMAIN order |-> [event |-> "BetClaimed", id |-> order[i]]]
  BY DEF ClaimBets
<1>3. bets' = [id \in DOMAIN bets |-> [bets[id] EXCEPT !.claimed = @ \/ id \in due]]
      /\ UNCHANGED <<saves, rows>>
  BY DEF ClaimBets
<1>4. due \subseteq 1..Len(bets) /\ IsFiniteSet(due) /\ Cardinality(due) \in Nat
  <2>1. due \subseteq 1..Len(bets)
    BY <1>1
  <2>. HIDE DEF due
  <2>2. IsFiniteSet(1..Len(bets))
    BY <1>1, FS_Interval
  <2>3. IsFiniteSet(due)
    BY <2>1, <2>2, FS_Subset
  <2>. QED  BY <2>1, <2>3, FS_CardinalityType
<1>. HIDE DEF due
<1>. DEFINE events == [i \in DOMAIN order |-> [event |-> "BetClaimed", id |-> order[i]]]
<1>5. order \in [1..Cardinality(due) -> due]
  BY <1>2 DEF SetToSeqs
<1>6. events \in Seq(Events(Len(bets)))
  <2>1. \A i \in 1..Cardinality(due) :
           [event |-> "BetClaimed", id |-> order[i]] \in Events(Len(bets))
    BY <1>4, <1>5 DEF Events
  <2>2. events \in [1..Cardinality(due) -> Events(Len(bets))]
    BY <1>5, <2>1
  <2>. QED  BY <1>4, <2>2, FunctionIsSeq
<1>7. \A id \in DOMAIN bets :
         /\ bets[id] \in ChainBet /\ bets'[id] \in ChainBet
         /\ bets'[id].status = bets[id].status /\ bets'[id].market = bets[id].market
         /\ bets'[id].claimed = (bets[id].claimed \/ id \in due)
  <2>. SUFFICES ASSUME NEW id \in DOMAIN bets
                PROVE  /\ bets[id] \in ChainBet /\ bets'[id] \in ChainBet
                       /\ bets'[id].status = bets[id].status
                       /\ bets'[id].market = bets[id].market
                       /\ bets'[id].claimed = (bets[id].claimed \/ id \in due)
    OBVIOUS
  <2>1. bets[id] \in ChainBet
    BY <1>1
  <2>2. bets'[id] = [bets[id] EXCEPT !.claimed = bets[id].claimed \/ id \in due]
    BY <1>3
  <2>3. CASE bets[id].claimed \/ id \in due
    <3>1. bets'[id] = [bets[id] EXCEPT !.claimed = TRUE]
      BY <2>2, <2>3
    <3>. QED  BY <2>1, <2>3, <3>1 DEF ChainBet
  <2>4. CASE ~(bets[id].claimed \/ id \in due)
    <3>1. bets'[id] = [bets[id] EXCEPT !.claimed = FALSE]
      BY <2>2, <2>4
    <3>. QED  BY <2>1, <2>4, <3>1 DEF ChainBet
  <2>. QED  BY <2>3, <2>4
<1>8. bets' \in Seq(ChainBet) /\ Len(bets') = Len(bets) /\ DOMAIN bets' = DOMAIN bets
  <2>1. bets' \in [1..Len(bets) -> ChainBet]
    BY <1>1, <1>3, <1>7
  <2>. QED  BY <1>1, <2>1, FunctionIsSeq
<1>9. log' \in Seq(Events(Len(bets')))
  <2>. HIDE DEF events
  <2>1. log \o events \in Seq(Events(Len(bets)))
    BY <1>1, <1>6, ConcatProperties
  <2>. QED  BY <1>2, <1>8, <2>1 DEF events
<1>10. IndexInv'
  BY <1>3, <1>8, <1>9 DEF IndexInv
<1>11. \A id \in DOMAIN bets :
         Claimable(bets[id]) > 0 => bets'[id].claimed \/ Claimable(bets'[id]) > 0
  BY <1>7, ClaimableType
<1>12. BetsAdvance
  <2>1. \A id \in DOMAIN bets :
           /\ bets'[id].market = bets[id].market /\ bets'[id].status = bets[id].status
           /\ bets[id].claimed => bets'[id].claimed
    BY <1>7
  <2>2. Len(bets) <= Len(bets')
    BY <1>1, <1>8
  <2>. QED  BY <1>8, <1>11, <2>1, <2>2 DEF BetsAdvance
<1>13. \A id \in ids : Collectable(id) => bets'[id].claimed
  BY <1>7 DEF due, Collectable
<1>. QED  BY <1>10, <1>12, <1>13

\* recordMemory: one more memory is saved, and no bet changes.
LEMMA SaveKeeps ==
    ASSUME IndexInv, NEW memory \in Memory, SaveMemory(memory)
    PROVE  IndexInv'
<1>. DEFINE event == [event |-> "MemorySaved", version |-> Len(saves) + 1, memory |-> memory]
<1>1. /\ saves \in Seq(Memory) /\ log \in Seq(Events(Len(bets))) /\ Len(saves) \in Nat
  BY DEF IndexInv
<1>2. event \in Events(Len(bets))
  BY <1>1 DEF Events
<1>3. /\ saves' = Append(saves, memory) /\ log' = Append(log, event)
      /\ UNCHANGED <<bets, rows>>
  BY DEF SaveMemory, Logged
<1>. HIDE DEF event
<1>4. saves' \in Seq(Memory) /\ log' \in Seq(Events(Len(bets')))
  BY <1>1, <1>2, <1>3
<1>. QED  BY <1>3, <1>4 DEF IndexInv

\* The indexer handles one event: a row of a bet on chain, or a memory saved.
LEMMA IndexKeeps ==
    ASSUME IndexInv, Index
    PROVE  IndexInv' /\ UNCHANGED chainVars
<1>. DEFINE e == Head(log)
<1>1. log \in Seq(Events(Len(bets))) /\ log # <<>> /\ log' = Tail(log)
      /\ rows' = Handled(rows, e) /\ UNCHANGED chainVars
  BY DEF IndexInv, Index
<1>2. e \in Events(Len(bets)) /\ log' \in Seq(Events(Len(bets)))
  BY <1>1, HeadTailProperties
<1>3. /\ rows = [bet |-> rows.bet, memory |-> rows.memory]
      /\ rows.bet = [id \in DOMAIN rows.bet |-> rows.bet[id]]
      /\ DOMAIN rows.bet \subseteq DOMAIN bets /\ DOMAIN bets = 1..Len(bets)
      /\ rows.memory \in {None} \cup [version : Nat, memory : Memory]
  BY DEF IndexInv
<1>. HIDE DEF e
<1>. DEFINE Kept(r) == /\ r = [bet |-> r.bet, memory |-> r.memory]
                       /\ r.bet = [id \in DOMAIN r.bet |-> r.bet[id]]
                       /\ DOMAIN r.bet \subseteq DOMAIN bets
                       /\ r.memory \in {None} \cup [version : Nat, memory : Memory]
<1>. SUFFICES Kept(rows')
  BY <1>1, <1>2 DEF IndexInv, chainVars
<1>4. CASE e.event = "BetPlaced"
  <2>1. e.id \in DOMAIN bets
    BY <1>2, <1>3, <1>4 DEF Events
  <2>. DEFINE bet == Put(rows.bet, e.id, [status |-> "Open", claimed |-> FALSE])
  <2>2. bet = [id \in DOMAIN bet |-> bet[id]] /\ DOMAIN bet \subseteq DOMAIN bets
    BY <1>3, <2>1 DEF Put
  <2>. HIDE DEF bet
  <2>3. rows' = [bet |-> bet, memory |-> rows.memory]
    BY <1>1, <1>3, <1>4 DEF Handled, bet
  <2>. QED  BY <1>3, <2>2, <2>3
<1>5. CASE e.event = "MemorySaved"
  <2>1. [version |-> e.version, memory |-> e.memory] \in [version : Nat, memory : Memory]
    BY <1>2, <1>5 DEF Events
  <2>2. rows' = [bet |-> rows.bet, memory |-> [version |-> e.version, memory |-> e.memory]]
    BY <1>1, <1>3, <1>5 DEF Handled
  <2>. QED  BY <1>3, <2>1, <2>2
<1>6. CASE e.event \notin {"BetPlaced", "MemorySaved"}
  <2>. DEFINE Changed(bet) == /\ bet = [id \in DOMAIN bet |-> bet[id]]
                              /\ DOMAIN bet \subseteq DOMAIN bets
  <2>1. \/ rows' = rows
        \/ \E bet : Changed(bet) /\ rows' = [bet |-> bet, memory |-> rows.memory]
    <3>1. CASE e.event = "BetSettled" /\ e.id \in DOMAIN rows.bet
      <4>. DEFINE bet == [rows.bet EXCEPT ![e.id].status = e.status]
      <4>1. Changed(bet)
        BY <1>3
      <4>2. rows' = [rows EXCEPT !.bet = bet]
        BY <1>1, <1>3, <3>1 DEF Handled
      <4>. HIDE DEF bet
      <4>. QED  BY <1>3, <4>1, <4>2
    <3>2. CASE ~(e.event = "BetSettled" /\ e.id \in DOMAIN rows.bet)
               /\ e.event = "BetClaimed" /\ e.id \in DOMAIN rows.bet
      <4>. DEFINE bet == [rows.bet EXCEPT ![e.id].claimed = TRUE]
      <4>1. Changed(bet)
        BY <1>3
      <4>2. rows' = [rows EXCEPT !.bet = bet]
        BY <1>1, <1>3, <3>2 DEF Handled
      <4>. HIDE DEF bet
      <4>. QED  BY <1>3, <4>1, <4>2
    <3>3. CASE ~(e.event \in {"BetSettled", "BetClaimed"} /\ e.id \in DOMAIN rows.bet)
      BY <1>1, <1>6, <3>3 DEF Handled
    <3>. QED  BY <1>6, <3>1, <3>2, <3>3
  <2>. QED  BY <1>3, <2>1
<1>. QED  BY <1>4, <1>5, <1>6

-----------------------------------------------------------------------------
(* Memories *)

\* The larger, and the smaller, of two numbers is a number.
LEMMA OfTwo ==
    ASSUME NEW a \in Int, NEW b \in Int
    PROVE  Max({a, b}) \in Int /\ Min({a, b}) \in Int
<1>1. (\E x \in {a, b} : \A y \in {a, b} : x >= y) /\ (\E x \in {a, b} : \A y \in {a, b} : x <= y)
  OBVIOUS
<1>. QED  BY <1>1 DEF Max, Min

\* A blank memory counts no bet twice.
LEMMA FreshIsMemory == FreshMemory \in Memory
BY DEF FreshMemory, Memory

\* learn: what it adds is above all it learned from before.
LEMMA LearnKeeps ==
    ASSUME IndexInv, NEW memory \in Memory
    PROVE  Learn(memory) \in Memory
<1>. DEFINE news == {id \in SettledBets : id > memory.lastBetId}
            counted == Append(memory.counted, news)
            adj == Adjusted(memory.adj, news)
<1>1. /\ memory.lastBetId \in Nat /\ memory.counted \in Seq(SUBSET Nat) /\ memory.adj \in Int
      /\ \A i \in DOMAIN memory.counted :
            \A id \in memory.counted[i] : id <= memory.lastBetId
      /\ \A i, j \in DOMAIN memory.counted :
            i # j => memory.counted[i] \cap memory.counted[j] = {}
  BY DEF Memory
<1>2. CASE news = {}
  BY <1>2 DEF Learn
<1>3. CASE news # {}
  <2>1. news \in SUBSET Nat /\ Len(bets) \in Nat /\ \A id \in news : id <= Len(bets)
    <3>1. DOMAIN rows.bet \subseteq 1..Len(bets) /\ Len(bets) \in Nat
      BY DEF IndexInv
    <3>. QED  BY <3>1 DEF SettledBets
  <2>2. \A id \in news : id > memory.lastBetId
    OBVIOUS
  <2>. HIDE DEF news
  <2>3. Max(news) \in news /\ \A id \in news : id <= Max(news)
    BY <1>3, <2>1, LargestExists
  <2>4. Max(news) \in Nat /\ Max(news) > memory.lastBetId
    BY <2>1, <2>2, <2>3
  <2>5. /\ counted \in Seq(SUBSET Nat) /\ Len(counted) = Len(memory.counted) + 1
        /\ \A i \in 1..Len(memory.counted) : counted[i] = memory.counted[i]
        /\ counted[Len(memory.counted) + 1] = news
        /\ Len(memory.counted) \in Nat
    BY <1>1, <2>1
  <2>6. DOMAIN memory.counted = 1..Len(memory.counted)
        /\ DOMAIN counted = 1..(Len(memory.counted) + 1)
    BY <1>1, <2>5
  <2>. HIDE DEF counted
  <2>7. \A i \in DOMAIN counted :
           \/ i \in DOMAIN memory.counted /\ counted[i] = memory.counted[i]
           \/ i = Len(memory.counted) + 1 /\ counted[i] = news
    BY <2>5, <2>6
  <2>8. \A i \in DOMAIN counted : \A id \in counted[i] : id <= Max(news)
    <3>1. ASSUME NEW i \in DOMAIN memory.counted, NEW id \in memory.counted[i]
          PROVE  id <= Max(news)
      <4>1. id \in Nat /\ id <= memory.lastBetId
        BY <1>1
      <4>. QED  BY <1>1, <2>4, <4>1
    <3>. QED  BY <2>3, <2>7, <3>1
  <2>9. \A i, j \in DOMAIN counted : i # j => counted[i] \cap counted[j] = {}
    <3>1. ASSUME NEW i \in DOMAIN memory.counted
          PROVE  memory.counted[i] \cap news = {}
      <4>1. \A id \in memory.counted[i] : id \in Nat /\ id <= memory.lastBetId
        BY <1>1
      <4>. QED  BY <1>1, <2>1, <2>2, <4>1
    <3>. QED  BY <1>1, <2>7, <3>1
  <2>10. adj \in Int
    <3>. DEFINE least == -100
    <3>1. least \in Int /\ 500 \in Int /\ memory.adj - 25 \in Int /\ memory.adj + 100 \in Int
      BY <1>1
    <3>. HIDE DEF least
    <3>2. Max({least, memory.adj - 25}) \in Int
      BY <3>1, OfTwo
    <3>3. Min({500, memory.adj + 100}) \in Int
      BY <3>1, OfTwo, ZenonT(30)
    <3>. QED  BY <1>1, <3>2, <3>3 DEF Adjusted, least
  <2>11. Learn(memory) = [lastBetId |-> Max(news), counted |-> counted, adj |-> adj]
    BY <1>3 DEF Learn, news, counted
  <2>. HIDE DEF adj
  <2>12. [lastBetId |-> Max(news), counted |-> counted, adj |-> adj]
            \in [lastBetId : Nat, counted : Seq(SUBSET Nat), adj : Int]
    BY <2>4, <2>5, <2>10
  <2>. QED  BY <2>8, <2>9, <2>11, <2>12 DEF Memory
<1>. QED  BY <1>2, <1>3

-----------------------------------------------------------------------------
(* The operator's pages *)

\* What a page has open, or opens, is a memory.
LEMMA OpenedIsMemory ==
    ASSUME ConsoleInv, NEW c \in Consoles
    PROVE  Opened(c) \in Memory
<1>1. console[c] \in Page
  BY DEF ConsoleInv
<1>2. CASE console[c].memory # None
  BY <1>1, <1>2 DEF Opened, Page
<1>3. CASE console[c].memory = None /\ console[c].stored = None
  BY <1>3, FreshIsMemory DEF Opened
<1>4. CASE console[c].memory = None /\ console[c].stored # None
  <2>1. console[c].stored \in [version : Nat, memory : Memory, commitOk : BOOLEAN]
    BY <1>1, <1>4 DEF Page
  <2>. QED  BY <1>4, <2>1 DEF Opened
<1>. QED  BY <1>2, <1>3, <1>4

\* One step of a page, or of the fans that bet on its agent's prices.
LEMMA ConsoleStepKeeps ==
    ASSUME ConsoleInv, ConsoleStep
    PROVE  ConsoleInv'
<1>1. /\ IndexInv /\ console \in [Consoles -> Page]
      /\ \A c \in Consoles : console[c].running => console[c].memory \in Memory
  BY DEF ConsoleInv
<1>3. ASSUME NEW c \in Consoles, NEW page \in Page, console' = [console EXCEPT ![c] = page],
             page.running => page.memory \in Memory, IndexInv'
      PROVE  ConsoleInv'
  BY <1>1, <1>3 DEF ConsoleInv
<1>4. UNCHANGED indexerVars => IndexInv'
  BY <1>1 DEF IndexInv, indexerVars
<1>5. ASSUME NEW c \in Consoles, Status(c) PROVE ConsoleInv'
  <2>. DEFINE stored == IF rows.memory = None THEN None
                        ELSE [version |-> rows.memory.version, memory |-> rows.memory.memory,
                              commitOk |-> rows.memory.version = Len(saves)]
              page == [console[c] EXCEPT !.chainVersion = Len(saves), !.stored = stored,
                                         !.polling = Len(saves) > Version(rows.memory)]
  <2>1. stored \in {None} \cup [version : Nat, memory : Memory, commitOk : BOOLEAN]
    BY <1>1 DEF IndexInv
  <2>2. Len(saves) \in Nat /\ (Len(saves) > Version(rows.memory)) \in BOOLEAN
    BY <1>1 DEF IndexInv
  <2>3. console' = [console EXCEPT ![c] = page] /\ UNCHANGED indexerVars
    BY <1>1, <1>5 DEF Status
  <2>. HIDE DEF stored
  <2>4. page \in Page /\ (page.running => page.memory \in Memory)
    BY <1>1, <2>1, <2>2 DEF Page
  <2>. QED  BY <1>3, <1>4, <2>3, <2>4
<1>6. ASSUME NEW c \in Consoles, StatusFails(c) PROVE ConsoleInv'
  <2>. DEFINE page == [console[c] EXCEPT !.polling = FALSE]
  <2>1. page \in Page /\ (page.running => page.memory \in Memory)
    BY <1>1 DEF Page
  <2>. QED  BY <1>1, <1>3, <1>4, <1>6, <2>1 DEF StatusFails
<1>7. ASSUME NEW c \in Consoles, Start(c) PROVE ConsoleInv'
  <2>1. PICK run \in BOOLEAN :
           console' = [console EXCEPT ![c].memory = Opened(c), ![c].running = run]
    BY <1>7 DEF Start
  <2>. DEFINE page == [console[c] EXCEPT !.memory = Opened(c), !.running = run]
  <2>2. page \in Page /\ (page.running => page.memory \in Memory)
    BY <1>1, OpenedIsMemory DEF Page
  <2>3. console' = [console EXCEPT ![c] = page] /\ UNCHANGED indexerVars
    BY <1>1, <1>7, <2>1 DEF Start
  <2>. QED  BY <1>3, <1>4, <2>2, <2>3
<1>8. ASSUME NEW c \in Consoles, Stop(c) PROVE ConsoleInv'
  <2>. DEFINE next == IF Learn(console[c].memory) = console[c].memory
                      THEN None ELSE Learn(console[c].memory)
              page == [console[c] EXCEPT !.running = FALSE, !.next = next]
  <2>1. next \in {None} \cup Memory
    BY <1>1, <1>8, LearnKeeps DEF Stop
  <2>2. console' = [console EXCEPT ![c] = page] /\ UNCHANGED indexerVars
    BY <1>1, <1>8 DEF Stop
  <2>. HIDE DEF next
  <2>3. page \in Page /\ (page.running => page.memory \in Memory)
    BY <1>1, <2>1 DEF Page
  <2>. QED  BY <1>3, <1>4, <2>2, <2>3
<1>9. ASSUME NEW c \in Consoles, Save(c) PROVE ConsoleInv'
  <2>. DEFINE next == console[c].next
              version == console[c].chainVersion + 1
              page == [console[c] EXCEPT
                         !.memory = next, !.next = None, !.chainVersion = version,
                         !.stored = [version |-> version, memory |-> next, commitOk |-> TRUE]]
  <2>1. next \in Memory /\ version \in Nat
    BY <1>1, <1>9 DEF Save, Page
  <2>2. IndexInv'
    BY <1>1, <1>9, <2>1, SaveKeeps DEF Save
  <2>3. console' = [console EXCEPT ![c] = page]
    BY <1>1, <1>9 DEF Save
  <2>. HIDE DEF next, version
  <2>4. page \in Page /\ (page.running => page.memory \in Memory)
    BY <1>1, <2>1 DEF Page
  <2>. QED  BY <1>3, <2>2, <2>3, <2>4
<1>10. ASSUME NEW c \in Consoles, SaveFails(c) PROVE ConsoleInv'
  <2>. DEFINE page == [console[c] EXCEPT !.next = None]
  <2>1. console[c].next \in Memory
    BY <1>1, <1>10 DEF SaveFails, Page
  <2>2. IndexInv'
    BY <1>1, <1>4, <1>10, <2>1, SaveKeeps DEF SaveFails
  <2>3. /\ page \in Page /\ (page.running => page.memory \in Memory)
        /\ console' = [console EXCEPT ![c] = page]
    BY <1>1, <1>10 DEF SaveFails, Page
  <2>. QED  BY <1>3, <2>2, <2>3
<1>11. ASSUME NEW c \in Consoles, Reopen(c) PROVE ConsoleInv'
  <2>1. Loading \in Page /\ ~Loading.running
    BY DEF Loading, Page
  <2>. QED  BY <1>3, <1>4, <1>11, <2>1 DEF Reopen
<1>12. ASSUME NEW m \in Markets, NEW s \in FilledSides, Fill(m, s) PROVE ConsoleInv'
  <2>1. s \in BetSides
    BY ConsoleConstants
  <2>2. IndexInv'
    BY <1>1, <1>12, <2>1, PlaceFillsKeeps DEF Fill, PlaceBet
  <2>. QED  BY <1>1, <1>12, <2>2 DEF Fill, ConsoleInv, consoleVars
<1>. QED  BY <1>5, <1>6, <1>7, <1>8, <1>9, <1>10, <1>11, <1>12 DEF ConsoleStep

\* Memories of the operator's pages, and those saved, count no bet twice.
LEMMA ConsoleCountsOnce == ConsoleInv => NeverCountedTwice
<1>. SUFFICES ASSUME ConsoleInv, NEW memory \in Memories
              PROVE  memory \in Memory
  BY DEF NeverCountedTwice, Memory
<1>1. saves \in Seq(Memory) /\ console \in [Consoles -> Page]
  BY DEF ConsoleInv, IndexInv
<1>2. \A c \in Consoles : console[c].memory # None => console[c].memory \in Memory
  BY <1>1 DEF Page
<1>3. \A v \in DOMAIN saves : saves[v] \in Memory
  BY <1>1
<1>. QED  BY <1>2, <1>3 DEF Memories

-----------------------------------------------------------------------------
(* A trader's commands *)

\* Nothing a command has to keep true depends on more than what it sent, the
\* bets it struck and the bets there are.
LEMMA SameForCommand ==
    ASSUME NEW c, NEW cmd, UNCHANGED <<bets, group, tx>>
    PROVE  /\ InOrder(c, cmd) => InOrder(c, cmd)'
           /\ TruthKept(c, cmd) => TruthKept(c, cmd)'
BY DEF InOrder, TruthKept, SentCall, MinedCall, Struck, Collectable

\* A command that moves on, and sends and strikes nothing.
LEMMA CommandMoves ==
    ASSUME TraderInv, NEW c \in Commands, NEW cmd \in Command,
           command' = [command EXCEPT ![c] = cmd],
           UNCHANGED <<allowance, group, tx, indexerVars>>,
           MinedCall(c, "approve") => cmd.fills = command[c].fills,
           InOrder(c, cmd), TruthKept(c, cmd)
    PROVE  TraderInv'
<1>1. IndexInv'
  BY DEF TraderInv, IndexInv, indexerVars
<1>2. TraderType'
  BY DEF TraderInv, TraderType
<1>3. ASSUME NEW d \in Commands
      PROVE  InOrder(d, command[d])' /\ TruthKept(d, command[d])'
  <2>1. InOrder(d, command'[d]) /\ TruthKept(d, command'[d])
    BY DEF TraderInv, TraderType
  <2>. QED  BY <2>1, SameForCommand DEF indexerVars
<1>4. SpendingCovered'
  <2>1. \A d \in Commands : AllowedFor(d)' = AllowedFor(d)
    BY DEF AllowedFor, MinedCall, SentCall, StakeOfBet, TraderInv, TraderType
  <2>2. [d \in Commands |-> AllowedFor(d)]' = [d \in Commands |-> AllowedFor(d)]
    BY <2>1
  <2>. QED  BY <2>2 DEF SpendingCovered, TraderInv
<1>. QED  BY <1>1, <1>2, <1>3, <1>4 DEF TraderInv

\* What TraderInv says of one command.
LEMMA OfCommand ==
    ASSUME TraderInv, NEW c \in Commands
    PROVE  /\ command[c] \in Command /\ command \in [Commands -> Command]
           /\ InOrder(c, command[c]) /\ TruthKept(c, command[c])
           /\ IndexInv
BY DEF TraderInv, TraderType

\* A command, by its fields.
Made(does, step, call, market, side, fills, ids, told) ==
    [does |-> does, step |-> step, call |-> call, market |-> market,
     side |-> side, fills |-> fills, ids |-> ids, told |-> told]

\* A command begins: nothing has been sent for it.
LEMMA BeginKeeps ==
    ASSUME TraderInv, NEW c \in Commands
    PROVE  /\ \A m \in Markets, s \in BetSides, n \in Splits : BeginBet(c, m, s, n) => TraderInv'
           /\ BeginCollect(c) => TraderInv'
           /\ BeginFaucet(c) => TraderInv'
<1>1. /\ command[c] \in Command /\ command \in [Commands -> Command]
      /\ InOrder(c, command[c]) /\ TruthKept(c, command[c])
  BY OfCommand
<1>2. DOMAIN rows.bet \subseteq DOMAIN bets /\ DOMAIN bets \subseteq Nat
  <2>1. DOMAIN rows.bet \subseteq DOMAIN bets /\ bets \in Seq(ChainBet)
    BY OfCommand DEF IndexInv
  <2>2. DOMAIN bets = 1..Len(bets)
    BY <2>1
  <2>. QED  BY <2>1, <2>2
<1>3. ASSUME Starts(c)
      PROVE  /\ \A k \in Calls : ~SentCall(c, k)
             /\ ~MinedCall(c, "approve") /\ ~MinedCall(c, "placeBet") /\ ~Struck(c)
  <2>1. command[c].does = None
    BY <1>3 DEF Starts
  <2>2. \A k \in Calls : ~SentCall(c, k)
    BY <1>1, <2>1 DEF InOrder
  <2>. QED  BY <1>1, <2>2 DEF MinedCall, TruthKept, Calls
<1>. USE TraderConstants
<1>4. ASSUME NEW cmd \in Command, Starts(c), cmd.does # None, cmd.call \in {None, "faucet"},
             cmd.call = "faucet" => cmd.does = "faucet" /\ cmd.step = "estimate",
             cmd.does = "bet" => cmd.market \in Markets /\ cmd.side \in BetSides /\ cmd.fills > 0,
             \/ cmd.step = "allowance" /\ cmd.does = "bet" /\ cmd.told = None
             \/ cmd.step = "refresh" /\ cmd.does = "collect" /\ cmd.told = None
             \/ cmd.step = "estimate" /\ cmd.call = "faucet" /\ cmd.told = None
             \/ cmd.step = "over" /\ cmd.told = "not_sent",
             cmd.does = "collect" => cmd.ids \subseteq DOMAIN bets
      PROVE  InOrder(c, cmd) /\ TruthKept(c, cmd)
  <2>1. InOrder(c, cmd)
    BY <1>3, <1>4 DEF InOrder, Sending, Calls, KindOf
  <2>2. TruthKept(c, cmd)
    BY <1>3, <1>4 DEF TruthKept, Sending, Calls, MinedCall
  <2>. QED  BY <2>1, <2>2
<1>5. ASSUME NEW m \in Markets, NEW s \in BetSides, NEW n \in Splits, BeginBet(c, m, s, n)
      PROVE  TraderInv'
  <2>. DEFINE begun == [Unstarted EXCEPT !.does = "bet", !.market = m, !.side = s, !.fills = n]
              cmd == IF purse < Stake * n
                     THEN [begun EXCEPT !.step = "over", !.told = "not_sent"]
                     ELSE [begun EXCEPT !.step = "allowance"]
  <2>1. begun = Made("bet", "none", None, m, s, n, {}, None)
    <3>. DEFINE b1 == [Unstarted EXCEPT !.does = "bet"]
                b2 == [b1 EXCEPT !.market = m]
                b3 == [b2 EXCEPT !.side = s]
                b4 == [b3 EXCEPT !.fills = n]
    <3>1. begun = b4
      OBVIOUS
    <3>2. b1 = Made("bet", "none", None, None, None, 0, {}, None)
      BY DEF Unstarted, Made
    <3>. HIDE DEF b1
    <3>3. b2 = Made("bet", "none", None, m, None, 0, {}, None)
      BY <3>2 DEF Made
    <3>. HIDE DEF b2
    <3>4. b3 = Made("bet", "none", None, m, s, 0, {}, None)
      BY <3>3 DEF Made
    <3>. HIDE DEF b3
    <3>5. b4 = Made("bet", "none", None, m, s, n, {}, None)
      BY <3>4 DEF Made
    <3>. QED  BY <3>1, <3>5
  <2>. HIDE DEF begun
  <2>2. \/ cmd = Made("bet", "over", None, m, s, n, {}, "not_sent")
        \/ cmd = Made("bet", "allowance", None, m, s, n, {}, None)
    <3>. DEFINE over == [begun EXCEPT !.step = "over"]
    <3>1. over = Made("bet", "over", None, m, s, n, {}, None)
      BY <2>1 DEF Made
    <3>2. [begun EXCEPT !.step = "over", !.told = "not_sent"] = [over EXCEPT !.told = "not_sent"]
      OBVIOUS
    <3>. HIDE DEF over
    <3>3. [over EXCEPT !.told = "not_sent"] = Made("bet", "over", None, m, s, n, {}, "not_sent")
      BY <3>1 DEF Made
    <3>4. [begun EXCEPT !.step = "allowance"] = Made("bet", "allowance", None, m, s, n, {}, None)
      BY <2>1 DEF Made
    <3>. QED  BY <3>2, <3>3, <3>4
  <2>3. n \in Nat /\ n > 0
    OBVIOUS
  <2>4. Starts(c) /\ command' = [command EXCEPT ![c] = cmd]
        /\ UNCHANGED <<allowance, group, tx, indexerVars>>
    BY <1>5 DEF BeginBet, Thinks, begun
  <2>. HIDE DEF cmd
  <2>5. cmd \in Command
    BY <2>2, <2>3 DEF Command, Made, Steps, Reports
  <2>6. InOrder(c, cmd) /\ TruthKept(c, cmd)
    BY <1>4, <2>2, <2>3, <2>4, <2>5 DEF Made
  <2>. QED  BY <1>3, <2>4, <2>5, <2>6, CommandMoves
<1>6. ASSUME BeginCollect(c) PROVE TraderInv'
  <2>. DEFINE cmd == [Unstarted EXCEPT !.does = "collect", !.step = "refresh",
                                       !.ids = DOMAIN rows.bet]
  <2>1. Starts(c) /\ command' = [command EXCEPT ![c] = cmd]
        /\ UNCHANGED <<allowance, group, tx, indexerVars>>
    BY <1>6 DEF BeginCollect, Thinks
  <2>2. cmd = Made("collect", "refresh", None, None, None, 0, DOMAIN rows.bet, None)
    <3>. DEFINE b1 == [Unstarted EXCEPT !.does = "collect"]
                b2 == [b1 EXCEPT !.step = "refresh"]
    <3>1. cmd = [b2 EXCEPT !.ids = DOMAIN rows.bet]
      OBVIOUS
    <3>2. b1 = Made("collect", "none", None, None, None, 0, {}, None)
      BY DEF Unstarted, Made
    <3>. HIDE DEF b1
    <3>3. b2 = Made("collect", "refresh", None, None, None, 0, {}, None)
      BY <3>2 DEF Made
    <3>. HIDE DEF b2
    <3>. QED  BY <3>1, <3>3 DEF Made
  <2>. HIDE DEF cmd
  <2>3. cmd \in Command
    BY <1>2, <2>2 DEF Command, Made, Steps
  <2>4. InOrder(c, cmd) /\ TruthKept(c, cmd)
    BY <1>2, <1>4, <2>1, <2>2, <2>3 DEF Made
  <2>. QED  BY <1>3, <2>1, <2>3, <2>4, CommandMoves
<1>7. ASSUME BeginFaucet(c) PROVE TraderInv'
  <2>. DEFINE cmd == IF drawn
                     THEN [Unstarted EXCEPT !.does = "faucet", !.step = "over", !.told = "not_sent"]
                     ELSE [Unstarted EXCEPT !.does = "faucet", !.step = "estimate",
                                            !.call = "faucet"]
  <2>1. Starts(c) /\ command' = [command EXCEPT ![c] = cmd]
        /\ UNCHANGED <<allowance, group, tx, indexerVars>>
    BY <1>7 DEF BeginFaucet, Thinks
  <2>2. \/ cmd = Made("faucet", "over", None, None, None, 0, {}, "not_sent")
        \/ cmd = Made("faucet", "estimate", "faucet", None, None, 0, {}, None)
    <3>. DEFINE b1 == [Unstarted EXCEPT !.does = "faucet"]
                over == [b1 EXCEPT !.step = "over"]
                sends == [b1 EXCEPT !.step = "estimate"]
    <3>1. cmd = IF drawn THEN [over EXCEPT !.told = "not_sent"]
                ELSE [sends EXCEPT !.call = "faucet"]
      OBVIOUS
    <3>2. b1 = Made("faucet", "none", None, None, None, 0, {}, None)
      BY DEF Unstarted, Made
    <3>. HIDE DEF b1
    <3>3. over = Made("faucet", "over", None, None, None, 0, {}, None)
      BY <3>2 DEF Made
    <3>4. sends = Made("faucet", "estimate", None, None, None, 0, {}, None)
      BY <3>2 DEF Made
    <3>. HIDE DEF over, sends
    <3>5. [over EXCEPT !.told = "not_sent"]
             = Made("faucet", "over", None, None, None, 0, {}, "not_sent")
      BY <3>3 DEF Made
    <3>6. [sends EXCEPT !.call = "faucet"]
             = Made("faucet", "estimate", "faucet", None, None, 0, {}, None)
      BY <3>4 DEF Made
    <3>. QED  BY <3>1, <3>5, <3>6
  <2>. HIDE DEF cmd
  <2>3. cmd \in Command
    BY <2>2 DEF Command, Made, Steps, Reports, Calls
  <2>4. InOrder(c, cmd) /\ TruthKept(c, cmd)
    BY <1>4, <2>1, <2>2, <2>3 DEF Made
  <2>. QED  BY <1>3, <2>1, <2>3, <2>4, CommandMoves
<1>. QED  BY <1>5, <1>6, <1>7

\* A command at another step.
At(cmd, step, call, told) == [cmd EXCEPT !.step = step, !.call = call, !.told = told]

\* MovesTo, Tells and Sends, as one assignment.
LEMMA StepIsAt ==
    ASSUME TraderInv, NEW c \in Commands
    PROVE  /\ \A step : MovesTo(c, step) => command' = [command EXCEPT ![c] =
                            At(command[c], step, command[c].call, command[c].told)]
           /\ \A what : Tells(c, what) => command' = [command EXCEPT ![c] =
                            At(command[c], "over", command[c].call, what)]
           /\ \A call : Sends(c, call) => command' = [command EXCEPT ![c] =
                            At(command[c], "estimate", call, command[c].told)]
<1>1. command[c] \in Command /\ command \in [Commands -> Command]
  BY OfCommand
<1>. QED  BY <1>1 DEF MovesTo, Tells, Sends, At, Command

\* cmd is command c at another step, and nothing else of it changed.
IsAt(cmd, c, step, call, told) ==
    /\ cmd \in Command /\ cmd.step = step /\ cmd.call = call /\ cmd.told = told
    /\ cmd.does = command[c].does /\ cmd.market = command[c].market
    /\ cmd.side = command[c].side /\ cmd.fills = command[c].fills
    /\ cmd.ids = command[c].ids

LEMMA AtIs ==
    ASSUME TraderInv, NEW c \in Commands, NEW step \in Steps, NEW call \in {None} \cup Calls,
           NEW told \in {None} \cup Reports
    PROVE  IsAt(At(command[c], step, call, told), c, step, call, told)
<1>1. command[c] \in Command
  BY OfCommand
<1>. QED  BY <1>1 DEF IsAt, At, Command

\* A step that sends nothing, after which the command is in order and true.
LEMMA StepsOn ==
    ASSUME TraderInv, NEW c \in Commands, NEW step \in Steps, NEW call \in {None} \cup Calls,
           NEW told \in {None} \cup Reports, Thinks,
           command' = [command EXCEPT ![c] = At(command[c], step, call, told)],
           \A cmd : IsAt(cmd, c, step, call, told) => InOrder(c, cmd) /\ TruthKept(c, cmd)
    PROVE  TraderInv'
<1>. DEFINE cmd == At(command[c], step, call, told)
<1>1. IsAt(cmd, c, step, call, told)
  BY AtIs
<1>2. UNCHANGED <<allowance, group, tx, indexerVars>>
  BY DEF Thinks
<1>. HIDE DEF cmd
<1>. QED  BY <1>1, <1>2, CommandMoves DEF cmd, IsAt

\* Allow: nothing was sent yet.
LEMMA AllowKeeps ==
    ASSUME TraderInv, NEW c \in Commands, Allow(c)
    PROVE  TraderInv'
<1>1. /\ command[c] \in Command /\ InOrder(c, command[c]) /\ TruthKept(c, command[c])
      /\ command[c].step = "allowance" /\ Thinks
  BY OfCommand DEF Allow
<1>2. /\ command[c].does = "bet" /\ command[c].told = None
      /\ \A k \in Calls : ~SentCall(c, k)
      /\ command[c].call \in {None} \cup Calls
  BY <1>1 DEF InOrder, TruthKept, Command
<1>3. ASSUME NEW step \in {"price", "estimate"}, NEW call \in {None} \cup Calls, NEW cmd,
             step = "estimate" => call = "approve", IsAt(cmd, c, step, call, None)
      PROVE  InOrder(c, cmd) /\ TruthKept(c, cmd)
  <2>1. InOrder(c, cmd)
    BY <1>1, <1>2, <1>3 DEF InOrder, Sending, Calls, KindOf, IsAt
  <2>2. TruthKept(c, cmd)
    BY <1>1, <1>2, <1>3, TraderConstants DEF TruthKept, Sending, Calls, MinedCall, IsAt
  <2>. QED  BY <2>1, <2>2
<1>4. CASE MovesTo(c, "price")
  <2>1. command' = [command EXCEPT ![c] = At(command[c], "price", command[c].call, None)]
    BY <1>2, <1>4, StepIsAt
  <2>2. \A cmd : IsAt(cmd, c, "price", command[c].call, None) =>
                   InOrder(c, cmd) /\ TruthKept(c, cmd)
    BY <1>2, <1>3
  <2>. QED  BY <1>1, <1>2, <2>1, <2>2, StepsOn DEF Steps
<1>5. CASE Sends(c, "approve")
  BY <1>1, <1>2, <1>3, <1>5, StepIsAt, StepsOn, SMTT(30) DEF Steps, Calls
<1>. QED  BY <1>4, <1>5 DEF Allow

\* PriceBet: its bet was not sent yet.
LEMMA PriceKeeps ==
    ASSUME TraderInv, NEW c \in Commands, PriceBet(c)
    PROVE  TraderInv'
<1>1. /\ command[c] \in Command /\ InOrder(c, command[c]) /\ TruthKept(c, command[c])
      /\ command[c].step = "price" /\ Thinks
  BY OfCommand DEF PriceBet
<1>2. /\ command[c].does = "bet" /\ command[c].told = None /\ ~SentCall(c, "placeBet")
      /\ command[c].call \in {None} \cup Calls
      /\ \A k \in Calls : SentCall(c, k) => KindOf[k] = "bet"
  BY <1>1 DEF InOrder, TruthKept, Command
<1>3. ~SentCall(c, "claim") /\ ~Struck(c)
  BY <1>1, <1>2 DEF TruthKept, MinedCall, Calls, KindOf
<1>4. ASSUME NEW step \in {"estimate", "over"}, NEW call \in {None} \cup Calls,
             NEW told \in {None, "not_sent"}, NEW cmd, IsAt(cmd, c, step, call, told),
             step = "estimate" => call = "placeBet" /\ told = None
      PROVE  InOrder(c, cmd) /\ TruthKept(c, cmd)
  <2>1. InOrder(c, cmd)
    BY <1>1, <1>2, <1>4 DEF InOrder, Sending, Calls, KindOf, IsAt
  <2>2. TruthKept(c, cmd)
    BY <1>1, <1>2, <1>3, <1>4, TraderConstants DEF TruthKept, Sending, MinedCall, IsAt
  <2>. QED  BY <2>1, <2>2
<1>5. CASE Sends(c, "placeBet")
  BY <1>1, <1>2, <1>4, <1>5, StepIsAt, StepsOn DEF Steps, Calls
<1>6. CASE Tells(c, "not_sent")
  BY <1>1, <1>2, <1>4, <1>6, StepIsAt, StepsOn DEF Steps, Reports
<1>. QED  BY <1>5, <1>6 DEF PriceBet

\* Estimate: what would revert, or is short of gas, has not been sent.
LEMMA EstimateKeeps ==
    ASSUME TraderInv, NEW c \in Commands, Estimate(c)
    PROVE  TraderInv'
<1>1. /\ command[c] \in Command /\ InOrder(c, command[c]) /\ TruthKept(c, command[c])
      /\ command[c].step = "estimate" /\ Thinks
  BY OfCommand DEF Estimate
<1>2. /\ command[c].told = None /\ command[c].call \in Calls /\ ~SentCall(c, command[c].call)
      /\ command[c].does = KindOf[command[c].call]
  BY <1>1 DEF InOrder, TruthKept, Sending
<1>3. ASSUME NEW step \in {"execute", "over"}, NEW told \in {None, "not_sent"}, NEW cmd,
             IsAt(cmd, c, step, command[c].call, told), step = "execute" => told = None
      PROVE  InOrder(c, cmd) /\ TruthKept(c, cmd)
  <2>1. InOrder(c, cmd)
    BY <1>1, <1>2, <1>3 DEF InOrder, Sending, Calls, KindOf, IsAt
  <2>2. command[c].does = "bet" => ~SentCall(c, "placeBet")
    BY <1>1, <1>2 DEF InOrder, Sending, Calls, KindOf
  <2>3. TruthKept(c, cmd)
    BY <1>1, <1>2, <1>3, <2>2, TraderConstants DEF TruthKept, Sending, MinedCall, IsAt
  <2>. QED  BY <2>1, <2>3
<1>4. CASE MovesTo(c, "execute")
  <2>1. command' = [command EXCEPT ![c] = At(command[c], "execute", command[c].call, None)]
    BY <1>2, <1>4, StepIsAt
  <2>2. \A cmd : IsAt(cmd, c, "execute", command[c].call, None) =>
                   InOrder(c, cmd) /\ TruthKept(c, cmd)
    BY <1>2, <1>3
  <2>. QED  BY <1>1, <1>2, <2>1, <2>2, StepsOn DEF Steps
<1>5. CASE Tells(c, "not_sent")
  BY <1>1, <1>2, <1>3, <1>5, StepIsAt, StepsOn DEF Steps, Reports
<1>. QED  BY <1>4, <1>5 DEF Estimate

\* Receipt: what is told is what became of the call.
LEMMA ReceiptKeeps ==
    ASSUME TraderInv, NEW c \in Commands, Receipt(c)
    PROVE  TraderInv'
<1>. DEFINE call == command[c].call
            now == tx[<<c, call>>]
<1>1. /\ command[c] \in Command /\ InOrder(c, command[c]) /\ TruthKept(c, command[c])
      /\ command[c].step = "receipt" /\ Thinks
  BY OfCommand DEF Receipt
<1>2. /\ command[c].told = None /\ call \in Calls /\ SentCall(c, call)
      /\ command[c].does = KindOf[call]
  BY <1>1 DEF InOrder, TruthKept
<1>. DEFINE Right(step, told) ==
               /\ step \in {"price", "over"} /\ told \in {None, "done", "reverted", "no_receipt"}
               /\ step = "price" => call = "approve" /\ told = None
               /\ told = "done" => now = "mined" /\ call # "approve"
               /\ told = "reverted" => now = "reverted"
<1>3. ASSUME NEW step, NEW told, NEW cmd, Right(step, told), IsAt(cmd, c, step, call, told)
      PROVE  InOrder(c, cmd) /\ TruthKept(c, cmd)
  <2>1. InOrder(c, cmd)
    BY <1>1, <1>2, <1>3 DEF InOrder, Sending, Calls, KindOf, IsAt
  <2>2. told = "done" => MinedCall(c, call) /\ call # "approve"
    BY <1>2, <1>3, TraderConstants DEF MinedCall
  <2>3. told = "reverted" /\ SentCall(c, "placeBet") => tx[<<c, "placeBet">>] = "reverted"
    BY <1>1, <1>2, <1>3 DEF InOrder, Sending, Calls, KindOf
  <2>4. told # "not_sent"
    BY <1>3, TraderConstants
  <2>5. TruthKept(c, cmd)
    BY <1>1, <1>2, <1>3, <2>2, <2>3, <2>4, TraderConstants
       DEF TruthKept, Sending, IsAt, KindOf, Calls
  <2>. QED  BY <2>1, <2>5
<1>. HIDE DEF Right
<1>4. CASE call = "approve" /\ MovesTo(c, "price")
  <2>1. Right("price", None)
    BY <1>4, TraderConstants DEF Right
  <2>. QED  BY <1>1, <1>2, <1>3, <1>4, <2>1, StepIsAt, StepsOn DEF Steps
<1>5. CASE call # "approve" /\ now = "mined" /\ Tells(c, "done")
  <2>1. Right("over", "done")
    BY <1>5 DEF Right
  <2>. QED  BY <1>1, <1>2, <1>3, <1>5, <2>1, StepIsAt, StepsOn DEF Steps, Reports
<1>6. CASE now = "reverted" /\ Tells(c, "reverted")
  <2>1. Right("over", "reverted")
    BY <1>6 DEF Right
  <2>. QED  BY <1>1, <1>2, <1>3, <1>6, <2>1, StepIsAt, StepsOn DEF Steps, Reports
<1>7. CASE Tells(c, "no_receipt")
  <2>1. Right("over", "no_receipt")
    BY DEF Right
  <2>. QED  BY <1>1, <1>2, <1>3, <1>7, <2>1, StepIsAt, StepsOn DEF Steps, Reports
<1>. QED  BY <1>4, <1>5, <1>6, <1>7 DEF Receipt, Sent

\* Refresh and ReadOwed: the bets to collect are among those there were, and
\* at the end those that can be collected.
LEMMA LooksKeep ==
    ASSUME TraderInv, NEW c \in Commands, Refresh(c) \/ ReadOwed(c)
    PROVE  TraderInv'
<1>1. /\ command[c] \in Command /\ InOrder(c, command[c]) /\ TruthKept(c, command[c])
      /\ command[c].step \in {"refresh", "owed"} /\ Thinks /\ command \in [Commands -> Command]
  BY OfCommand DEF Refresh, ReadOwed
<1>2. /\ command[c].does = "collect" /\ command[c].told = None
      /\ \A k \in Calls : ~SentCall(c, k)
      /\ command[c].call \in {None} \cup Calls /\ command[c].ids \subseteq DOMAIN bets
  BY <1>1 DEF InOrder, TruthKept, Command
<1>. DEFINE Now(step, call, ids, told) ==
               [command[c] EXCEPT !.step = step, !.call = call, !.ids = ids, !.told = told]
            Right(step, call, ids, told) ==
               /\ ids \subseteq command[c].ids /\ call \in {None} \cup Calls
               /\ \/ step = "owed" /\ told = None
                  \/ step = "over" /\ told = "nothing_to_collect"
                  \/ /\ step = "estimate" /\ call = "claim" /\ told = None
                     /\ \A id \in ids : Claimable(bets[id]) > 0
<1>3. ASSUME NEW step, NEW call, NEW ids, NEW told, Right(step, call, ids, told),
             command' = [command EXCEPT ![c] = Now(step, call, ids, told)]
      PROVE  TraderInv'
  <2>. DEFINE cmd == Now(step, call, ids, told)
  <2>1. cmd \in Command
    BY <1>1, <1>3, ZenonT(30) DEF Command, Steps, Reports
  <2>2. /\ cmd.step = step /\ cmd.call = call /\ cmd.ids = ids /\ cmd.told = told
        /\ cmd.does = "collect" /\ cmd.fills = command[c].fills
    BY <1>1, <1>2 DEF Command
  <2>. HIDE DEF cmd
  <2>3. InOrder(c, cmd)
    BY <1>1, <1>2, <1>3, <2>2, TraderConstants DEF InOrder, Sending, Calls, KindOf
  <2>4. TruthKept(c, cmd)
    <3>1. told # "done"
      BY <1>3, TraderConstants
    <3>2. Sending(cmd, "claim") => \A id \in ids : Collectable(id)
      BY <1>3, <2>2 DEF Sending, Collectable
    <3>3. ~SentCall(c, "claim") /\ ~SentCall(c, "placeBet")
      BY <1>2 DEF Calls
    <3>4. step # "over" => told = None
      BY <1>3
    <3>. QED  BY <1>1, <1>2, <1>3, <2>2, <3>1, <3>2, <3>3, <3>4, TraderConstants
              DEF TruthKept, MinedCall
  <2>. QED  BY <1>1, <1>3, <2>1, <2>2, <2>3, <2>4, CommandMoves DEF Thinks, cmd
<1>. HIDE DEF Right
<1>4. CASE Refresh(c)
  <2>. DEFINE due == {id \in command[c].ids : Claimable(bets[id]) > 0}
              ids == {id \in command[c].ids : \E d \in due : group[d] = group[id]}
  <2>1. command' = [command EXCEPT ![c] = Now("owed", command[c].call, ids, command[c].told)]
    BY <1>1, <1>4 DEF Refresh, Command
  <2>2. Right("owed", command[c].call, ids, command[c].told)
    BY <1>2 DEF Right
  <2>. QED  BY <1>3, <2>1, <2>2
<1>5. CASE ReadOwed(c)
  <2>. DEFINE payable == {id \in command[c].ids : Claimable(bets[id]) > 0}
  <2>1. CASE payable = {}
    <3>1. command' = [command EXCEPT ![c] = Now("over", None, payable, "nothing_to_collect")]
      BY <1>1, <1>5, <2>1, ZenonT(30) DEF ReadOwed, Command
    <3>2. Right("over", None, payable, "nothing_to_collect")
      BY DEF Right
    <3>. QED  BY <1>3, <3>1, <3>2
  <2>2. CASE payable # {}
    <3>1. command' = [command EXCEPT ![c] = Now("estimate", "claim", payable, None)]
      BY <1>1, <1>5, <2>2 DEF ReadOwed, Command
    <3>2. Right("estimate", "claim", payable, None)
      BY DEF Right, Calls
    <3>. QED  BY <1>3, <3>1, <3>2
  <2>. QED  BY <2>1, <2>2
<1>. QED  BY <1>4, <1>5

-----------------------------------------------------------------------------
(* A trader's transactions *)

\* What became of command d's calls, and whether it struck its bet, stay as they are.
CallsStay(d) ==
    /\ \A k \in Calls : /\ SentCall(d, k)' <=> SentCall(d, k)
                        /\ SentCall(d, k) => tx'[<<d, k>>] = tx[<<d, k>>]
    /\ Struck(d)' <=> Struck(d)

\* A command that sent what it had sent is in order as it was.
LEMMA OrderStays ==
    ASSUME NEW d \in Commands, NEW cmd, InOrder(d, cmd),
           \A k \in Calls : SentCall(d, k)' <=> SentCall(d, k)
    PROVE  InOrder(d, cmd)'
<1>1. /\ cmd.does = None => cmd.step = "none"
      /\ cmd.does = "bet" => cmd.market \in Markets /\ cmd.side \in BetSides /\ cmd.fills > 0
      /\ cmd.step \in {"allowance", "price"} => cmd.does = "bet"
      /\ cmd.step \in {"refresh", "owed"} => cmd.does = "collect"
  BY DEF InOrder
<1>2. (cmd.step \in {"none", "allowance", "refresh", "owed"} => \A k \in Calls : ~SentCall(d, k))'
  BY DEF InOrder
<1>3. (cmd.step = "price" \/ Sending(cmd, "approve") => ~SentCall(d, "placeBet"))'
  BY DEF InOrder, Sending, Calls
<1>4. (/\ cmd.step \in {"estimate", "execute", "receipt"} => cmd.call \in Calls
       /\ cmd.step \in {"estimate", "execute"} => ~SentCall(d, cmd.call)
       /\ cmd.step = "receipt" => SentCall(d, cmd.call))'
  BY DEF InOrder
<1>5. (\A k \in Calls : SentCall(d, k) \/ Sending(cmd, k) => cmd.does = KindOf[k])'
  BY DEF InOrder, Sending
<1>. QED  BY <1>1, <1>2, <1>3, <1>4, <1>5 DEF InOrder

\* A command stays in order while the chain moves on around it.
LEMMA StaysTrue ==
    ASSUME NEW d \in Commands, NEW cmd, BetsAdvance, CallsStay(d),
           InOrder(d, cmd), TruthKept(d, cmd)
    PROVE  InOrder(d, cmd)' /\ TruthKept(d, cmd)'
<1>1. \A k \in Calls : /\ SentCall(d, k)' <=> SentCall(d, k)
                       /\ MinedCall(d, k)' <=> MinedCall(d, k)
  BY DEF CallsStay, MinedCall
<1>2. InOrder(d, cmd)'
  BY <1>1, OrderStays
<1>3. \A id \in DOMAIN bets : /\ Collectable(id) => Collectable(id)'
                              /\ bets[id].claimed => bets'[id].claimed
                              /\ id \in DOMAIN bets'
  BY DEF BetsAdvance, Collectable
<1>4. SentCall(d, "claim") \/ Sending(cmd, "claim") => cmd.does = "collect"
  BY DEF InOrder, Calls, KindOf
<1>5. /\ cmd.does = "collect" => cmd.ids \subseteq DOMAIN bets
      /\ SentCall(d, "claim") \/ Sending(cmd, "claim") => \A id \in cmd.ids : Collectable(id)
      /\ MinedCall(d, "claim") => \A id \in cmd.ids : bets[id].claimed
  BY DEF TruthKept
<1>6. MinedCall(d, "claim") => SentCall(d, "claim")
  BY DEF MinedCall
<1>7. /\ (cmd.does = "collect" => cmd.ids \subseteq DOMAIN bets)'
      /\ (SentCall(d, "claim") \/ Sending(cmd, "claim") => \A id \in cmd.ids : Collectable(id))'
      /\ (MinedCall(d, "claim") => \A id \in cmd.ids : bets[id].claimed)'
  <2>1. "claim" \in Calls
    BY DEF Calls
  <2>. QED  BY <1>1, <1>3, <1>4, <1>5, <1>6, <2>1 DEF Sending
<1>8. /\ (Struck(d) <=> MinedCall(d, "placeBet"))'
      /\ (cmd.does = "bet" /\ cmd.told = "done" => Struck(d))'
  BY <1>1 DEF TruthKept, CallsStay, Calls
<1>9. (cmd.does = "bet" /\ cmd.told \in {"not_sent", "reverted"} /\ SentCall(d, "placeBet") =>
          tx[<<d, "placeBet">>] = "reverted")'
  BY DEF TruthKept, CallsStay, Calls
<1>10. (cmd.does = "collect" /\ cmd.told = "done" => MinedCall(d, "claim"))'
  BY <1>1 DEF TruthKept, Calls
<1>. QED  BY <1>2, <1>7, <1>8, <1>9, <1>10 DEF TruthKept

\* One call is sent, or moves on, and no other.
LEMMA OneCall ==
    ASSUME NEW c \in Commands, NEW call \in Calls, NEW where, tx' = Put(tx, <<c, call>>, where)
    PROVE  /\ SentCall(c, call)' /\ tx'[<<c, call>>] = where
           /\ \A d \in Commands, k \in Calls :
                 d # c \/ k # call =>
                     /\ SentCall(d, k)' <=> SentCall(d, k)
                     /\ SentCall(d, k) => tx'[<<d, k>>] = tx[<<d, k>>]
                     /\ MinedCall(d, k)' <=> MinedCall(d, k)
<1>1. SentCall(c, call)' /\ tx'[<<c, call>>] = where
  <2>. DEFINE y == <<c, call>>
  <2>1. tx' = Put(tx, y, where)
    OBVIOUS
  <2>. HIDE DEF y
  <2>2. y \in DOMAIN tx' /\ tx'[y] = where
    BY <2>1 DEF Put
  <2>. QED  BY <2>2 DEF SentCall, y
<1>2. ASSUME NEW d \in Commands, NEW k \in Calls, d # c \/ k # call
      PROVE  /\ SentCall(d, k)' <=> SentCall(d, k)
             /\ SentCall(d, k) => tx'[<<d, k>>] = tx[<<d, k>>]
             /\ MinedCall(d, k)' <=> MinedCall(d, k)
  <2>1. <<d, k>> # <<c, call>>
    BY <1>2
  <2>. DEFINE x == <<d, k>>
              y == <<c, call>>
  <2>. HIDE DEF x, y
  <2>2. (x \in DOMAIN tx' <=> x \in DOMAIN tx) /\ (x \in DOMAIN tx => tx'[x] = tx[x])
    <3>1. x # y /\ tx' = Put(tx, y, where)
      BY <2>1 DEF x, y
    <3>. QED  BY <3>1 DEF Put
  <2>. QED  BY <2>2 DEF SentCall, MinedCall, x
<1>. QED  BY <1>1, <1>2

\* A command's call is sent or moves on, and the command with it.
LEMMA CallMoves ==
    ASSUME TraderInv, NEW c \in Commands, NEW call \in Calls, NEW where, NEW cmd \in Command,
           command' = [command EXCEPT ![c] = cmd], tx' = Put(tx, <<c, call>>, where),
           IndexInv', BetsAdvance, \A d \in Commands \ {c} : Struck(d)' <=> Struck(d),
           allowance' \in Nat, group' \in Seq(Commands), SpendingCovered',
           InOrder(c, cmd)', TruthKept(c, cmd)'
    PROVE  TraderInv'
<1>1. command \in [Commands -> Command] /\ DOMAIN tx \subseteq Commands \X Calls
  BY DEF TraderInv, TraderType
<1>2. TraderType'
  <2>1. DOMAIN tx' \subseteq Commands \X Calls /\ tx' = [x \in DOMAIN tx' |-> tx'[x]]
    <3>. DEFINE y == <<c, call>>
    <3>1. y \in Commands \X Calls /\ tx' = Put(tx, y, where)
      OBVIOUS
    <3>. HIDE DEF y
    <3>. QED  BY <1>1, <3>1 DEF Put
  <2>2. command' \in [Commands -> Command]
    BY <1>1
  <2>. QED  BY <2>1, <2>2 DEF TraderType
<1>3. ASSUME NEW d \in Commands, d # c
      PROVE  InOrder(d, command[d])' /\ TruthKept(d, command[d])'
  <2>1. CallsStay(d)
    BY <1>3, OneCall DEF CallsStay
  <2>2. InOrder(d, command[d]) /\ TruthKept(d, command[d]) /\ command'[d] = command[d]
    BY <1>1, <1>3, OfCommand
  <2>. QED  BY <2>1, <2>2, StaysTrue
<1>4. InOrder(c, command[c])' /\ TruthKept(c, command[c])'
  BY <1>1
<1>. QED  BY <1>2, <1>3, <1>4 DEF TraderInv

\* The router was allowed a number for each command.
LEMMA AllowedType ==
    ASSUME TraderInv
    PROVE  /\ [c \in Commands |-> AllowedFor(c)] \in [1..MaxCommands -> Nat]
           /\ MaxCommands \in Nat /\ Commands = 1..MaxCommands
<1>1. ASSUME NEW c \in Commands PROVE AllowedFor(c) \in Nat
  BY OfCommand, IndexerConstants DEF AllowedFor, StakeOfBet, Command
<1>. QED  BY <1>1, TraderConstants DEF Commands

\* Nothing was allowed, taken or struck by what did not go through.
LEMMA NothingAllowed ==
    ASSUME TraderInv, NEW c \in Commands, NEW call \in Calls, NEW where,
           tx' = Put(tx, <<c, call>>, where), ~MinedCall(c, call), where # "mined",
           \A d \in Commands : command'[d].fills = command[d].fills,
           UNCHANGED <<allowance, group>>
    PROVE  SpendingCovered'
<1>1. ASSUME NEW d \in Commands PROVE AllowedFor(d)' = AllowedFor(d)
  <2>1. MinedCall(d, "approve")' <=> MinedCall(d, "approve")
    <3>1. ~MinedCall(c, call)'
      <4>1. tx'[<<c, call>>] = where
        BY OneCall
      <4>. QED  BY <4>1 DEF MinedCall
    <3>2. "approve" \in Calls
      BY DEF Calls
    <3>3. d # c \/ "approve" # call => (MinedCall(d, "approve")' <=> MinedCall(d, "approve"))
      BY <3>2, OneCall
    <3>. QED  BY <3>1, <3>3
  <2>2. StakeOfBet(d)' = StakeOfBet(d)
    BY DEF StakeOfBet
  <2>. QED  BY <2>1, <2>2 DEF AllowedFor
<1>2. [d \in Commands |-> AllowedFor(d)]' = [d \in Commands |-> AllowedFor(d)]
  BY <1>1
<1>. QED  BY <1>2 DEF SpendingCovered, TraderInv

\* Execute: a call is held or sent once, or told as not sent.
LEMMA ExecuteKeeps ==
    ASSUME TraderInv, NEW c \in Commands, Execute(c)
    PROVE  TraderInv'
<1>1. /\ command[c] \in Command /\ InOrder(c, command[c]) /\ TruthKept(c, command[c])
      /\ command[c].step = "execute" /\ command \in [Commands -> Command] /\ IndexInv
      /\ UNCHANGED <<purse, allowance, drawn, group, indexerVars>>
  BY OfCommand DEF Execute
<1>0. PICK call \in Calls : command[c].call = call
  BY <1>1 DEF InOrder
<1>2. /\ command[c].told = None /\ ~SentCall(c, call) /\ command[c].does = KindOf[call]
  BY <1>0, <1>1 DEF InOrder, TruthKept, Sending
<1>3. /\ IndexInv' /\ BetsAdvance /\ allowance' \in Nat /\ group' \in Seq(Commands)
      /\ \A d \in Commands : Struck(d)' <=> Struck(d)
  <2>1. Len(bets) \in Nat
    BY <1>1 DEF IndexInv
  <2>2. IndexInv'
    BY <1>1 DEF IndexInv, indexerVars
  <2>3. BetsAdvance
    BY <1>1, <2>1 DEF BetsAdvance, indexerVars
  <2>. QED  BY <1>1, <2>2, <2>3 DEF Struck, TraderInv, TraderType
<1>4. CASE Tells(c, "not_sent") /\ UNCHANGED tx
  <2>1. command' = [command EXCEPT ![c] = At(command[c], "over", call, "not_sent")]
    BY <1>0, <1>4, StepIsAt
  <2>2. ASSUME NEW cmd, IsAt(cmd, c, "over", call, "not_sent")
        PROVE  InOrder(c, cmd) /\ TruthKept(c, cmd)
    <3>1. InOrder(c, cmd)
      BY <1>0, <1>1, <1>2, <2>2 DEF InOrder, Sending, Calls, KindOf, IsAt
    <3>2. command[c].does = "bet" => ~SentCall(c, "placeBet")
      BY <1>0, <1>1, <1>2 DEF InOrder, Sending, Calls, KindOf
    <3>3. TruthKept(c, cmd)
      BY <1>0, <1>1, <1>2, <2>2, <3>2, TraderConstants DEF TruthKept, Sending, MinedCall, IsAt
    <3>. QED  BY <3>1, <3>3
  <2>3. Thinks
    BY <1>1, <1>4 DEF Thinks
  <2>. QED  BY <1>2, <2>1, <2>2, <2>3, StepsOn DEF Steps, Reports
<1>5. ASSUME NEW step \in {"price", "over", "receipt"}, NEW told \in {None, "awaiting_approval"},
             NEW where \in {"held", "sent"}, tx' = Put(tx, <<c, call>>, where),
             command' = [command EXCEPT ![c] = At(command[c], step, call, told)],
             step = "price" => call = "approve", step # "over" => told = None
      PROVE  TraderInv'
  <2>1. PICK cmd : cmd = At(command[c], step, call, told) /\ IsAt(cmd, c, step, call, told)
    BY <1>2, AtIs DEF Steps, Reports
  <2>2. ~MinedCall(c, call) /\ where # "mined"
    BY <1>2 DEF MinedCall
  <2>3. \A d \in Commands : command'[d].fills = command[d].fills
    BY <1>1, <1>5, <2>1 DEF IsAt
  <2>4. SpendingCovered'
    BY <1>1, <1>2, <1>5, <2>2, <2>3, NothingAllowed
  <2>5. /\ \A k \in Calls : SentCall(c, k)' <=> SentCall(c, k) \/ k = call
        /\ \A k \in Calls : MinedCall(c, k)' <=> MinedCall(c, k)
        /\ \A k \in Calls : SentCall(c, k) => tx'[<<c, k>>] = tx[<<c, k>>]
    <3>1. SentCall(c, call)' /\ tx'[<<c, call>>] = where
      BY <1>2, <1>5, OneCall
    <3>2. ~MinedCall(c, call)'
      BY <2>2, <3>1 DEF MinedCall
    <3>3. ASSUME NEW k \in Calls, k # call
          PROVE  /\ SentCall(c, k)' <=> SentCall(c, k)
                 /\ SentCall(c, k) => tx'[<<c, k>>] = tx[<<c, k>>]
                 /\ MinedCall(c, k)' <=> MinedCall(c, k)
      BY <1>2, <1>5, <3>3, OneCall
    <3>. QED  BY <1>2, <2>2, <3>1, <3>2, <3>3
  <2>6. InOrder(c, cmd)'
    BY <1>0, <1>1, <1>2, <1>5, <2>1, <2>5 DEF InOrder, Sending, Calls, KindOf, IsAt
  <2>7. told \notin {"done", "not_sent", "reverted"}
    BY <1>5, TraderConstants
  <2>8. TruthKept(c, cmd)'
    <3>1. UNCHANGED bets
      BY <1>1 DEF indexerVars
    <3>2. \A id : Collectable(id)' <=> Collectable(id)
      BY <3>1 DEF Collectable
    <3>3. /\ cmd.told = told /\ cmd.does = command[c].does /\ cmd.ids = command[c].ids
          /\ cmd.step = step /\ cmd.call = call
      BY <2>1 DEF IsAt
    <3>4. SentCall(c, "claim")' \/ Sending(cmd, "claim") =>
             SentCall(c, "claim") \/ Sending(command[c], "claim")
      BY <1>0, <1>1, <2>5, <3>3 DEF Sending, Calls
    <3>5. "placeBet" \in Calls /\ "claim" \in Calls
      BY DEF Calls
    <3>. QED  BY <1>1, <1>3, <1>5, <2>5, <2>7, <3>1, <3>2, <3>3, <3>4, <3>5
              DEF TruthKept, Sending
  <2>. QED  BY <1>1, <1>2, <1>3, <1>5, <2>1, <2>4, <2>6, <2>8, CallMoves DEF IsAt
<1>6. CASE tx' = Put(tx, <<c, call>>, "held") /\ Sent(c, "awaiting_approval")
  <2>1. CASE call = "approve"
    <3>1. command' = [command EXCEPT ![c] = At(command[c], "price", call, None)]
      BY <1>0, <1>2, <1>6, <2>1, StepIsAt DEF Sent
    <3>. QED  BY <1>5, <1>6, <2>1, <3>1
  <2>2. CASE call # "approve"
    <3>1. command' = [command EXCEPT ![c] = At(command[c], "over", call, "awaiting_approval")]
      BY <1>0, <1>2, <1>6, <2>2, StepIsAt DEF Sent
    <3>. QED  BY <1>5, <1>6, <3>1
  <2>. QED  BY <2>1, <2>2
<1>7. CASE tx' = Put(tx, <<c, call>>, "sent") /\ MovesTo(c, "receipt")
  <2>1. command' = [command EXCEPT ![c] = At(command[c], "receipt", call, None)]
    BY <1>0, <1>2, <1>7, StepIsAt
  <2>. QED  BY <1>5, <1>7, <2>1
<1>. QED  BY <1>0, <1>4, <1>6, <1>7 DEF Execute

\* What the router was allowed in all, once a call has gone through or not.
LEMMA AllowedInAll ==
    ASSUME TraderInv, NEW c \in Commands, NEW call \in Calls, NEW to,
           tx' = Put(tx, <<c, call>>, to), ~MinedCall(c, call), UNCHANGED command
    PROVE  SumTo([d \in Commands |-> AllowedFor(d)], MaxCommands)'
               = SumTo([d \in Commands |-> AllowedFor(d)], MaxCommands)
                     + IF call = "approve" /\ to = "mined" THEN StakeOfBet(c) ELSE 0
<1>. DEFINE f == [d \in Commands |-> AllowedFor(d)]
            got == IF call = "approve" /\ to = "mined" THEN StakeOfBet(c) ELSE 0
<1>1. /\ f \in [1..MaxCommands -> Nat] /\ MaxCommands \in Nat /\ Commands = 1..MaxCommands
  BY AllowedType
<1>2. StakeOfBet(c) \in Nat
  BY OfCommand, IndexerConstants DEF StakeOfBet, Command
<1>3. "approve" \in Calls
  BY DEF Calls
<1>4. ASSUME NEW d \in Commands PROVE AllowedFor(d)' = AllowedFor(d) + IF d = c THEN got ELSE 0
  <2>1. AllowedFor(d) \in Nat
    BY <1>1
  <2>2. StakeOfBet(d)' = StakeOfBet(d)
    BY DEF StakeOfBet
  <2>3. CASE d # c \/ call # "approve"
    <3>1. MinedCall(d, "approve")' <=> MinedCall(d, "approve")
      BY <1>3, <2>3, OneCall
    <3>. QED  BY <2>1, <2>2, <2>3, <3>1 DEF AllowedFor
  <2>4. CASE d = c /\ call = "approve"
    <3>1. SentCall(c, call)' /\ tx'[<<c, call>>] = to
      BY OneCall
    <3>2. MinedCall(c, "approve")' <=> to = "mined"
      BY <2>4, <3>1 DEF MinedCall
    <3>. QED  BY <1>2, <2>2, <2>4, <3>2 DEF AllowedFor
  <2>. QED  BY <2>3, <2>4
<1>5. PICK g \in [1..MaxCommands -> Nat] :
         \A d \in 1..MaxCommands : g[d] = f[d] + IF d = c THEN got ELSE 0
  <2>1. got \in Nat
    BY <1>2
  <2>. HIDE DEF got, f
  <2>2. [d \in 1..MaxCommands |-> f[d] + IF d = c THEN got ELSE 0] \in [1..MaxCommands -> Nat]
    BY <1>1, <2>1
  <2>. QED  BY <2>2
<1>6. f' = g
  <2>1. f' = [d \in Commands |-> AllowedFor(d) + IF d = c THEN got ELSE 0]
    BY <1>4
  <2>2. g = [d \in Commands |-> g[d]]
    BY <1>1, <1>5
  <2>3. \A d \in Commands : g[d] = AllowedFor(d) + IF d = c THEN got ELSE 0
    BY <1>1, <1>5
  <2>. QED  BY <2>1, <2>2, <2>3
<1>7. SumTo(g, MaxCommands) = SumTo(f, MaxCommands) - f[c] + g[c]
  <2>. HIDE DEF f, got
  <2>1. \A d \in 1..MaxCommands : d # c => g[d] = f[d]
    BY <1>1, <1>5
  <2>2. f \in [1..MaxCommands -> Int] /\ g \in [1..MaxCommands -> Int] /\ c \in 1..MaxCommands
    BY <1>1, <1>5
  <2>. QED  BY <1>1, <2>1, <2>2, TotalChange
<1>8. SumTo(f, MaxCommands) \in Nat /\ f[c] \in Nat /\ g[c] = f[c] + got /\ got \in Nat
  <2>1. SumTo(f, MaxCommands) \in Nat
    <3>. HIDE DEF f
    <3>. QED  BY <1>1, TotalOfAmounts
  <2>. QED  BY <1>1, <1>2, <1>5, <2>1
<1>9. SumTo(f, MaxCommands)' = SumTo(g, MaxCommands)
  BY <1>6
<1>. QED  BY <1>7, <1>8, <1>9

\* A call that was held or sent goes on, goes through, or does not.
LEMMA CallSettles ==
    ASSUME TraderInv, NEW c \in Commands, NEW call \in Calls, SentCall(c, call),
           NEW to \in {"sent", "expired", "reverted", "mined"}, UNCHANGED command,
           tx[<<c, call>>] \in {"held", "sent"}, tx' = [tx EXCEPT ![<<c, call>>] = to],
           IndexInv', BetsAdvance, \A d \in Commands \ {c} : Struck(d)' <=> Struck(d),
           Struck(c)' <=> Struck(c) \/ (call = "placeBet" /\ to = "mined"),
           call = "claim" /\ to = "mined" => \A id \in command[c].ids : bets'[id].claimed,
           allowance' \in Nat, group' \in Seq(Commands),
           allowance' + Stake * Len(group')
               <= allowance + Stake * Len(group)
                     + IF call = "approve" /\ to = "mined" THEN StakeOfBet(c) ELSE 0
    PROVE  TraderInv'
<1>1. PICK cmd \in Command : cmd = command[c]
  BY OfCommand
<1>2. /\ InOrder(c, cmd) /\ TruthKept(c, cmd) /\ command \in [Commands -> Command]
      /\ tx = [x \in DOMAIN tx |-> tx[x]]
  BY <1>1, OfCommand DEF TraderInv, TraderType
<1>3. tx' = Put(tx, <<c, call>>, to)
  <2>. DEFINE y == <<c, call>>
  <2>1. y \in DOMAIN tx /\ tx' = [tx EXCEPT ![y] = to]
    BY DEF SentCall
  <2>. HIDE DEF y
  <2>2. tx' = Put(tx, y, to)
    BY <1>2, <2>1, ZenonT(30) DEF Put
  <2>. QED  BY <2>2 DEF y
<1>4. /\ SentCall(c, call)' /\ tx'[<<c, call>>] = to
      /\ \A k \in Calls : k # call => /\ SentCall(c, k)' <=> SentCall(c, k)
                                      /\ SentCall(c, k) => tx'[<<c, k>>] = tx[<<c, k>>]
                                      /\ MinedCall(c, k)' <=> MinedCall(c, k)
  <2>1. SentCall(c, call)' /\ tx'[<<c, call>>] = to
    BY <1>3, OneCall, ZenonT(30)
  <2>2. ASSUME NEW k \in Calls, k # call
        PROVE  /\ SentCall(c, k)' <=> SentCall(c, k)
               /\ SentCall(c, k) => tx'[<<c, k>>] = tx[<<c, k>>]
               /\ MinedCall(c, k)' <=> MinedCall(c, k)
    BY <1>3, <2>2, OneCall, ZenonT(30)
  <2>. QED  BY <2>1, <2>2
<1>5. ~MinedCall(c, call) /\ (MinedCall(c, call)' <=> to = "mined")
  BY <1>4 DEF MinedCall
<1>6. \A k \in Calls : SentCall(c, k)' <=> SentCall(c, k)
  BY <1>4
<1>7. InOrder(c, cmd)'
  BY <1>2, <1>6, OrderStays
<1>8. cmd.does = KindOf[call]
  BY <1>2 DEF InOrder
<1>9. TruthKept(c, cmd)'
  <2>1. (Struck(c) <=> MinedCall(c, "placeBet"))'
    BY <1>2, <1>4, <1>5 DEF TruthKept, Calls
  <2>2. cmd.step # "over" => cmd.told = None
    BY <1>2 DEF TruthKept
  <2>3. (cmd.does = "bet" /\ cmd.told = "done" => Struck(c))'
    BY <1>2 DEF TruthKept
  <2>4. (cmd.does = "bet" /\ cmd.told \in {"not_sent", "reverted"} /\ SentCall(c, "placeBet") =>
             tx[<<c, "placeBet">>] = "reverted")'
    BY <1>2, <1>4, <1>6 DEF TruthKept, Calls
  <2>5. \A id \in DOMAIN bets : /\ Collectable(id) => Collectable(id)'
                                /\ bets[id].claimed => bets'[id].claimed
                                /\ id \in DOMAIN bets'
    BY DEF BetsAdvance, Collectable
  <2>6. (cmd.does = "collect" => cmd.ids \subseteq DOMAIN bets)'
    BY <1>2, <2>5 DEF TruthKept
  <2>7. "claim" \in Calls
    BY DEF Calls
  <2>8. SentCall(c, "claim") \/ Sending(cmd, "claim") =>
            cmd.ids \subseteq DOMAIN bets /\ \A id \in cmd.ids : Collectable(id)
    BY <1>2, <2>7 DEF TruthKept, InOrder, KindOf
  <2>9. (SentCall(c, "claim") \/ Sending(cmd, "claim") => \A id \in cmd.ids : Collectable(id))'
    BY <1>6, <2>5, <2>7, <2>8 DEF Sending
  <2>10. (MinedCall(c, "claim") => \A id \in cmd.ids : bets[id].claimed)'
    <3>1. CASE call = "claim"
      BY <1>1, <1>5, <3>1
    <3>2. CASE call # "claim"
      <4>1. MinedCall(c, "claim")' => MinedCall(c, "claim") /\ SentCall(c, "claim")
        BY <1>4, <2>7, <3>2 DEF MinedCall
      <4>2. MinedCall(c, "claim") => \A id \in cmd.ids : bets[id].claimed
        BY <1>2 DEF TruthKept
      <4>. QED  BY <2>5, <2>8, <4>1, <4>2
    <3>. QED  BY <3>1, <3>2
  <2>11. (cmd.does = "collect" /\ cmd.told = "done" => MinedCall(c, "claim"))'
    BY <1>2, <1>4, <1>5, <2>7 DEF TruthKept
  <2>. QED  BY <2>1, <2>2, <2>3, <2>4, <2>6, <2>9, <2>10, <2>11 DEF TruthKept
<1>10. SpendingCovered'
  <2>. DEFINE sum == SumTo([d \in Commands |-> AllowedFor(d)], MaxCommands)
              got == IF call = "approve" /\ to = "mined" THEN StakeOfBet(c) ELSE 0
  <2>1. sum' = sum + got
    BY <1>3, <1>5, AllowedInAll
  <2>2. allowance + Stake * Len(group) <= sum
    BY DEF TraderInv, SpendingCovered
  <2>3. sum \in Nat /\ got \in Nat
    <3>1. StakeOfBet(c) \in Nat
      BY OfCommand, IndexerConstants DEF StakeOfBet, Command
    <3>. QED  BY <3>1, AllowedType, TotalOfAmounts
  <2>4. /\ allowance \in Nat /\ Len(group) \in Nat /\ Len(group') \in Nat
        /\ Stake * Len(group) \in Nat /\ Stake * Len(group') \in Nat
    <3>1. Stake \in Nat /\ allowance \in Nat /\ Len(group) \in Nat /\ Len(group') \in Nat
      BY IndexerConstants DEF TraderInv, TraderType
    <3>. QED  BY <3>1
  <2>. DEFINE used == Stake * Len(group)
              uses == Stake * Len(group')
  <2>. HIDE DEF sum, got, used, uses
  <2>5. allowance' + uses <= sum + got
    BY <2>2, <2>3, <2>4 DEF used, uses, got
  <2>6. allowance' + uses <= sum'
    BY <2>1, <2>5
  <2>. QED  BY <2>6 DEF SpendingCovered, sum, uses
<1>11. command' = [command EXCEPT ![c] = cmd]
  BY <1>1, <1>2
<1>. QED  BY <1>3, <1>7, <1>9, <1>10, <1>11, CallMoves

\* What a mined bet leaves: its command struck, and no other.
LEMMA GroupGrows ==
    ASSUME group \in Seq(Commands), NEW c \in Commands, NEW n \in Nat, n > 0,
           group' = group \o [i \in 1..n |-> c]
    PROVE  /\ group' \in Seq(Commands) /\ Len(group') = Len(group) + n
           /\ Struck(c)' /\ \A d \in Commands \ {c} : Struck(d)' <=> Struck(d)
<1>. DEFINE more == [i \in 1..n |-> c]
<1>1. more \in Seq(Commands) /\ Len(more) = n /\ Len(group) \in Nat
  BY FunctionIsSeq
<1>2. \A i \in 1..n : more[i] = c
  OBVIOUS
<1>. HIDE DEF more
<1>3. /\ group' \in Seq(Commands) /\ Len(group') = Len(group) + n
      /\ \A i \in 1..(Len(group) + n) :
            group'[i] = IF i <= Len(group) THEN group[i] ELSE more[i - Len(group)]
  BY <1>1, ConcatProperties DEF more
<1>4. DOMAIN group' = 1..(Len(group) + n) /\ DOMAIN group = 1..Len(group)
  BY <1>1, <1>3
<1>5. \A i \in DOMAIN group : i \in DOMAIN group' /\ group'[i] = group[i]
  BY <1>1, <1>3, <1>4
<1>6. \A i \in DOMAIN group' : i \in DOMAIN group \/ group'[i] = c
  <2>1. ASSUME NEW i \in DOMAIN group', i \notin DOMAIN group
        PROVE  group'[i] = c
    <3>1. i - Len(group) \in 1..n /\ i \in 1..(Len(group) + n) /\ ~(i <= Len(group))
      BY <1>1, <1>4, <2>1
    <3>. QED  BY <1>2, <1>3, <3>1
  <2>. QED  BY <2>1
<1>7. Struck(c)'
  <2>1. Len(group) + 1 \in DOMAIN group' /\ Len(group) + 1 \notin DOMAIN group
    BY <1>1, <1>4
  <2>. QED  BY <1>6, <2>1 DEF Struck
<1>8. \A d \in Commands \ {c} : Struck(d)' <=> Struck(d)
  BY <1>5, <1>6 DEF Struck
<1>. QED  BY <1>3, <1>7, <1>8

\* Decide, and Mine: a held call is sent or expires; a sent one is mined.
LEMMA TransactionKeeps ==
    ASSUME TraderInv, NEW c \in Commands, NEW call \in Calls, Mine(c, call) \/ Decide(c, call)
    PROVE  TraderInv'
<1>1. /\ command[c] \in Command /\ InOrder(c, command[c]) /\ TruthKept(c, command[c])
      /\ IndexInv /\ SentCall(c, call) /\ tx[<<c, call>>] \in {"held", "sent"}
      /\ UNCHANGED command
  BY OfCommand DEF Mine, Decide, SentCall
<1>2. /\ allowance \in Nat /\ group \in Seq(Commands) /\ Len(group) \in Nat /\ Stake \in Nat
      /\ StakeOfBet(c) \in Nat /\ StakeOfBet(c) = Stake * command[c].fills
      /\ command[c].fills \in Nat /\ command[c].does = KindOf[call]
  BY <1>1, IndexerConstants DEF TraderInv, TraderType, StakeOfBet, Command, InOrder
<1>3. /\ Len(bets) \in Nat
      /\ UNCHANGED indexerVars => IndexInv' /\ BetsAdvance
  <2>1. Len(bets) \in Nat
    BY <1>1 DEF IndexInv
  <2>2. UNCHANGED indexerVars => IndexInv'
    BY <1>1 DEF IndexInv, indexerVars
  <2>3. UNCHANGED indexerVars => BetsAdvance
    BY <2>1 DEF BetsAdvance, indexerVars
  <2>. QED  BY <2>1, <2>2, <2>3
<1>4. UNCHANGED group => \A d \in Commands : Struck(d)' <=> Struck(d)
  BY DEF Struck
<1>5. ASSUME NEW to \in {"sent", "expired", "reverted", "mined"},
             tx' = [tx EXCEPT ![<<c, call>>] = to],
             to = "mined" => call \in {"approve", "faucet"},
             UNCHANGED <<group, indexerVars>>,
             \/ UNCHANGED allowance
             \/ to = "mined" /\ call = "approve" /\ allowance' = StakeOfBet(c)
      PROVE  TraderInv'
  <2>1. allowance' \in Nat /\ group' \in Seq(Commands)
    BY <1>2, <1>5
  <2>2. allowance' + Stake * Len(group')
            <= allowance + Stake * Len(group)
                  + IF call = "approve" /\ to = "mined" THEN StakeOfBet(c) ELSE 0
    <3>. DEFINE used == Stake * Len(group)
    <3>1. used \in Nat /\ Stake * Len(group') = used
      BY <1>2, <1>5
    <3>. HIDE DEF used
    <3>2. allowance' + used
              <= allowance + used
                    + IF call = "approve" /\ to = "mined" THEN StakeOfBet(c) ELSE 0
      BY <1>2, <1>5, <3>1, SMTT(30)
    <3>. QED  BY <3>1, <3>2 DEF used
  <2>. QED  BY <1>1, <1>3, <1>4, <1>5, <2>1, <2>2, CallSettles
<1>6. CASE Decide(c, call)
  <2>1. PICK to \in {"sent", "expired"} : tx' = [tx EXCEPT ![<<c, call>>] = to]
    BY <1>6 DEF Decide
  <2>. QED  BY <1>5, <1>6, <2>1 DEF Decide
<1>7. CASE Mine(c, call) /\ Reverts(c, call)
  BY <1>5, <1>7 DEF Mine
<1>8. CASE Mine(c, call) /\ ~Reverts(c, call) /\ call \in {"approve", "faucet"}
  BY <1>5, <1>8 DEF Mine, Approval
<1>9. CASE Mine(c, call) /\ ~Reverts(c, call) /\ call = "placeBet"
  <2>. DEFINE n == command[c].fills
  <2>1. /\ PlaceFills(command[c].market, command[c].side, n)
        /\ allowance' = allowance - StakeOfBet(c) /\ ~(allowance < StakeOfBet(c))
        /\ group' = group \o [i \in 1..n |-> c]
        /\ tx' = [tx EXCEPT ![<<c, call>>] = "mined"]
    BY <1>9 DEF Mine, Reverts
  <2>2. /\ command[c].market \in Markets /\ command[c].side \in BetSides /\ n \in Nat /\ n > 0
    BY <1>1, <1>2, <1>9 DEF InOrder, KindOf
  <2>3. IndexInv' /\ BetsAdvance
    BY <1>1, <2>1, <2>2, PlaceFillsKeeps
  <2>4. /\ group' \in Seq(Commands) /\ Len(group') = Len(group) + n
        /\ Struck(c)' /\ \A d \in Commands \ {c} : Struck(d)' <=> Struck(d)
    BY <1>2, <2>1, <2>2, GroupGrows
  <2>5. allowance' \in Nat
    BY <1>2, <2>1, SMTT(30)
  <2>6. allowance' + Stake * Len(group')
            <= allowance + Stake * Len(group)
                  + IF call = "approve" /\ "mined" = "mined" THEN StakeOfBet(c) ELSE 0
    <3>. DEFINE used == Stake * Len(group)
                price == Stake * n
    <3>1. used \in Nat /\ price \in Nat /\ Stake * Len(group') = used + price
      BY <1>2, <2>2, <2>4
    <3>2. StakeOfBet(c) = price
      BY <1>2
    <3>. HIDE DEF used, price
    <3>3. allowance' + (used + price) <= allowance + used + 0
      BY <1>2, <2>1, <3>1, <3>2
    <3>. QED  BY <1>9, <3>1, <3>3 DEF used
  <2>. QED  BY <1>1, <1>9, <2>1, <2>3, <2>4, <2>5, <2>6, CallSettles
<1>10. CASE Mine(c, call) /\ ~Reverts(c, call) /\ call = "claim"
  <2>1. /\ ClaimBets(command[c].ids) /\ UNCHANGED <<allowance, group>>
        /\ tx' = [tx EXCEPT ![<<c, call>>] = "mined"]
    BY <1>10 DEF Mine
  <2>2. command[c].ids \subseteq DOMAIN bets /\ \A id \in command[c].ids : Collectable(id)
    BY <1>1, <1>2, <1>10 DEF TruthKept, KindOf
  <2>3. IndexInv' /\ BetsAdvance /\ \A id \in command[c].ids : bets'[id].claimed
    BY <1>1, <2>1, <2>2, ClaimKeeps
  <2>4. allowance' + Stake * Len(group')
            <= allowance + Stake * Len(group)
                  + IF call = "approve" /\ "mined" = "mined" THEN StakeOfBet(c) ELSE 0
    <3>. DEFINE used == Stake * Len(group)
    <3>1. used \in Nat /\ Stake * Len(group') = used
      BY <1>2, <2>1
    <3>. HIDE DEF used
    <3>2. allowance' + used <= allowance + used + 0
      BY <1>2, <2>1, <3>1
    <3>. QED  BY <1>10, <3>1, <3>2 DEF used
  <2>. QED  BY <1>1, <1>2, <1>4, <1>10, <2>1, <2>3, <2>4, CallSettles
<1>. QED  BY <1>6, <1>7, <1>8, <1>9, <1>10 DEF Calls

\* One step of a trader's commands and their transactions.
LEMMA TraderStepKeeps ==
    ASSUME TraderInv, TraderStep
    PROVE  TraderInv'
<1>1. PICK c \in Commands :
         \/ \E m \in Markets, s \in BetSides, n \in Splits : BeginBet(c, m, s, n)
         \/ Allow(c) \/ PriceBet(c)
         \/ BeginCollect(c) \/ Refresh(c) \/ ReadOwed(c)
         \/ BeginFaucet(c)
         \/ Estimate(c) \/ Execute(c) \/ Receipt(c)
         \/ \E call \in Calls : Mine(c, call) \/ Decide(c, call)
  BY DEF TraderStep, Calls
<1>2. CASE \/ \E m \in Markets, s \in BetSides, n \in Splits : BeginBet(c, m, s, n)
           \/ BeginCollect(c) \/ BeginFaucet(c)
  BY <1>2, BeginKeeps
<1>3. CASE Allow(c)
  BY <1>3, AllowKeeps
<1>4. CASE PriceBet(c)
  BY <1>4, PriceKeeps
<1>5. CASE Refresh(c) \/ ReadOwed(c)
  BY <1>5, LooksKeep
<1>6. CASE Estimate(c)
  BY <1>6, EstimateKeeps
<1>7. CASE Execute(c)
  BY <1>7, ExecuteKeeps
<1>8. CASE Receipt(c)
  BY <1>8, ReceiptKeeps
<1>9. CASE \E call \in Calls : Mine(c, call) \/ Decide(c, call)
  BY <1>9, TransactionKeeps
<1>. QED  BY <1>1, <1>2, <1>3, <1>4, <1>5, <1>6, <1>7, <1>8, <1>9

\* The chain settles bets, and the indexer catches up, around a trader.
LEMMA TraderWaits ==
    ASSUME TraderInv, IndexInv', BetsAdvance, UNCHANGED traderVars
    PROVE  TraderInv'
<1>1. UNCHANGED <<allowance, group, command, tx>>
  BY DEF traderVars
<1>2. TraderType'
  BY <1>1 DEF TraderInv, TraderType
<1>3. ASSUME NEW c \in Commands
      PROVE  InOrder(c, command[c])' /\ TruthKept(c, command[c])'
  <2>1. CallsStay(c)
    BY <1>1 DEF CallsStay, SentCall, Struck
  <2>. QED  BY <1>1, <2>1, OfCommand, StaysTrue
<1>4. SpendingCovered'
  <2>1. \A c \in Commands : AllowedFor(c)' = AllowedFor(c)
    BY <1>1 DEF AllowedFor, MinedCall, SentCall, StakeOfBet
  <2>2. [c \in Commands |-> AllowedFor(c)]' = [c \in Commands |-> AllowedFor(c)]
    BY <2>1
  <2>. QED  BY <1>1, <2>2 DEF SpendingCovered, TraderInv
<1>. QED  BY <1>2, <1>3, <1>4 DEF TraderInv

\* A trader was told the truth.
LEMMA TraderTellsTruth == TraderInv => ToldTruly
<1>. SUFFICES ASSUME TraderInv, NEW c \in Commands
              PROVE  /\ command[c].does = "bet" /\ command[c].told = "done" => Struck(c)
                     /\ command[c].does = "bet" /\ command[c].told \in {"not_sent", "reverted"} =>
                           ~Struck(c) /\ ~Pending(c, "placeBet")
                     /\ command[c].does = "collect" /\ command[c].told = "done" =>
                           \A id \in command[c].ids : bets[id].claimed
  BY DEF ToldTruly
<1>1. TruthKept(c, command[c])
  BY OfCommand
<1>2. ASSUME command[c].does = "bet", command[c].told \in {"not_sent", "reverted"}
      PROVE  ~Struck(c) /\ ~Pending(c, "placeBet")
  <2>1. SentCall(c, "placeBet") => tx[<<c, "placeBet">>] = "reverted"
    BY <1>1, <1>2 DEF TruthKept
  <2>. QED  BY <1>1, <2>1 DEF TruthKept, MinedCall, Pending, SentCall
<1>. QED  BY <1>1, <1>2 DEF TruthKept

\* A trader spends, and may spend, no more than was asked.
LEMMA TraderSpendsAsAsked == TraderInv => SpentAsAsked
<1>. SUFFICES ASSUME TraderInv PROVE SpentAsAsked
  OBVIOUS
<1>. DEFINE f == [c \in Commands |-> AllowedFor(c)]
            g == [c \in Commands |-> IF command[c].does = "bet" THEN StakeOfBet(c) ELSE 0]
<1>1. f \in [1..MaxCommands -> Nat] /\ MaxCommands \in Nat /\ Commands = 1..MaxCommands
  BY AllowedType
<1>2. ASSUME NEW c \in Commands
      PROVE  g[c] \in Nat /\ f[c] <= g[c]
  <2>1. StakeOfBet(c) \in Nat
    BY OfCommand, IndexerConstants DEF StakeOfBet, Command
  <2>2. MinedCall(c, "approve") => command[c].does = "bet"
    BY OfCommand DEF MinedCall, InOrder, Calls, KindOf
  <2>. QED  BY <2>1, <2>2 DEF AllowedFor
<1>3. g \in [1..MaxCommands -> Nat] /\ \A c \in 1..MaxCommands : f[c] <= g[c]
  BY <1>1, <1>2
<1>4. allowance + Stake * Len(group) <= SumTo(f, MaxCommands)
  BY DEF TraderInv, SpendingCovered
<1>5. /\ SumTo(f, MaxCommands) <= SumTo(g, MaxCommands)
      /\ SumTo(f, MaxCommands) \in Nat /\ SumTo(g, MaxCommands) \in Nat
  <2>. HIDE DEF f, g
  <2>. QED  BY <1>1, <1>3, TotalOfLess, TotalOfAmounts
<1>6. allowance \in Nat /\ Stake * Len(group) \in Nat
  <2>1. Stake \in Nat /\ Len(group) \in Nat /\ allowance \in Nat
    BY IndexerConstants DEF TraderInv, TraderType
  <2>. QED  BY <2>1
<1>. DEFINE used == Stake * Len(group)
            lent == SumTo(f, MaxCommands)
            asked == SumTo(g, MaxCommands)
<1>. HIDE DEF used, lent, asked
<1>7. allowance + used <= asked
  BY <1>4, <1>5, <1>6 DEF used, lent, asked
<1>. QED  BY <1>7 DEF SpentAsAsked, used, asked

-----------------------------------------------------------------------------
(* The sponsor *)

\* What is promised to an address, and its targets, are numbers.
LEMMA PromisedType ==
    /\ \A req \in Request : \A a, p : Promised(req, a, p) \in Nat
    /\ \A p \in Purposes : Target[p] \in Nat /\ Floor[p] \in Nat /\ Floor[p] <= Target[p]
    /\ "fan" \in Purposes /\ "agent" \in Purposes /\ Both \in Nat
BY GasConstants DEF Promised, Request, Purposes, Both

\* A request that moves on: it is for whom it was, or alone in asking, and what
\* it now promises fits beside what any other does.
LEMMA RequestMoves ==
    ASSUME GasInv, NEW r \in Requests, NEW req \in Request,
           requests' = [requests EXCEPT ![r] = req], UNCHANGED balance,
           req.step \notin {"none", "over"} => req.address \in Addresses /\ req.purpose \in Purposes,
           \A a \in Addresses, p \in Purposes : Underway(req, a, p) =>
               Underway(requests[r], a, p) \/ \A q \in Requests : ~Underway(requests[q], a, p),
           \A a \in Addresses, p \in Purposes : Promised(req, a, p) <= Target[p],
           \A a \in Addresses :
               /\ balance[a] + Promised(req, a, "fan") + Promised(req, a, "agent") <= Both
               /\ \A q \in Requests \ {r} :
                     /\ balance[a] + Promised(req, a, "fan")
                            + Promised(requests[q], a, "agent") <= Both
                     /\ balance[a] + Promised(requests[q], a, "fan")
                            + Promised(req, a, "agent") <= Both
    PROVE  GasInv'
<1>1. requests \in [Requests -> Request] /\ balance \in [Addresses -> Nat]
  BY DEF GasInv
<1>2. /\ requests' \in [Requests -> Request] /\ requests'[r] = req
      /\ \A q \in Requests : q # r => requests'[q] = requests[q]
  BY <1>1
<1>3. (\A q \in Requests : requests[q].step \notin {"none", "over"} =>
           requests[q].address \in Addresses /\ requests[q].purpose \in Purposes)'
  BY <1>2 DEF GasInv
<1>4. ASSUME NEW q \in Requests, NEW k \in Requests, NEW a \in Addresses, NEW p \in Purposes,
             Underway(requests'[q], a, p), Underway(requests'[k], a, p)
      PROVE  q = k
  <2>1. \A i, j \in Requests : Underway(requests[i], a, p) /\ Underway(requests[j], a, p) => i = j
    BY DEF GasInv
  <2>. QED  BY <1>2, <1>4, <2>1
<1>5. \A q \in Requests, a \in Addresses, p \in Purposes : Promised(requests'[q], a, p) <= Target[p]
  BY <1>2 DEF GasInv
<1>6. ASSUME NEW q \in Requests, NEW k \in Requests, NEW a \in Addresses
      PROVE  balance[a] + Promised(requests'[q], a, "fan")
                + Promised(requests'[k], a, "agent") <= Both
  <2>1. balance[a] + Promised(requests[q], a, "fan") + Promised(requests[k], a, "agent") <= Both
    BY DEF GasInv
  <2>. QED  BY <1>2, <2>1
<1>7. \A a \in Addresses : balance[a] <= Both
  BY DEF GasInv
<1>8. UNCHANGED <<Both, Target>>
  BY DEF Both
<1>. QED  BY <1>1, <1>2, <1>3, <1>4, <1>5, <1>6, <1>7, <1>8 DEF GasInv

\* A request that promises no more than it did.
LEMMA RequestGoesOn ==
    ASSUME GasInv, NEW r \in Requests, NEW req \in Request,
           requests' = [requests EXCEPT ![r] = req], UNCHANGED balance,
           requests[r].step \notin {"none", "over"},
           req.address = requests[r].address, req.purpose = requests[r].purpose,
           \A a \in Addresses, p \in Purposes :
               Promised(req, a, p) <= Promised(requests[r], a, p)
    PROVE  GasInv'
<1>1. /\ requests \in [Requests -> Request] /\ balance \in [Addresses -> Nat]
      /\ requests[r].address \in Addresses /\ requests[r].purpose \in Purposes
      /\ \A a \in Addresses, p \in Purposes : Promised(requests[r], a, p) <= Target[p]
  BY DEF GasInv
<1>2. \A a \in Addresses, p \in Purposes : Underway(req, a, p) => Underway(requests[r], a, p)
  BY DEF Underway
<1>3. \A a \in Addresses, p \in Purposes :
         Promised(req, a, p) \in Nat /\ Promised(requests[r], a, p) \in Nat /\ Target[p] \in Nat
  BY <1>1, PromisedType
<1>4. \A a \in Addresses, p \in Purposes : Promised(req, a, p) <= Target[p]
  BY <1>1, <1>3
<1>5. ASSUME NEW a \in Addresses, NEW q \in Requests
      PROVE  /\ balance[a] + Promised(req, a, "fan") + Promised(req, a, "agent") <= Both
             /\ balance[a] + Promised(req, a, "fan") + Promised(requests[q], a, "agent") <= Both
             /\ balance[a] + Promised(requests[q], a, "fan") + Promised(req, a, "agent") <= Both
  <2>1. /\ balance[a] + Promised(requests[r], a, "fan")
               + Promised(requests[r], a, "agent") <= Both
        /\ balance[a] + Promised(requests[r], a, "fan")
               + Promised(requests[q], a, "agent") <= Both
        /\ balance[a] + Promised(requests[q], a, "fan")
               + Promised(requests[r], a, "agent") <= Both
    BY DEF GasInv
  <2>2. /\ balance[a] \in Nat /\ Both \in Nat
        /\ Promised(requests[q], a, "fan") \in Nat /\ Promised(requests[q], a, "agent") \in Nat
        /\ Promised(requests[r], a, "fan") \in Nat /\ Promised(requests[r], a, "agent") \in Nat
        /\ Promised(req, a, "fan") \in Nat /\ Promised(req, a, "agent") \in Nat
        /\ Promised(req, a, "fan") <= Promised(requests[r], a, "fan")
        /\ Promised(req, a, "agent") <= Promised(requests[r], a, "agent")
    BY <1>1, <1>3, PromisedType
  <2>. QED  BY <2>1, <2>2
<1>6. req.address \in Addresses /\ req.purpose \in Purposes
  BY <1>1
<1>7. \A a \in Addresses :
         /\ balance[a] + Promised(req, a, "fan") + Promised(req, a, "agent") <= Both
         /\ \A q \in Requests \ {r} :
               /\ balance[a] + Promised(req, a, "fan") + Promised(requests[q], a, "agent") <= Both
               /\ balance[a] + Promised(requests[q], a, "fan") + Promised(req, a, "agent") <= Both
  BY <1>5
<1>8. \A a \in Addresses, p \in Purposes : Underway(req, a, p) =>
          Underway(requests[r], a, p) \/ \A q \in Requests : ~Underway(requests[q], a, p)
  BY <1>2
<1>. QED  BY <1>4, <1>6, <1>7, <1>8, RequestMoves

\* One request's step, or the use of some MON.
LEMMA GasStepKeeps ==
    ASSUME GasInv, GasStep
    PROVE  GasInv'
<1>1. /\ requests \in [Requests -> Request] /\ balance \in [Addresses -> Nat]
      /\ \A r \in Requests, a \in Addresses, p \in Purposes :
            Promised(requests[r], a, p) <= Target[p]
      /\ \A a \in Addresses : balance[a] <= Both
      /\ \A r, q \in Requests, a \in Addresses :
            balance[a] + Promised(requests[r], a, "fan")
                + Promised(requests[q], a, "agent") <= Both
  BY DEF GasInv
<1>2. \A r \in Requests : requests[r].step \notin {"none", "over"} =>
         requests[r].address \in Addresses /\ requests[r].purpose \in Purposes
  BY DEF GasInv
<1>3. \A r, q \in Requests, a \in Addresses, p \in Purposes :
         Underway(requests[r], a, p) /\ Underway(requests[q], a, p) => r = q
  BY DEF GasInv
<1>4. ASSUME NEW r \in Requests, NEW step \in {"over", "cover", "sent", "settling"},
             NEW new \in BOOLEAN, requests[r].step \notin {"none", "over"},
             step \in {"cover", "sent"} => requests[r].step \in {"check", "cover"},
             \/ requests' = [requests EXCEPT ![r].step = step]
             \/ requests' = [requests EXCEPT ![r].step = step, ![r].new = new],
             UNCHANGED balance
      PROVE  GasInv'
  <2>. DEFINE req1 == [requests[r] EXCEPT !.step = step]
              req2 == [requests[r] EXCEPT !.step = step, !.new = new]
  <2>1. ASSUME NEW req \in {req1, req2}
        PROVE  /\ req \in Request /\ req.step = step /\ req.amount = requests[r].amount
               /\ req.address = requests[r].address /\ req.purpose = requests[r].purpose
    <3>1. requests[r] \in Request
      BY <1>1
    <3>2. CASE new = TRUE
      BY <3>1, <3>2 DEF Request
    <3>3. CASE new = FALSE
      BY <3>1, <3>3 DEF Request
    <3>. QED  BY <3>2, <3>3
  <2>2. PICK req \in {req1, req2} : requests' = [requests EXCEPT ![r] = req]
    BY <1>1, <1>4
  <2>. HIDE DEF req1, req2
  <2>3. requests[r].amount \in Nat
    BY <1>1 DEF Request
  <2>4. \A a \in Addresses, p \in Purposes :
           Promised(req, a, p) <= Promised(requests[r], a, p)
    BY <1>4, <2>1, <2>3 DEF Promised
  <2>. QED  BY <1>4, <2>1, <2>2, <2>4, RequestGoesOn
<1>5. ASSUME NEW r \in Requests, NEW a \in Addresses, NEW p \in Purposes, Ask(r, a, p)
      PROVE  GasInv'
  <2>. DEFINE req == [NotAsked EXCEPT !.step = "asked", !.address = a, !.purpose = p]
  <2>1. requests' = [requests EXCEPT ![r] = req] /\ UNCHANGED balance
    BY <1>5 DEF Ask
  <2>2. req \in Request /\ req.step = "asked" /\ req.address = a /\ req.purpose = p
    <3>1. NotAsked \in Request
      BY DEF NotAsked, Request
    <3>. QED  BY <3>1 DEF Request
  <2>. HIDE DEF req
  <2>3. \A b \in Addresses, k \in Purposes : Promised(req, b, k) = 0
    BY <2>2 DEF Promised
  <2>4. \A b \in Addresses, k \in Purposes : Underway(req, b, k) =>
            \A q \in Requests : ~Underway(requests[q], b, k)
    BY <1>5, <2>2 DEF Ask, InFlight, Underway
  <2>5. req.address \in Addresses /\ req.purpose \in Purposes
    BY <2>2
  <2>6. \A b \in Addresses, k \in Purposes : Promised(req, b, k) <= Target[k]
    BY <2>3, PromisedType
  <2>7. ASSUME NEW b \in Addresses, NEW q \in Requests
        PROVE  /\ balance[b] + Promised(req, b, "fan") + Promised(req, b, "agent") <= Both
               /\ balance[b] + Promised(req, b, "fan") + Promised(requests[q], b, "agent") <= Both
               /\ balance[b] + Promised(requests[q], b, "fan") + Promised(req, b, "agent") <= Both
    <3>1. /\ Promised(req, b, "fan") = 0 /\ Promised(req, b, "agent") = 0
          /\ Promised(requests[q], b, "fan") \in Nat /\ Promised(requests[q], b, "agent") \in Nat
          /\ balance[b] \in Nat /\ Both \in Nat
      BY <1>1, <2>3, PromisedType
    <3>2. balance[b] + Promised(requests[q], b, "fan") + Promised(requests[q], b, "agent") <= Both
      BY <1>1
    <3>. QED  BY <3>1, <3>2
  <2>8. \A b \in Addresses :
           /\ balance[b] + Promised(req, b, "fan") + Promised(req, b, "agent") <= Both
           /\ \A q \in Requests \ {r} :
                 /\ balance[b] + Promised(req, b, "fan") + Promised(requests[q], b, "agent") <= Both
                 /\ balance[b] + Promised(requests[q], b, "fan") + Promised(req, b, "agent") <= Both
    BY <2>7
  <2>. QED  BY <2>1, <2>2, <2>4, <2>5, <2>6, <2>8, RequestMoves
<1>6. ASSUME NEW r \in Requests, ReadBalance(r) PROVE GasInv'
  <2>. DEFINE a == requests[r].address
              p == requests[r].purpose
              req == [requests[r] EXCEPT !.step = "check", !.amount = Target[p] - balance[a]]
  <2>1. a \in Addresses /\ p \in Purposes /\ requests[r].step = "asked" /\ UNCHANGED balance
    BY <1>2, <1>6 DEF ReadBalance
  <2>2. CASE balance[a] >= Floor[p]
    <3>1. requests' = [requests EXCEPT ![r].step = "over"]
      BY <1>6, <2>2 DEF ReadBalance, Over, Goes
    <3>. QED  BY <1>4, <2>1, <3>1
  <2>3. CASE ~(balance[a] >= Floor[p])
    <3>1. requests' = [requests EXCEPT ![r] = req]
      BY <1>1, <1>6, <2>3 DEF ReadBalance
    <3>2. /\ Target[p] - balance[a] \in Nat /\ Target[p] \in Nat /\ balance[a] \in Nat
      BY <1>1, <2>1, <2>3, PromisedType
    <3>3. /\ req \in Request /\ req.step = "check" /\ req.address = a /\ req.purpose = p
          /\ req.amount = Target[p] - balance[a]
      BY <1>1, <3>2 DEF Request
    <3>. HIDE DEF req
    <3>4. \A b \in Addresses, k \in Purposes :
             Promised(req, b, k) = IF b = a /\ k = p THEN Target[p] - balance[a] ELSE 0
      BY <3>3 DEF Promised
    <3>5. \A b \in Addresses, k \in Purposes : Promised(req, b, k) <= Target[k]
      BY <3>2, <3>4, PromisedType
    <3>6. \A b \in Addresses, k \in Purposes : Underway(req, b, k) => Underway(requests[r], b, k)
      BY <2>1, <3>3 DEF Underway
    <3>7. ASSUME NEW b \in Addresses, NEW q \in Requests
          PROVE  /\ balance[b] + Promised(req, b, "fan") + Promised(req, b, "agent") <= Both
                 /\ balance[b] + Promised(req, b, "fan") + Promised(requests[q], b, "agent") <= Both
                 /\ balance[b] + Promised(requests[q], b, "fan") + Promised(req, b, "agent") <= Both
      <4>1. /\ Promised(requests[q], b, "fan") \in Nat /\ Promised(requests[q], b, "agent") \in Nat
            /\ balance[b] \in Nat /\ Both = Target["fan"] + Target["agent"]
            /\ Target["fan"] \in Nat /\ Target["agent"] \in Nat
            /\ Promised(requests[q], b, "fan") <= Target["fan"]
            /\ Promised(requests[q], b, "agent") <= Target["agent"]
            /\ balance[b] + Promised(requests[q], b, "fan")
                  + Promised(requests[q], b, "agent") <= Both
        BY <1>1, PromisedType DEF Both
      <4>2. CASE b = a /\ p = "fan"
        <5>1. /\ Promised(req, b, "fan") = Target["fan"] - balance[b]
              /\ Promised(req, b, "agent") = 0
          BY <3>4, <4>2, PromisedType
        <5>. QED  BY <4>1, <5>1
      <4>3. CASE b = a /\ p = "agent"
        <5>1. /\ Promised(req, b, "fan") = 0
              /\ Promised(req, b, "agent") = Target["agent"] - balance[b]
          BY <3>4, <4>3, PromisedType
        <5>. QED  BY <4>1, <5>1
      <4>4. CASE b # a
        <5>1. Promised(req, b, "fan") = 0 /\ Promised(req, b, "agent") = 0
          BY <3>4, <4>4, PromisedType
        <5>. QED  BY <4>1, <5>1
      <4>. QED  BY <2>1, <4>2, <4>3, <4>4 DEF Purposes
    <3>8. \A b \in Addresses :
             /\ balance[b] + Promised(req, b, "fan") + Promised(req, b, "agent") <= Both
             /\ \A q \in Requests \ {r} :
                   /\ balance[b] + Promised(req, b, "fan")
                          + Promised(requests[q], b, "agent") <= Both
                   /\ balance[b] + Promised(requests[q], b, "fan")
                          + Promised(req, b, "agent") <= Both
      BY <3>7
    <3>9. \A b \in Addresses, k \in Purposes : Underway(req, b, k) =>
              Underway(requests[r], b, k) \/ \A q \in Requests : ~Underway(requests[q], b, k)
      BY <3>6
    <3>10. req.address \in Addresses /\ req.purpose \in Purposes
      BY <2>1, <3>3
    <3>. QED  BY <2>1, <3>1, <3>3, <3>5, <3>8, <3>9, <3>10, RequestMoves
  <2>. QED  BY <2>2, <2>3
<1>7. ASSUME NEW r \in Requests, CheckBudget(r) PROVE GasInv'
  <2>1. requests[r].step = "check" /\ UNCHANGED balance
    BY <1>7 DEF CheckBudget
  <2>2. \/ requests' = [requests EXCEPT ![r].step = "over"]
        \/ \E new \in BOOLEAN : requests' = [requests EXCEPT ![r].step = "cover", ![r].new = new]
    <3>. DEFINE new == requests[r].address \in fresh
    <3>1. new \in BOOLEAN
      OBVIOUS
    <3>2. \/ requests' = [requests EXCEPT ![r].step = "over"]
          \/ requests' = [requests EXCEPT ![r].step = "cover", ![r].new = new]
      BY <1>7 DEF CheckBudget, Over, Goes
    <3>. HIDE DEF new
    <3>. QED  BY <3>1, <3>2
  <2>. QED  BY <1>4, <2>1, <2>2
<1>8. ASSUME NEW r \in Requests, Record(r) PROVE GasInv'
  <2>1. /\ requests[r].step = "cover" /\ UNCHANGED balance
        /\ \E step \in {"over", "sent"} : requests' = [requests EXCEPT ![r].step = step]
    BY <1>8 DEF Record, Over, Goes
  <2>. QED  BY <1>4, <2>1
<1>9. ASSUME NEW r \in Requests, Transfer(r) PROVE GasInv'
  <2>. DEFINE a == requests[r].address
              p == requests[r].purpose
              got == requests[r].amount
              req == [requests[r] EXCEPT !.step = "settling"]
  <2>1. requests[r].step = "sent" /\ a \in Addresses /\ p \in Purposes /\ got \in Nat
    BY <1>1, <1>2, <1>9 DEF Transfer, Request
  <2>2. CASE sponsor < got
    BY <1>4, <1>9, <2>1, <2>2 DEF Transfer, Over, Goes
  <2>3. CASE ~(sponsor < got)
    <3>1. /\ requests' = [requests EXCEPT ![r].step = "settling"]
          /\ balance' = [balance EXCEPT ![a] = balance[a] + got]
      BY <1>9, <2>3 DEF Transfer, Goes
    <3>2. requests' = [requests EXCEPT ![r] = req] /\ req \in Request
      BY <1>1, <3>1 DEF Request
    <3>3. req.step = "settling" /\ req.address = a /\ req.purpose = p
      BY <1>1 DEF Request
    <3>. HIDE DEF req
    <3>4. /\ requests' \in [Requests -> Request] /\ requests'[r] = req
          /\ \A q \in Requests : q # r => requests'[q] = requests[q]
      BY <1>1, <3>2
    <3>5. /\ balance' \in [Addresses -> Nat] /\ balance'[a] = balance[a] + got
          /\ \A b \in Addresses : b # a => balance'[b] = balance[b]
      BY <1>1, <2>1, <3>1
    <3>6. \A b, k : Promised(req, b, k) = 0
      BY <3>3 DEF Promised
    <3>7. Promised(requests[r], a, p) = got /\ Underway(requests[r], a, p)
      BY <2>1 DEF Promised, Underway
    <3>8. \A q \in Requests : q # r => Promised(requests[q], a, p) = 0
      <4>1. \A q \in Requests : q # r => ~Underway(requests[q], a, p)
        BY <1>3, <2>1, <3>7
      <4>. QED  BY <4>1 DEF Underway, Promised
    <3>9. (\A q \in Requests : requests[q].step \notin {"none", "over"} =>
              requests[q].address \in Addresses /\ requests[q].purpose \in Purposes)'
      BY <1>2, <2>1, <3>3, <3>4
    <3>10. (\A q, k \in Requests, b \in Addresses, s \in Purposes :
              Underway(requests[q], b, s) /\ Underway(requests[k], b, s) => q = k)'
      <4>1. \A b, s : Underway(req, b, s) => Underway(requests[r], b, s)
        BY <2>1, <3>3 DEF Underway
      <4>2. \A q \in Requests : \A b, s : Underway(requests'[q], b, s) => Underway(requests[q], b, s)
        BY <3>4, <4>1
      <4>. QED  BY <1>3, <4>2
    <3>11. (\A q \in Requests, b \in Addresses, s \in Purposes :
               Promised(requests[q], b, s) <= Target[s])'
      <4>1. \A q \in Requests, b \in Addresses, s \in Purposes :
               Promised(requests'[q], b, s) <= Target[s]
        BY <1>1, <3>4, <3>6, PromisedType
      <4>. QED  BY <4>1
    <3>12. ASSUME NEW q \in Requests, NEW k \in Requests, NEW b \in Addresses
           PROVE  balance'[b] + Promised(requests'[q], b, "fan")
                      + Promised(requests'[k], b, "agent") <= Both
      <4>. DEFINE Fan(i) == Promised(requests[i], b, "fan")
                  Agent(i) == Promised(requests[i], b, "agent")
                  fan == Promised(requests'[q], b, "fan")
                  agent == Promised(requests'[k], b, "agent")
      <4>1. /\ \A i \in Requests : Fan(i) \in Nat /\ Agent(i) \in Nat
            /\ balance[b] \in Nat /\ Both \in Nat
        BY <1>1, PromisedType
      <4>2. \A i, j \in Requests : balance[b] + Fan(i) + Agent(j) <= Both
        BY <1>1
      <4>3. /\ fan = (IF q = r THEN 0 ELSE Fan(q))
            /\ agent = (IF k = r THEN 0 ELSE Agent(k))
        BY <3>4, <3>6
      <4>4. b = a => /\ p = "fan" => Fan(r) = got /\ fan = 0
                     /\ p = "agent" => Agent(r) = got /\ agent = 0
        BY <3>7, <3>8, <4>3
      <4>5. b = a => balance'[b] = balance[b] + got
        BY <3>5
      <4>6. b # a => balance'[b] = balance[b]
        BY <3>5
      <4>. HIDE DEF Fan, Agent, fan, agent
      <4>7. CASE b # a
        BY <4>1, <4>2, <4>3, <4>6, <4>7 DEF fan, agent
      <4>8. CASE b = a /\ p = "fan"
        <5>1. balance[b] + got + Agent(k) <= Both
          BY <4>2, <4>4, <4>8
        <5>2. agent \in Nat /\ agent <= Agent(k) /\ fan = 0
          BY <4>1, <4>3, <4>4, <4>8
        <5>. QED  BY <2>1, <4>1, <4>5, <4>8, <5>1, <5>2 DEF fan, agent
      <4>9. CASE b = a /\ p = "agent"
        <5>1. balance[b] + Fan(q) + got <= Both
          BY <4>2, <4>4, <4>9
        <5>2. fan \in Nat /\ fan <= Fan(q) /\ agent = 0
          BY <4>1, <4>3, <4>4, <4>9
        <5>. QED  BY <2>1, <4>1, <4>5, <4>9, <5>1, <5>2 DEF fan, agent
      <4>. QED  BY <2>1, <4>7, <4>8, <4>9 DEF Purposes
    <3>13. \A b \in Addresses : balance'[b] <= Both
      <4>1. ASSUME NEW b \in Addresses PROVE balance'[b] <= Both
        <5>1. balance'[b] + Promised(requests'[r], b, "fan")
                 + Promised(requests'[r], b, "agent") <= Both
          BY <3>12
        <5>2. balance'[b] \in Nat /\ Both \in Nat
          BY <3>5, PromisedType
        <5>. QED  BY <3>4, <3>6, <5>1, <5>2
      <4>. QED  BY <4>1
    <3>14. UNCHANGED Both
      BY DEF Both
    <3>. QED  BY <3>4, <3>5, <3>9, <3>10, <3>11, <3>12, <3>13, <3>14 DEF GasInv
  <2>. QED  BY <2>2, <2>3
<1>10. ASSUME NEW r \in Requests, Answer(r) PROVE GasInv'
  <2>1. /\ requests[r].step = "settling" /\ UNCHANGED balance
        /\ requests' = [requests EXCEPT ![r].step = "over"]
    BY <1>10 DEF Answer, Over, Goes
  <2>. QED  BY <1>4, <2>1
<1>11. ASSUME NEW a \in Addresses, Spend(a) PROVE GasInv'
  <2>1. PICK left \in {0, balance[a] \div 2} : balance' = [balance EXCEPT ![a] = left]
    BY <1>11 DEF Spend
  <2>2. UNCHANGED requests
    BY <1>11 DEF Spend
  <2>3. left \in Nat /\ left <= balance[a] /\ balance[a] \in Nat
    <3>1. balance[a] \in Nat
      BY <1>1
    <3>. DEFINE had == balance[a]
    <3>. HIDE DEF had
    <3>2. had \in Nat => had \div 2 \in Nat /\ had \div 2 <= had
      OBVIOUS
    <3>. QED  BY <2>1, <3>1, <3>2 DEF had
  <2>4. /\ balance' \in [Addresses -> Nat]
        /\ \A b \in Addresses : balance'[b] <= balance[b]
    BY <1>1, <2>1, <2>3
  <2>5. ASSUME NEW b \in Addresses, NEW r \in Requests, NEW q \in Requests
        PROVE  balance'[b] + Promised(requests[r], b, "fan")
                  + Promised(requests[q], b, "agent") <= Both
    <3>1. balance[b] + Promised(requests[r], b, "fan") + Promised(requests[q], b, "agent") <= Both
      BY <1>1
    <3>2. /\ balance'[b] \in Nat /\ balance[b] \in Nat /\ Both \in Nat
          /\ Promised(requests[r], b, "fan") \in Nat /\ Promised(requests[q], b, "agent") \in Nat
      BY <1>1, <2>4, PromisedType
    <3>. QED  BY <2>4, <3>1, <3>2
  <2>6. \A b \in Addresses : balance'[b] <= Both
    <3>1. ASSUME NEW b \in Addresses PROVE balance'[b] <= Both
      <4>1. balance'[b] \in Nat /\ balance[b] \in Nat /\ Both \in Nat /\ balance[b] <= Both
        BY <1>1, <2>4, PromisedType
      <4>. QED  BY <2>4, <4>1
    <3>. QED  BY <3>1
  <2>7. UNCHANGED Both
    BY DEF Both
  <2>. QED  BY <1>1, <1>2, <1>3, <2>2, <2>4, <2>5, <2>6, <2>7 DEF GasInv
<1>. QED  BY <1>5, <1>6, <1>7, <1>8, <1>9, <1>10, <1>11 DEF GasStep

-----------------------------------------------------------------------------
(* The agent in its operator's page *)

\* A sweep has markets left that are, out of danger, among those there are.
RunFits(run) ==
    /\ run.todo \subseteq DOMAIN stage
    /\ run.todo \cap run.heated = {}
    /\ run.step \in {"budget", "post"} => run.todo # {}

\* A run, and nothing else, moves on.
LEMMA RunMoves ==
    ASSUME BrowserInv, NEW r, NEW run, r \in DOMAIN runs => run \in Run /\ RunFits(run),
           runs' = [runs EXCEPT ![r] = run], UNCHANGED <<stage, hot>>, rash' = {}
    PROVE  BrowserInv'
<1>1. runs \in Seq(Run) /\ stage \in Seq({"Open", "Suspended", "Closed"})
      /\ \A q \in DOMAIN runs : RunFits(runs[q])
  BY DEF BrowserInv, RunFits
<1>2. /\ runs' \in Seq(Run) /\ DOMAIN runs' = DOMAIN runs
      /\ \A q \in DOMAIN runs : runs'[q] = IF q = r THEN run ELSE runs[q]
  <2>1. DOMAIN runs = 1..Len(runs) /\ Len(runs) \in Nat
    BY <1>1
  <2>2. CASE r \in DOMAIN runs
    <3>1. /\ runs' \in Seq(Run) /\ Len(runs') = Len(runs)
          /\ \A q \in 1..Len(runs) : runs'[q] = IF q = r THEN run ELSE runs[q]
      BY <1>1, <2>1, <2>2, ExceptSeq
    <3>. QED  BY <2>1, <3>1
  <2>3. CASE r \notin DOMAIN runs
    <3>1. runs' = runs
      <4>1. runs = [q \in DOMAIN runs |-> runs[q]]
        BY <1>1
      <4>2. runs' = [q \in DOMAIN runs |-> runs[q]]
        BY <2>3
      <4>. QED  BY <4>1, <4>2
    <3>. QED  BY <1>1, <2>3, <3>1
  <2>. QED  BY <2>2, <2>3
<1>3. \A q \in DOMAIN runs' : RunFits(runs'[q])
  BY <1>1, <1>2
<1>. QED  BY <1>1, <1>2, <1>3 DEF BrowserInv, RunFits

\* The tail of a sweep leaves nothing to quote.
LEMMA SweepOverKeeps ==
    ASSUME BrowserInv, NEW r \in DOMAIN runs, NEW next \in Run, SweepOver(r, next),
           UNCHANGED <<stage, hot>>, rash' = {}
    PROVE  BrowserInv'
<1>. DEFINE step == IF next.running THEN "wait" ELSE "over"
            run == [next EXCEPT !.step = step, !.todo = {}, !.heated = {}]
<1>1. step \in {"wait", "over"}
  OBVIOUS
<1>2. runs' = [runs EXCEPT ![r] = run]
  BY DEF SweepOver
<1>. HIDE DEF step
<1>3. run \in Run /\ run.step = step /\ run.todo = {}
  BY <1>1 DEF Run
<1>. HIDE DEF run
<1>4. RunFits(run)
  BY <1>1, <1>3 DEF RunFits
<1>. QED  BY <1>2, <1>3, <1>4, RunMoves

\* A sweep looks around: what it goes on to quote is out of the danger it saw.
LEMMA LookAroundKeeps ==
    ASSUME BrowserInv, NEW r \in DOMAIN runs, LookAround(r)
    PROVE  BrowserInv'
<1>. DEFINE recent == {m \in DOMAIN stage : m + RecentMarkets > Len(stage)} \ runs[r].retired
            gone == {m \in recent : stage[m] = "Closed"}
            open == {m \in recent : stage[m] = "Open"}
            next(danger, heated) ==
               [runs[r] EXCEPT !.retired = runs[r].retired \cup gone, !.todo = open \ danger,
                               !.step = "budget", !.heated = heated]
<1>1. /\ runs[r] \in Run /\ stage \in Seq({"Open", "Suspended", "Closed"}) /\ rash = {}
      /\ hot \in SUBSET Nat /\ DOMAIN stage = 1..Len(stage) /\ Len(stage) \in Nat
  BY DEF BrowserInv
<1>2. open \subseteq DOMAIN stage /\ gone \subseteq Nat /\ DOMAIN stage \subseteq Nat
  BY <1>1
<1>. HIDE DEF recent, gone, open
<1>3. UNCHANGED <<stage, hot>>
  BY DEF LookAround
<1>4. ASSUME NEW danger, NEW heated \in SUBSET Nat, open \cap heated \subseteq danger,
             IF open \ danger = {} THEN SweepOver(r, next(danger, heated))
             ELSE GoesOn(r, next(danger, heated)),
             UNCHANGED rash
      PROVE  BrowserInv'
  <2>. DEFINE run == next(danger, heated)
  <2>1. runs[r].retired \cup gone \in SUBSET Nat /\ open \ danger \in SUBSET Nat
    BY <1>1, <1>2 DEF Run
  <2>2. /\ run \in Run /\ run.step = "budget" /\ run.todo = open \ danger
        /\ run.heated = heated
    BY <1>1, <2>1 DEF Run
  <2>3. SweepOver(r, run) \/ (open \ danger # {} /\ GoesOn(r, run))
    BY <1>4
  <2>4. rash' = {}
    BY <1>1, <1>4
  <2>. HIDE DEF run
  <2>5. CASE SweepOver(r, run)
    BY <1>3, <2>2, <2>4, <2>5, SweepOverKeeps
  <2>6. CASE open \ danger # {} /\ GoesOn(r, run)
    <3>1. RunFits(run)
      BY <1>2, <1>4, <2>2, <2>6 DEF RunFits
    <3>. QED  BY <1>3, <2>2, <2>4, <2>6, <3>1, RunMoves DEF GoesOn
  <2>. QED  BY <2>3, <2>5, <2>6
<1>5. CASE /\ IF open \ hot = {} THEN SweepOver(r, next(hot, hot)) ELSE GoesOn(r, next(hot, hot))
           /\ UNCHANGED rash
  BY <1>1, <1>4, <1>5
<1>6. CASE /\ IF open \ {} = {} THEN SweepOver(r, next({}, {})) ELSE GoesOn(r, next({}, {}))
           /\ UNCHANGED rash
  BY <1>4, <1>6
<1>7. CASE SweepThrows(r)
  <2>1. SweepOver(r, runs[r]) /\ rash' = {}
    BY <1>1, <1>7 DEF SweepThrows
  <2>. QED  BY <1>1, <1>3, <2>1, SweepOverKeeps
<1>. QED  BY <1>5, <1>6, <1>7 DEF LookAround, recent, gone, open

\* The market being quoted is one of those left.
LEMMA NextToQuote ==
    ASSUME BrowserInv, NEW r \in DOMAIN runs, runs[r].todo # {}
    PROVE  Max(runs[r].todo) \in runs[r].todo
<1>1. /\ stage \in Seq({"Open", "Suspended", "Closed"}) /\ Len(stage) \in Nat
      /\ runs[r].todo \subseteq DOMAIN stage /\ DOMAIN stage = 1..Len(stage)
  BY DEF BrowserInv
<1>2. runs[r].todo \in SUBSET Nat /\ \A m \in runs[r].todo : m <= Len(stage)
  BY <1>1
<1>. QED  BY <1>1, <1>2, LargestExists

\* The sweep goes on with the next market, if any is left.
LEMMA NextMarketKeeps ==
    ASSUME BrowserInv, NEW r \in DOMAIN runs, NextMarket(r),
           UNCHANGED <<stage, hot>>, rash' = {}
    PROVE  BrowserInv'
<1>. DEFINE todo == runs[r].todo \ {Max(runs[r].todo)}
            run == [runs[r] EXCEPT !.todo = todo, !.step = "budget"]
<1>1. /\ runs[r] \in Run /\ runs[r].todo \subseteq DOMAIN stage
      /\ runs[r].todo \cap runs[r].heated = {}
  BY DEF BrowserInv
<1>2. IF run.todo = {} THEN SweepOver(r, run) ELSE GoesOn(r, run)
  BY DEF NextMarket
<1>3. todo \subseteq runs[r].todo
  OBVIOUS
<1>. HIDE DEF todo
<1>4. /\ run \in Run /\ run.step = "budget" /\ run.todo = todo /\ run.heated = runs[r].heated
  <2>1. todo \in SUBSET Nat
    BY <1>1, <1>3 DEF Run
  <2>. QED  BY <1>1, <2>1 DEF Run
<1>. HIDE DEF run
<1>5. CASE todo = {}
  BY <1>2, <1>4, <1>5, SweepOverKeeps
<1>6. CASE todo # {}
  <2>1. RunFits(run)
    BY <1>1, <1>3, <1>4, <1>6 DEF RunFits
  <2>. QED  BY <1>2, <1>4, <1>6, <2>1, RunMoves DEF GoesOn
<1>. QED  BY <1>5, <1>6

\* A run that goes on with what it was to quote, and not to quoting, still fits.
LEMMA RunRests ==
    ASSUME BrowserInv, NEW r \in DOMAIN runs, NEW run \in Run,
           run.todo = runs[r].todo, run.heated = runs[r].heated,
           run.step \in {"budget", "post"} => runs[r].step \in {"budget", "post"},
           runs' = [runs EXCEPT ![r] = run], UNCHANGED <<stage, hot>>, rash' = {}
    PROVE  BrowserInv'
<1>1. RunFits(runs[r])
  BY DEF BrowserInv, RunFits
<1>2. RunFits(run)
  BY <1>1 DEF RunFits
<1>. QED  BY <1>2, RunMoves

\* A quote is signed of a market that was out of danger when the sweep looked.
LEMMA QuoteKeeps ==
    ASSUME BrowserInv, NEW r \in DOMAIN runs, Quote(r) \/ Post(r) \/ NextSweep(r)
    PROVE  BrowserInv'
<1>1. /\ runs[r] \in Run /\ rash = {} /\ runs[r].todo \cap runs[r].heated = {}
      /\ runs[r].step \in {"budget", "post"} => runs[r].todo # {}
      /\ UNCHANGED <<stage, hot>>
  BY DEF BrowserInv, Quote, Post, NextSweep
<1>2. CASE NextMarket(r) /\ UNCHANGED rash
  BY <1>1, <1>2, NextMarketKeeps
<1>3. CASE SweepOver(r, runs[r]) /\ UNCHANGED rash
  BY <1>1, <1>3, SweepOverKeeps
<1>4. CASE /\ runs[r].step = "budget"
           /\ rash' = rash \cup ({Max(runs[r].todo)} \cap runs[r].heated)
           /\ GoesOn(r, [runs[r] EXCEPT !.step = "post"])
  <2>. DEFINE run == [runs[r] EXCEPT !.step = "post"]
  <2>1. Max(runs[r].todo) \in runs[r].todo
    BY <1>1, <1>4, NextToQuote
  <2>2. rash' = {}
    BY <1>1, <1>4, <2>1
  <2>3. /\ run \in Run /\ run.todo = runs[r].todo /\ run.heated = runs[r].heated
    BY <1>1 DEF Run
  <2>4. runs' = [runs EXCEPT ![r] = run]
    BY <1>4 DEF GoesOn
  <2>. HIDE DEF run
  <2>. QED  BY <1>1, <1>4, <2>2, <2>3, <2>4, RunRests
<1>5. CASE NextSweep(r)
  <2>. DEFINE run == [runs[r] EXCEPT !.step = "look"]
  <2>1. /\ run \in Run /\ run.todo = runs[r].todo /\ run.heated = runs[r].heated
        /\ run.step = "look"
    BY <1>1 DEF Run
  <2>2. runs' = [runs EXCEPT ![r] = run] /\ rash' = {}
    BY <1>1, <1>5 DEF GoesOn, NextSweep
  <2>. HIDE DEF run
  <2>. QED  BY <1>1, <2>1, <2>2, RunRests
<1>. QED  BY <1>2, <1>3, <1>4, <1>5 DEF Quote, Post, SweepThrows

\* The page stops what it runs, or a key turns out not to be its agent's.
LEMMA StoppedKeeps ==
    ASSUME BrowserInv, NEW r, runs' = Stopped(r), UNCHANGED <<stage, hot, rash>>
    PROVE  BrowserInv'
<1>1. rash = {}
  BY DEF BrowserInv
<1>2. CASE r = 0
  <2>1. UNCHANGED runs
    BY <1>2 DEF Stopped
  <2>. QED  BY <2>1 DEF BrowserInv
<1>3. CASE r # 0
  <2>. DEFINE run == [runs[r] EXCEPT !.running = FALSE, !.key = FALSE,
                          !.step = IF runs[r].step = "wait" THEN "over" ELSE runs[r].step]
  <2>1. runs' = [runs EXCEPT ![r] = run]
    BY <1>3 DEF Stopped
  <2>2. CASE r \in DOMAIN runs
    <3>1. runs[r] \in Run
      BY <2>2 DEF BrowserInv
    <3>2. /\ run \in Run /\ run.todo = runs[r].todo /\ run.heated = runs[r].heated
          /\ run.step \in {"budget", "post"} => runs[r].step \in {"budget", "post"}
      BY <3>1 DEF Run
    <3>. HIDE DEF run
    <3>. QED  BY <1>1, <2>1, <2>2, <3>2, RunRests
  <2>3. CASE r \notin DOMAIN runs
    <3>. HIDE DEF run
    <3>. QED  BY <1>1, <2>1, <2>3, RunMoves
  <2>. QED  BY <2>2, <2>3
<1>. QED  BY <1>2, <1>3

\* CheckKey: the agent runs, or its key is zeroed, or nothing is done about it.
LEMMA CheckKeeps ==
    ASSUME BrowserInv, CheckKey
    PROVE  BrowserInv'
<1>. DEFINE r == Len(runs)
<1>1. UNCHANGED <<stage, hot, rash>> /\ rash = {}
  BY DEF BrowserInv, CheckKey
<1>2. CASE runs' = [runs EXCEPT ![r].running = TRUE, ![r].step = "look"]
  <2>. DEFINE run == [runs[r] EXCEPT !.running = TRUE, !.step = "look"]
  <2>1. runs' = [runs EXCEPT ![r] = run]
    BY <1>2
  <2>2. r \in DOMAIN runs => /\ run \in Run /\ run.todo = runs[r].todo
                             /\ run.heated = runs[r].heated /\ run.step = "look"
    <3>1. r \in DOMAIN runs => runs[r] \in Run
      BY DEF BrowserInv
    <3>. HIDE DEF r
    <3>. QED  BY <3>1 DEF Run
  <2>. HIDE DEF run, r
  <2>. QED  BY <1>1, <2>1, <2>2, RunRests, RunMoves
<1>3. CASE runs' = [runs EXCEPT ![r].key = FALSE]
  <2>. DEFINE run == [runs[r] EXCEPT !.key = FALSE]
  <2>1. runs' = [runs EXCEPT ![r] = run]
    BY <1>3
  <2>2. r \in DOMAIN runs => /\ run \in Run /\ run.todo = runs[r].todo
                             /\ run.heated = runs[r].heated /\ run.step = runs[r].step
    <3>1. r \in DOMAIN runs => runs[r] \in Run
      BY DEF BrowserInv
    <3>. HIDE DEF r
    <3>. QED  BY <3>1 DEF Run
  <2>. HIDE DEF run, r
  <2>. QED  BY <1>1, <2>1, <2>2, RunRests, RunMoves
<1>4. CASE UNCHANGED runs
  BY <1>1, <1>4 DEF BrowserInv
<1>. QED  BY <1>2, <1>3, <1>4 DEF CheckKey

\* The match goes on: a market opens or moves, a danger begins or passes.
LEMMA MatchKeeps ==
    ASSUME BrowserInv,
           \/ NewMarket
           \/ \E m \in DOMAIN stage : MarketMoves(m) \/ DangerBegins(m) \/ DangerPasses(m)
    PROVE  BrowserInv'
<1>1. /\ stage \in Seq({"Open", "Suspended", "Closed"}) /\ DOMAIN stage = 1..Len(stage)
      /\ Len(stage) \in Nat /\ runs \in Seq(Run) /\ rash = {} /\ hot \subseteq Nat
      /\ \A r \in DOMAIN runs : RunFits(runs[r])
  BY DEF BrowserInv, RunFits
<1>2. CASE NewMarket
  <2>1. /\ stage' = Append(stage, "Open") /\ UNCHANGED <<hot, runs, rash>>
    BY <1>2 DEF NewMarket
  <2>2. stage' \in Seq({"Open", "Suspended", "Closed"}) /\ DOMAIN stage \subseteq DOMAIN stage'
    BY <1>1, <2>1
  <2>. QED  BY <1>1, <2>1, <2>2 DEF BrowserInv, RunFits
<1>3. ASSUME NEW m \in DOMAIN stage, MarketMoves(m) PROVE BrowserInv'
  <2>1. PICK s \in {"Open", "Suspended", "Closed"} : stage' = [stage EXCEPT ![m] = s]
    BY <1>3 DEF MarketMoves
  <2>2. UNCHANGED <<hot, runs, rash>>
    BY <1>3 DEF MarketMoves
  <2>3. stage' \in Seq({"Open", "Suspended", "Closed"}) /\ DOMAIN stage' = DOMAIN stage
    BY <1>1, <1>3, <2>1
  <2>. QED  BY <1>1, <2>2, <2>3 DEF BrowserInv, RunFits
<1>4. ASSUME NEW m \in DOMAIN stage, DangerBegins(m) PROVE BrowserInv'
  <2>1. hot' = hot \cup {m} /\ UNCHANGED <<stage, runs, rash>>
    BY <1>4 DEF DangerBegins
  <2>2. hot' \subseteq Nat
    <3>1. m \in Nat
      BY <1>1, <1>4
    <3>. QED  BY <1>1, <2>1, <3>1
  <2>. QED  BY <1>1, <2>1, <2>2 DEF BrowserInv, RunFits
<1>5. ASSUME NEW m \in DOMAIN stage, DangerPasses(m) PROVE BrowserInv'
  <2>. DEFINE run(r) == [runs[r] EXCEPT !.heated = runs[r].heated \ {m}]
  <2>1. hot' = hot \ {m} /\ UNCHANGED <<stage, rash>> /\ runs' = [r \in DOMAIN runs |-> run(r)]
    BY <1>5 DEF DangerPasses
  <2>2. \A r \in DOMAIN runs : run(r) \in Run /\ RunFits(run(r))
    <3>1. ASSUME NEW r \in DOMAIN runs PROVE run(r) \in Run /\ RunFits(run(r))
      <4>1. runs[r] \in Run /\ RunFits(runs[r])
        BY <1>1
      <4>. DEFINE heated == runs[r].heated \ {m}
      <4>2. heated \in SUBSET Nat /\ heated \subseteq runs[r].heated
        BY <4>1 DEF Run
      <4>. HIDE DEF heated
      <4>3. /\ [runs[r] EXCEPT !.heated = heated] \in Run
            /\ [runs[r] EXCEPT !.heated = heated].todo = runs[r].todo
            /\ [runs[r] EXCEPT !.heated = heated].heated = heated
            /\ [runs[r] EXCEPT !.heated = heated].step = runs[r].step
        BY <4>1, <4>2 DEF Run
      <4>. QED  BY <4>1, <4>2, <4>3 DEF RunFits, heated
    <3>. QED  BY <3>1
  <2>. HIDE DEF run
  <2>3. runs' \in Seq(Run) /\ DOMAIN runs' = DOMAIN runs
    <3>1. DOMAIN runs = 1..Len(runs) /\ Len(runs) \in Nat
      BY <1>1
    <3>2. runs' \in [1..Len(runs) -> Run]
      BY <2>1, <2>2, <3>1
    <3>. QED  BY <3>1, <3>2, FunctionIsSeq
  <2>4. \A r \in DOMAIN runs' : RunFits(runs'[r])
    BY <2>1, <2>2, <2>3
  <2>. QED  BY <1>1, <2>1, <2>3, <2>4 DEF BrowserInv, RunFits
<1>. QED  BY <1>2, <1>3, <1>4, <1>5

\* Each step of the agent and its page.
LEMMA BrowserStepKeeps ==
    ASSUME BrowserInv, BrowserStep
    PROVE  BrowserInv'
<1>1. CASE PressStart
  BY <1>1 DEF PressStart, BrowserInv
<1>2. CASE Unlock
  <2>1. CASE runs' = Append(runs, KeyOpened)
    <3>. DEFINE opened == KeyOpened
    <3>1. opened \in Run /\ opened.todo = {} /\ opened.step = "over"
      BY DEF KeyOpened, Run
    <3>. HIDE DEF opened
    <3>2. /\ runs \in Seq(Run) /\ DOMAIN runs = 1..Len(runs) /\ Len(runs) \in Nat
          /\ \A r \in DOMAIN runs : RunFits(runs[r])
      BY DEF BrowserInv, RunFits
    <3>3. RunFits(opened)
      BY <3>1 DEF RunFits
    <3>4. runs' = Append(runs, opened)
      BY <2>1 DEF opened
    <3>5. /\ runs' \in Seq(Run) /\ DOMAIN runs' = 1..Len(runs) + 1
          /\ \A r \in 1..Len(runs) + 1 : runs'[r] = IF r <= Len(runs) THEN runs[r] ELSE opened
      BY <3>1, <3>2, <3>4, AppendProperties
    <3>6. \A r \in DOMAIN runs' : RunFits(runs'[r])
      BY <3>2, <3>3, <3>5
    <3>7. UNCHANGED <<stage, hot, rash>>
      BY <1>2 DEF Unlock
    <3>. QED  BY <3>5, <3>6, <3>7 DEF BrowserInv, RunFits
  <2>2. CASE UNCHANGED runs
    BY <1>2, <2>2 DEF Unlock, BrowserInv
  <2>. QED  BY <1>2, <2>1, <2>2 DEF Unlock
<1>3. CASE CheckKey
  BY <1>3, CheckKeeps
<1>4. CASE PressStop \/ LeavePage
  BY <1>4, StoppedKeeps DEF PressStop, LeavePage
<1>5. ASSUME NEW r \in DOMAIN runs, LookAround(r) \/ Quote(r) \/ Post(r) \/ NextSweep(r)
      PROVE  BrowserInv'
  BY <1>5, LookAroundKeeps, QuoteKeeps
<1>. QED  BY <1>1, <1>2, <1>3, <1>4, <1>5, MatchKeeps DEF BrowserStep

-----------------------------------------------------------------------------
(* The match reader *)

\* A read in use is of a look that no more than every endpoint's timeout had
\* passed since, and so is the reply that is awaited.
LooksFresh(r) ==
    r.latest # Nothing => r.latest.at <= r.readFrom + Len(Endpoints) * TimeoutSec
ReaderFits(r) ==
    /\ r.step = "publish" => r.unpublished # <<>>
    /\ r.step = "ask" =>
           /\ r.endpoint \in 1..Len(Endpoints)
           /\ r.askedAt <= r.lookedAt + (r.endpoint - 1) * TimeoutSec
           /\ second <= r.askedAt + TimeoutSec
    /\ LooksFresh(r)

\* There are two endpoints at most.
LEMMA FewEndpoints == Len(Endpoints) \in {0, 1, 2}
BY DEF Endpoints, IfConfigured

\* What the endpoints up to one may take is no more than what all of them may.
LEMMA TimeoutsAdd ==
    ASSUME NEW e \in 1..Len(Endpoints)
    PROVE  /\ (e - 1) * TimeoutSec \in Nat /\ e * TimeoutSec \in Nat
           /\ Len(Endpoints) * TimeoutSec \in Nat
           /\ e * TimeoutSec = (e - 1) * TimeoutSec + TimeoutSec
           /\ e * TimeoutSec <= Len(Endpoints) * TimeoutSec
           /\ (e + 1) - 1 = e
<1>. DEFINE n == Len(Endpoints)
<1>1. n \in {0, 1, 2} /\ TimeoutSec \in Nat
  BY FewEndpoints, ReaderConstants
<1>. HIDE DEF n
<1>2. e \in 1..n
  BY DEF n
<1>3. e = 1 \/ e = 2
  BY <1>1, <1>2
<1>4. CASE n = 1
  <2>1. e = 1
    BY <1>2, <1>4
  <2>. QED  BY <1>1, <1>4, <2>1 DEF n
<1>5. CASE n = 2 /\ e = 1
  BY <1>1, <1>5 DEF n
<1>6. CASE n = 2 /\ e = 2
  BY <1>1, <1>6 DEF n
<1>. QED  BY <1>1, <1>2, <1>3, <1>4, <1>5, <1>6

\* The timer is set again.
LEMMA RearmedFits ==
    ASSUME NEW r \in Reader, second \in Nat, LooksFresh(r)
    PROVE  Rearmed(r) \in Reader /\ ReaderFits(Rearmed(r))
<1>. DEFINE wakesAt == second + IntervalSec
            r1 == [r EXCEPT !.step = "wait", !.wakesAt = wakesAt]
            r2 == [r1 EXCEPT !.lookedAt = 0, !.endpoint = 0, !.askedAt = 0]
<1>1. wakesAt \in Nat
  BY ReaderConstants
<1>. HIDE DEF wakesAt
<1>2. r1 \in Reader /\ r1.step = "wait" /\ r1.latest = r.latest /\ r1.readFrom = r.readFrom
  BY <1>1 DEF Reader
<1>3. Rearmed(r) = r2
  BY DEF Rearmed, wakesAt
<1>. HIDE DEF r1
<1>4. r2 \in Reader /\ r2.step = "wait" /\ r2.latest = r.latest /\ r2.readFrom = r.readFrom
  BY <1>2 DEF Reader
<1>. HIDE DEF r2
<1>. QED  BY <1>3, <1>4 DEF ReaderFits, LooksFresh

\* The next endpoint is asked, if there is one.
LEMMA AskingFits ==
    ASSUME NEW r \in Reader, second \in Nat, LooksFresh(r), NEW e \in Nat \ {0},
           second <= r.lookedAt + (e - 1) * TimeoutSec
    PROVE  Asking(r, e) \in Reader /\ ReaderFits(Asking(r, e))
<1>1. CASE e > Len(Endpoints)
  BY <1>1, RearmedFits DEF Asking
<1>2. CASE ~(e > Len(Endpoints))
  <2>. DEFINE asked == [r EXCEPT !.step = "ask", !.endpoint = e, !.askedAt = second]
  <2>1. Asking(r, e) = asked
    BY <1>2 DEF Asking
  <2>2. /\ asked \in Reader /\ asked.step = "ask" /\ asked.endpoint = e
        /\ asked.askedAt = second /\ asked.lookedAt = r.lookedAt
        /\ asked.latest = r.latest /\ asked.readFrom = r.readFrom
    BY DEF Reader
  <2>. HIDE DEF asked
  <2>3. e \in 1..Len(Endpoints)
    BY <1>2, FewEndpoints
  <2>4. second <= second + TimeoutSec
    BY ReaderConstants
  <2>. QED  BY <2>1, <2>2, <2>3, <2>4 DEF ReaderFits, LooksFresh
<1>. QED  BY <1>1, <1>2

\* A reply is a read, or none.
LEMMA ParsedType ==
    ASSUME NEW reply, NEW at \in Nat, ParseRead(reply, at) # Nothing
    PROVE  ParseRead(reply, at) \in Read /\ ParseRead(reply, at).at = at
<1>. DEFINE f == [k \in MarketKinds |-> IF InRange(reply[k]) THEN reply[k] ELSE 1000]
<1>1. f \in [MarketKinds -> Fitting]
  <2>1. \A k \in MarketKinds : (IF InRange(reply[k]) THEN reply[k] ELSE 1000) \in Fitting
    BY DEF InRange, Fitting
  <2>. QED  BY <2>1
<1>2. ParseRead(reply, at) = [multipliers |-> f, at |-> at]
  BY DEF ParseRead
<1>. HIDE DEF f
<1>. QED  BY <1>1, <1>2 DEF Read

\* Each step of the reader, and of the clock and the match beside it.
LEMMA ReaderStepKeeps ==
    ASSUME ReaderInv, ReaderStep
    PROVE  ReaderInv'
<1>1. /\ second \in Nat /\ reader \in Reader /\ ReaderFits(reader) /\ LooksFresh(reader)
      /\ play \in {Nothing} \cup Nat /\ TimeoutSec \in Nat
  BY ReaderConstants DEF ReaderInv, ReaderFits, LooksFresh
<1>2. ASSUME NEW r \in Reader, ReaderFits(r), reader' = r, UNCHANGED <<second, play>>
      PROVE  ReaderInv'
  BY <1>1, <1>2 DEF ReaderInv, ReaderFits, LooksFresh
<1>3. CASE SecondPasses
  <2>1. /\ second' = second + 1 /\ UNCHANGED reader
        /\ reader.step = "ask" => second < reader.askedAt + TimeoutSec
        /\ play' = IF play = Nothing THEN Nothing ELSE play + 1
    BY <1>3 DEF SecondPasses
  <2>2. second' \in Nat /\ play' \in {Nothing} \cup Nat
    BY <1>1, <2>1
  <2>3. reader.step = "ask" => second' <= reader.askedAt + TimeoutSec
    <3>1. reader.askedAt \in Nat
      BY <1>1 DEF Reader
    <3>. QED  BY <1>1, <2>1, <3>1
  <2>. QED  BY <1>1, <2>1, <2>2, <2>3 DEF ReaderInv, ReaderFits, LooksFresh
<1>4. CASE MatchStarts \/ MatchEnds
  BY <1>1, <1>4 DEF MatchStarts, MatchEnds, ReaderInv
<1>5. CASE reader' = Rearmed(reader) /\ UNCHANGED <<second, play>>
  BY <1>1, <1>2, <1>5, RearmedFits
<1>6. CASE LookAtMatch
  <2>. DEFINE looked == [reader EXCEPT !.lastClockSec = play, !.lookedAt = second]
  <2>1. CASE reader' = Asking(looked, 1) /\ play # Nothing
    <3>1. /\ looked \in Reader /\ looked.lookedAt = second /\ looked.latest = reader.latest
          /\ looked.readFrom = reader.readFrom
      BY <1>1, <2>1 DEF Reader
    <3>. HIDE DEF looked
    <3>2. LooksFresh(looked)
      BY <1>1, <3>1 DEF LooksFresh
    <3>3. second <= looked.lookedAt + (1 - 1) * TimeoutSec
      BY <1>1, <3>1
    <3>4. Asking(looked, 1) \in Reader /\ ReaderFits(Asking(looked, 1))
      BY <1>1, <3>1, <3>2, <3>3, AskingFits
    <3>. QED  BY <1>2, <1>6, <2>1, <3>4 DEF LookAtMatch
  <2>. QED  BY <1>5, <1>6, <2>1 DEF LookAtMatch
<1>7. ASSUME reader.step = "ask"
      PROVE  /\ reader.endpoint \in 1..Len(Endpoints) /\ reader.lookedAt \in Nat
             /\ second <= reader.lookedAt + reader.endpoint * TimeoutSec
             /\ reader.lookedAt + reader.endpoint * TimeoutSec
                   <= reader.lookedAt + Len(Endpoints) * TimeoutSec
             /\ Asking(reader, reader.endpoint + 1) \in Reader
             /\ ReaderFits(Asking(reader, reader.endpoint + 1))
  <2>1. PICK e : e = reader.endpoint
    OBVIOUS
  <2>2. e \in 1..Len(Endpoints) /\ reader.lookedAt \in Nat /\ reader.askedAt \in Nat
        /\ reader.askedAt <= reader.lookedAt + (e - 1) * TimeoutSec
        /\ second <= reader.askedAt + TimeoutSec
    BY <1>1, <1>7, <2>1 DEF Reader, ReaderFits
  <2>. DEFINE x == (e - 1) * TimeoutSec
              y == e * TimeoutSec
              z == Len(Endpoints) * TimeoutSec
  <2>3. x \in Nat /\ y \in Nat /\ z \in Nat /\ y = x + TimeoutSec /\ y <= z
    BY <2>2, TimeoutsAdd
  <2>4. reader.askedAt <= reader.lookedAt + x
    BY <2>2
  <2>. HIDE DEF x, y, z
  <2>5. second <= reader.lookedAt + y /\ reader.lookedAt + y <= reader.lookedAt + z
    BY <1>1, <2>2, <2>3, <2>4, SMTT(30)
  <2>6. second <= reader.lookedAt + ((e + 1) - 1) * TimeoutSec
    <3>1. (e + 1) - 1 = e
      BY <2>2, TimeoutsAdd
    <3>. QED  BY <2>5, <3>1 DEF y
  <2>7. e + 1 \in Nat \ {0}
    BY <2>2, FewEndpoints
  <2>8. Asking(reader, e + 1) \in Reader /\ ReaderFits(Asking(reader, e + 1))
    BY <1>1, <2>6, <2>7, AskingFits
  <2>. QED  BY <2>1, <2>2, <2>5, <2>8 DEF y, z
<1>8. CASE EndpointReplies
  <2>1. PICK reply \in Replies, noted \in BOOLEAN :
           LET read == ParseRead(reply, second)
               kept == [reader EXCEPT !.latest = read, !.readFrom = reader.lookedAt]
           IN  reader' = CASE read = Nothing -> Asking(reader, reader.endpoint + 1)
                           [] read # Nothing /\ noted ->
                                [kept EXCEPT !.step = "publish", !.unpublished = Notaries,
                                             !.lookedAt = 0, !.endpoint = 0, !.askedAt = 0]
                           [] OTHER -> Rearmed(kept)
    BY <1>8 DEF EndpointReplies
  <2>2. reader.step = "ask" /\ UNCHANGED <<second, play>>
    BY <1>8 DEF EndpointReplies
  <2>. DEFINE read == ParseRead(reply, second)
              kept == [reader EXCEPT !.latest = read, !.readFrom = reader.lookedAt]
  <2>3. CASE read = Nothing
    <3>1. reader' = Asking(reader, reader.endpoint + 1)
      BY <2>1, <2>3
    <3>. QED  BY <1>2, <1>7, <2>2, <3>1
  <2>4. CASE read # Nothing
    <3>1. read \in Read /\ read.at = second
      BY <1>1, <2>4, ParsedType
    <3>2. reader' = IF noted THEN [kept EXCEPT !.step = "publish", !.unpublished = Notaries,
                                               !.lookedAt = 0, !.endpoint = 0, !.askedAt = 0]
                    ELSE Rearmed(kept)
      BY <2>1, <2>4
    <3>. HIDE DEF read
    <3>3. /\ kept \in Reader /\ kept.latest = read /\ kept.readFrom = reader.lookedAt
      BY <1>1, <3>1 DEF Reader
    <3>. HIDE DEF kept
    <3>4. LooksFresh(kept)
      <4>. DEFINE x == reader.endpoint * TimeoutSec
                  y == Len(Endpoints) * TimeoutSec
      <4>1. second <= reader.lookedAt + x /\ reader.lookedAt + x <= reader.lookedAt + y
            /\ x \in Nat /\ y \in Nat /\ reader.lookedAt \in Nat
        BY <1>7, <2>2, TimeoutsAdd
      <4>. HIDE DEF x, y
      <4>2. second <= reader.lookedAt + y
        BY <1>1, <4>1
      <4>. QED  BY <3>1, <3>3, <4>2 DEF LooksFresh, y
    <3>5. CASE ~noted
      BY <1>1, <1>2, <2>2, <3>2, <3>3, <3>4, <3>5, RearmedFits
    <3>6. CASE noted
      <4>. DEFINE r1 == [kept EXCEPT !.step = "publish", !.unpublished = Notaries]
                  r2 == [r1 EXCEPT !.lookedAt = 0, !.endpoint = 0, !.askedAt = 0]
      <4>1. reader' = r2
        BY <3>2, <3>6
      <4>2. Notaries \in Seq(Nat) /\ Notaries # <<>>
        BY ReaderConstants
      <4>3. /\ r1 \in Reader /\ r1.step = "publish" /\ r1.unpublished = Notaries
            /\ r1.latest = kept.latest /\ r1.readFrom = kept.readFrom
        BY <3>3, <4>2 DEF Reader
      <4>. HIDE DEF r1
      <4>4. /\ r2 \in Reader /\ r2.step = "publish" /\ r2.unpublished = Notaries
            /\ r2.latest = kept.latest /\ r2.readFrom = kept.readFrom
        BY <4>3 DEF Reader
      <4>. HIDE DEF r2
      <4>5. ReaderFits(r2)
        BY <3>4, <4>2, <4>4 DEF ReaderFits, LooksFresh
      <4>. QED  BY <1>2, <2>2, <4>1, <4>4, <4>5
    <3>. QED  BY <3>5, <3>6
  <2>. QED  BY <2>3, <2>4
<1>9. CASE EndpointFails
  BY <1>2, <1>7, <1>9 DEF EndpointFails
<1>10. CASE PublishNote
  <2>. DEFINE rest == Tail(reader.unpublished)
              left == [reader EXCEPT !.unpublished = rest]
  <2>1. /\ reader.unpublished \in Seq(Nat) /\ reader.unpublished # <<>>
        /\ reader.step = "publish" /\ UNCHANGED <<second, play>>
    BY <1>1, <1>10 DEF PublishNote, Reader, ReaderFits
  <2>2. rest \in Seq(Nat)
    BY <2>1, HeadTailProperties
  <2>3. reader' = IF rest = <<>> THEN Rearmed([reader EXCEPT !.unpublished = <<>>]) ELSE left
    BY <1>10 DEF PublishNote
  <2>4. rest = <<>> => reader' = Rearmed(left)
    BY <2>3
  <2>5. rest # <<>> => reader' = left
    BY <2>3
  <2>. HIDE DEF rest
  <2>6. /\ left \in Reader /\ left.step = "publish" /\ left.unpublished = rest
        /\ left.latest = reader.latest /\ left.readFrom = reader.readFrom
    BY <1>1, <2>1, <2>2 DEF Reader
  <2>. HIDE DEF left
  <2>7. LooksFresh(left)
    BY <1>1, <2>6 DEF LooksFresh
  <2>8. rest # <<>> => ReaderFits(left)
    BY <2>6, <2>7 DEF ReaderFits
  <2>. QED  BY <1>1, <1>2, <2>1, <2>4, <2>5, <2>6, <2>7, <2>8, RearmedFits
<1>11. CASE ReadAgain
  <2>. DEFINE r1 == [reader EXCEPT !.step = "look", !.wakesAt = 0]
  <2>1. /\ r1 \in Reader /\ r1.step = "look" /\ r1.latest = reader.latest
        /\ r1.readFrom = reader.readFrom
    BY <1>1 DEF Reader
  <2>2. reader' = r1 /\ UNCHANGED <<second, play>>
    BY <1>11 DEF ReadAgain
  <2>. HIDE DEF r1
  <2>3. ReaderFits(r1)
    BY <1>1, <2>1 DEF ReaderFits, LooksFresh
  <2>. QED  BY <1>2, <2>1, <2>2, <2>3
<1>12. CASE RestartReader
  <2>1. reader' = Awoken /\ UNCHANGED <<second, play>>
    BY <1>12 DEF RestartReader
  <2>2. Awoken \in Reader /\ ReaderFits(Awoken)
    BY DEF Awoken, Reader, ReaderFits, LooksFresh
  <2>. QED  BY <1>2, <2>1, <2>2
<1>. QED  BY <1>3, <1>4, <1>6, <1>8, <1>9, <1>10, <1>11, <1>12 DEF ReaderStep

\* What a read holds of any kind of market fits, and it has its time.
LEMMA WhatReadsHold ==
    ASSUME NEW read \in Read
    PROVE  /\ read.at \in Nat
           /\ \A kind \in MarketKinds : read.multipliers[kind] \in Fitting
BY DEF Read

\* What the agents price by is of a recent look at the match.
LEMMA ReadsAreRecent == ReaderInv => ReadIsRecent
<1>. SUFFICES ASSUME ReaderInv, NEW kind \in MarketKinds, Multiplier(kind) # Nothing
              PROVE  /\ InRange(Multiplier(kind))
                     /\ second <= reader.readFrom + MaxAgeSec + Len(Endpoints) * TimeoutSec
  BY DEF ReadIsRecent
<1>1. /\ reader.latest # Nothing /\ ~(second > reader.latest.at + MaxAgeSec)
      /\ Multiplier(kind) = reader.latest.multipliers[kind]
  BY Zenon DEF Multiplier
<1>2. reader.latest \in Read /\ reader.readFrom \in Nat /\ second \in Nat
  BY <1>1 DEF ReaderInv, Reader
<1>3. InRange(Multiplier(kind))
  <2>1. Multiplier(kind) \in Fitting
    BY <1>1, <1>2, WhatReadsHold, Zenon
  <2>. QED  BY <2>1 DEF InRange, Fitting
<1>. DEFINE late == Len(Endpoints) * TimeoutSec
<1>4. reader.latest.at <= reader.readFrom + late
  BY <1>1 DEF ReaderInv
<1>5. late \in Nat
  BY FewEndpoints, ReaderConstants
<1>. HIDE DEF late
<1>6. second <= reader.readFrom + MaxAgeSec + late
  <2>. DEFINE at == reader.latest.at
              from == reader.readFrom
  <2>1. at \in Nat
    BY <1>2, WhatReadsHold, Zenon
  <2>2. /\ second \in Nat /\ from \in Nat /\ MaxAgeSec \in Nat
        /\ ~(second > at + MaxAgeSec) /\ at <= from + late
    BY <1>1, <1>2, <1>4, ReaderConstants
  <2>. HIDE DEF at, from
  <2>3. second <= from + MaxAgeSec + late
    BY <1>5, <2>1, <2>2
  <2>. QED  BY <2>3 DEF from
<1>. QED  BY <1>3, <1>6 DEF late

-----------------------------------------------------------------------------
(* All of it *)

\* At first nothing is on chain, nothing is asked of anyone and nothing is known.
LEMMA SessionBegins ==
    ASSUME Init
    PROVE  SessionInv
<1>1. IndexInv
  <2>1. bets = <<>> /\ saves = <<>> /\ log = <<>> /\ rows = [bet |-> <<>>, memory |-> None]
    BY DEF Init, IndexerInit
  <2>. QED  BY <2>1 DEF IndexInv
<1>2. ConsoleInv /\ saves = <<>> /\ ConsoleInit
  <2>1. saves = <<>> /\ ConsoleInit
    BY DEF Init, IndexerInit
  <2>2. Loading \in Page /\ ~Loading.running
    BY DEF Loading, Page
  <2>3. console = [c \in Consoles |-> Loading]
    BY <2>1 DEF ConsoleInit
  <2>. QED  BY <1>1, <2>1, <2>2, <2>3 DEF ConsoleInv
<1>3. TraderInv /\ TraderInit
  <2>1. /\ TraderInit /\ allowance = 0 /\ group = <<>> /\ tx = <<>>
        /\ command = [c \in Commands |-> Unstarted]
    BY DEF Init, TraderInit
  <2>2. Unstarted \in Command
    BY DEF Unstarted, Command, Steps
  <2>3. TraderType
    BY <2>1, <2>2 DEF TraderType
  <2>4. \A c \in Commands : InOrder(c, Unstarted) /\ TruthKept(c, Unstarted)
    <3>1. SUFFICES ASSUME NEW c \in Commands PROVE InOrder(c, Unstarted) /\ TruthKept(c, Unstarted)
      OBVIOUS
    <3>2. \A k : ~SentCall(c, k) /\ ~MinedCall(c, k)
      BY <2>1 DEF SentCall, MinedCall
    <3>3. ~Struck(c)
      BY <2>1 DEF Struck
    <3>4. /\ Unstarted.does = None /\ Unstarted.step = "none" /\ Unstarted.told = None
      BY DEF Unstarted
    <3>5. \A k : ~Sending(Unstarted, k)
      BY <3>4 DEF Sending
    <3>. QED  BY <3>2, <3>3, <3>4, <3>5, TraderConstants DEF InOrder, TruthKept
  <2>5. SpendingCovered
    <3>1. \A c \in Commands : AllowedFor(c) = 0
      BY <2>1 DEF AllowedFor, MinedCall, SentCall
    <3>2. [c \in Commands |-> AllowedFor(c)] \in [1..MaxCommands -> Nat]
      BY <3>1 DEF Commands
    <3>3. SumTo([c \in Commands |-> AllowedFor(c)], MaxCommands) \in Nat
      BY <3>2, TraderConstants, TotalOfAmounts
    <3>4. allowance + Stake * Len(group) = 0
      BY <2>1, IndexerConstants
    <3>. QED  BY <3>3, <3>4 DEF SpendingCovered
  <2>. QED  BY <1>1, <2>1, <2>3, <2>4, <2>5 DEF TraderInv
<1>4. GasInv
  <2>1. balance = [a \in Addresses |-> 0] /\ requests = [r \in Requests |-> NotAsked]
    BY DEF Init, GasInit
  <2>2. NotAsked \in Request /\ NotAsked.step = "none"
    BY DEF NotAsked, Request
  <2>3. \A a, p : ~Underway(NotAsked, a, p) /\ Promised(NotAsked, a, p) = 0
    BY <2>2 DEF Underway, Promised
  <2>4. \A p \in Purposes : Target[p] \in Nat
    BY GasConstants
  <2>5. Both \in Nat
    BY <2>4 DEF Both, Purposes
  <2>. QED  BY <2>1, <2>2, <2>3, <2>4, <2>5 DEF GasInv
<1>5. BrowserInv
  BY DEF Init, BrowserInit, BrowserInv
<1>6. ReaderInv
  BY DEF Init, ReaderInit, Awoken, ReaderInv, Reader
<1>. QED  BY <1>2, <1>3, <1>4, <1>5, <1>6 DEF SessionInv

\* Neither a trader, nor a fan's page, nor the account it keeps saves a memory.
LEMMA NothingSaved ==
    ASSUME AccountStep \/ FundsStep \/ TraderStep
    PROVE  UNCHANGED saves
<1>1. ASSUME NEW m, NEW s, NEW n, PlaceFills(m, s, n) PROVE UNCHANGED saves
  BY <1>1 DEF PlaceFills
<1>2. ASSUME NEW ids, ClaimBets(ids) PROVE UNCHANGED saves
  BY <1>2 DEF ClaimBets
<1>3. CASE AccountStep
  <2>1. CASE Open \/ Seed \/ TrackPlaced \/ BackoffOver \/ Reload \/ ReceiptLost
    BY <2>1 DEF Open, Seed, TrackPlaced, BackoffOver, Reload, ReceiptLost, indexerVars
  <2>2. CASE Check
    BY <2>2 DEF Check, indexerVars
  <2>3. CASE Pay
    BY <1>2, <2>3 DEF Pay
  <2>4. CASE PayFails
    BY <1>2, <2>4 DEF PayFails, indexerVars
  <2>5. CASE ClaimElsewhere
    BY <1>2, <2>5 DEF ClaimElsewhere
  <2>6. ASSUME NEW m \in Markets, NEW s \in BetSides, Bet(m, s) \/ BetElsewhere(m, s)
        PROVE  UNCHANGED saves
    BY <1>1, <2>6 DEF Bet, BetElsewhere, PlaceBet
  <2>. QED  BY <1>3, <2>1, <2>2, <2>3, <2>4, <2>5, <2>6 DEF AccountStep, TickStep
<1>4. CASE FundsStep
  BY <1>4 DEF FundsStep, SetUp, CheckRefill, StakeFunds, EnsureGas, SendWrite, MoneyMoves,
              TimePasses, ReloadFunds, indexerVars
<1>5. CASE TraderStep
  <2>1. PICK c \in Commands :
         \/ \E m \in Markets, s \in BetSides, n \in Splits : BeginBet(c, m, s, n)
         \/ Allow(c) \/ PriceBet(c)
         \/ BeginCollect(c) \/ Refresh(c) \/ ReadOwed(c)
         \/ BeginFaucet(c)
         \/ Estimate(c) \/ Execute(c) \/ Receipt(c)
         \/ \E call \in Calls : Mine(c, call) \/ Decide(c, call)
    BY <1>5 DEF TraderStep, Calls
  <2>2. CASE Thinks
    BY <2>2 DEF Thinks, indexerVars
  <2>3. CASE Execute(c)
    BY <2>3 DEF Execute, indexerVars
  <2>4. ASSUME NEW call \in Calls, Decide(c, call) PROVE UNCHANGED saves
    BY <2>4 DEF Decide, indexerVars
  <2>5. ASSUME NEW call \in Calls, Mine(c, call) PROVE UNCHANGED saves
    BY <1>1, <1>2, <2>5 DEF Mine, indexerVars
  <2>. QED  BY <2>1, <2>2, <2>3, <2>4, <2>5 DEF BeginBet, Allow, PriceBet, BeginCollect,
               Refresh, ReadOwed, BeginFaucet, Estimate, Receipt
<1>. QED  BY <1>3, <1>4, <1>5

\* Settlement and the indexer go on around whoever it is about.
LEMMA ChainGoesOn ==
    ASSUME IndexInv, Settlement \/ Index
    PROVE  IndexInv' /\ BetsAdvance /\ UNCHANGED saves
<1>1. CASE Settlement
  BY <1>1, ResolveKeeps, SettleKeeps DEF Settlement, ResolveMarket, SettleBet
<1>2. CASE Index
  <2>1. IndexInv' /\ UNCHANGED <<bets, saves>>
    BY <1>2, IndexKeeps DEF chainVars
  <2>2. Len(bets) \in Nat
    BY DEF IndexInv
  <2>. QED  BY <2>1, <2>2 DEF BetsAdvance
<1>. QED  BY <1>1, <1>2

\* Every step keeps everyone's part.
LEMMA SessionStepKeeps ==
    ASSUME SessionInv, [Next]_vars
    PROVE  SessionInv'
<1>1. UNCHANGED consoleVars => (ConsoleInit => ConsoleInit')
  BY DEF consoleVars, ConsoleInit
<1>2. UNCHANGED traderVars => (TraderInit => TraderInit')
  BY DEF traderVars, TraderInit
<1>3. UNCHANGED gasVars => GasInv'
  <2>1. UNCHANGED gasVars => UNCHANGED <<balance, requests>>
    BY DEF gasVars
  <2>. QED  BY <2>1 DEF SessionInv, GasInv, Underway, Promised, Both
<1>4. UNCHANGED agentVars => BrowserInv'
  BY DEF agentVars, SessionInv, BrowserInv
<1>5. UNCHANGED readerVars => ReaderInv'
  BY DEF readerVars, SessionInv, ReaderInv
<1>6. ASSUME UNCHANGED topic, UNCHANGED consoleVars, UNCHANGED saves, topic # "console",
             UNCHANGED traderVars, topic # "trader",
             GasInv', BrowserInv', ReaderInv'
      PROVE  SessionInv'
  BY <1>1, <1>2, <1>6 DEF SessionInv
<1>7. ASSUME UNCHANGED <<topic, sideVars>>, Settlement \/ Index
      PROVE  SessionInv'
  <2>1. /\ UNCHANGED consoleVars /\ UNCHANGED traderVars /\ UNCHANGED gasVars
        /\ UNCHANGED agentVars /\ UNCHANGED readerVars /\ UNCHANGED topic
    BY <1>7 DEF sideVars
  <2>2. UNCHANGED saves
    BY <1>7 DEF Settlement, ResolveMarket, SettleBet, Index, chainVars
  <2>3. topic = "console" => ConsoleInv'
    <3>1. ASSUME topic = "console" PROVE ConsoleInv'
      <4>1. IndexInv' /\ UNCHANGED console
        BY <1>7, <2>1, <3>1, ChainGoesOn DEF SessionInv, ConsoleInv, consoleVars
      <4>. QED  BY <3>1, <4>1 DEF SessionInv, ConsoleInv
    <3>. QED  BY <3>1
  <2>4. topic = "trader" => TraderInv'
    BY <1>7, <2>1, ChainGoesOn, TraderWaits DEF SessionInv, TraderInv
  <2>. QED  BY <1>1, <1>2, <1>3, <1>4, <1>5, <2>1, <2>2, <2>3, <2>4 DEF SessionInv
<1>8. CASE SettlementStep \/ IndexStep
  BY <1>7, <1>8 DEF SettlementStep, IndexStep
<1>9. CASE Engine(AccountStep)
  BY <1>3, <1>4, <1>5, <1>6, <1>9, NothingSaved DEF Engine
<1>10. CASE Funds(FundsStep)
  BY <1>3, <1>4, <1>5, <1>6, <1>10, NothingSaved DEF Funds
<1>11. CASE /\ topic = "console" /\ ConsoleStep
            /\ UNCHANGED <<topic, accountVars, funds, traderVars, gasVars, agentVars, readerVars>>
  BY <1>2, <1>3, <1>4, <1>5, <1>11, ConsoleStepKeeps DEF SessionInv
<1>12. CASE /\ topic = "trader" /\ TraderStep
            /\ UNCHANGED <<topic, accountVars, funds, consoleVars, gasVars, agentVars, readerVars>>
  BY <1>1, <1>3, <1>4, <1>5, <1>12, TraderStepKeeps, NothingSaved DEF SessionInv
<1>13. CASE /\ topic = "sponsor" /\ GasStep
            /\ UNCHANGED <<topic, indexerVars, accountVars, funds, consoleVars,
                           traderVars, agentVars, readerVars>>
  BY <1>4, <1>5, <1>6, <1>13, GasStepKeeps DEF SessionInv, indexerVars
<1>14. CASE /\ topic = "agent" /\ BrowserStep
            /\ UNCHANGED <<topic, indexerVars, accountVars, funds, consoleVars, traderVars,
                           gasVars, readerVars>>
  BY <1>3, <1>5, <1>6, <1>14, BrowserStepKeeps DEF SessionInv, indexerVars
<1>15. CASE /\ topic = "reader" /\ ReaderStep
            /\ UNCHANGED <<topic, indexerVars, accountVars, funds, consoleVars, traderVars,
                           gasVars, agentVars>>
  BY <1>3, <1>4, <1>6, <1>15, ReaderStepKeeps DEF SessionInv, indexerVars
<1>16. CASE UNCHANGED vars
  <2>1. UNCHANGED topic /\ UNCHANGED sideVars /\ UNCHANGED indexerVars
    BY <1>16 DEF vars
  <2>2. /\ UNCHANGED consoleVars /\ UNCHANGED traderVars /\ UNCHANGED gasVars
        /\ UNCHANGED agentVars /\ UNCHANGED readerVars
    BY <2>1 DEF sideVars
  <2>3. UNCHANGED <<bets, saves, log, rows>>
    BY <2>1 DEF indexerVars
  <2>4. IndexInv => IndexInv'
    BY <2>3 DEF IndexInv
  <2>5. topic = "console" => ConsoleInv'
    BY <2>2, <2>4 DEF consoleVars, SessionInv, ConsoleInv
  <2>6. topic = "trader" => TraderInv'
    <3>1. IndexInv => BetsAdvance
      BY <2>3 DEF IndexInv, BetsAdvance
    <3>. QED  BY <2>2, <2>4, <3>1, TraderWaits DEF SessionInv, TraderInv
  <2>. QED  BY <1>1, <1>2, <1>3, <1>4, <1>5, <2>1, <2>2, <2>3, <2>5, <2>6 DEF SessionInv
<1>. QED  BY <1>8, <1>9, <1>10, <1>11, <1>12, <1>13, <1>14, <1>15, <1>16 DEF Next

\* Everything that is known of everyone's part stays so.
THEOREM SessionsHold == Spec => []SessionInv
<1>1. Init => SessionInv
  BY SessionBegins
<1>2. SessionInv /\ [Next]_vars => SessionInv'
  BY SessionStepKeeps
<1>. QED  BY <1>1, <1>2, PTL DEF Spec

\* The memories of an agent count no bet twice: neither one that was saved nor
\* one that is open in a page, whatever pages are open, saves fail and events
\* the indexer has yet to handle (agent-memory.ts, AgentConsole.tsx).
THEOREM MemoryCountsOnce == Spec => []NeverCountedTwice
<1>1. SessionInv => NeverCountedTwice
  <2>. SUFFICES ASSUME SessionInv PROVE NeverCountedTwice
    OBVIOUS
  <2>1. CASE topic = "console"
    BY <2>1, ConsoleCountsOnce DEF SessionInv
  <2>2. CASE topic # "console"
    <3>1. saves = <<>> /\ console = [c \in Consoles |-> Loading]
      BY <2>2 DEF SessionInv, ConsoleInit
    <3>2. \A c \in Consoles : console[c].memory = None
      BY <3>1 DEF Loading
    <3>3. Memories = {}
      BY <3>1, <3>2 DEF Memories
    <3>. QED  BY <3>3 DEF NeverCountedTwice
  <2>. QED  BY <2>1, <2>2
<1>. QED  BY <1>1, SessionsHold, PTL

\* What the plugin told a trader is so, then and later: of a bet, that it was
\* placed, or was not and will not be; of winnings, that they were collected
\* (mm-plugin's send, bet, collect).
THEOREM TradersToldTruly == Spec => []ToldTruly
<1>1. SessionInv => ToldTruly
  <2>. SUFFICES ASSUME SessionInv PROVE ToldTruly
    OBVIOUS
  <2>1. CASE topic = "trader"
    BY <2>1, TraderTellsTruth DEF SessionInv
  <2>2. CASE topic # "trader"
    <3>1. command = [c \in Commands |-> Unstarted]
      BY <2>2 DEF SessionInv, TraderInit
    <3>2. \A c \in Commands : command[c].does = None
      BY <3>1 DEF Unstarted
    <3>. QED  BY <3>2, TraderConstants DEF ToldTruly
  <2>. QED  BY <2>1, <2>2
<1>. QED  BY <1>1, SessionsHold, PTL

\* What the router has taken of a trader and may still take is never more than
\* was asked to be bet, though bets overlap, fail or are tried again (bet.ts).
THEOREM TradersSpendAsAsked == Spec => []SpentAsAsked
<1>1. SessionInv => SpentAsAsked
  <2>. SUFFICES ASSUME SessionInv PROVE SpentAsAsked
    OBVIOUS
  <2>1. CASE topic = "trader"
    BY <2>1, TraderSpendsAsAsked DEF SessionInv
  <2>2. CASE topic # "trader"
    <3>1. allowance = 0 /\ group = <<>> /\ command = [c \in Commands |-> Unstarted]
      BY <2>2 DEF SessionInv, TraderInit
    <3>. DEFINE asked == [c \in Commands |-> IF command[c].does = "bet" THEN StakeOfBet(c) ELSE 0]
    <3>2. \A c \in Commands : command[c].does = None
      BY <3>1 DEF Unstarted
    <3>3. asked \in [1..MaxCommands -> Nat]
      BY <3>2, TraderConstants DEF Commands
    <3>4. SumTo(asked, MaxCommands) \in Nat
      <4>. HIDE DEF asked
      <4>. QED  BY <3>3, TraderConstants, TotalOfAmounts
    <3>5. allowance + Stake * Len(group) = 0
      BY <3>1, IndexerConstants
    <3>. HIDE DEF asked
    <3>6. allowance + Stake * Len(group) <= SumTo(asked, MaxCommands)
      BY <3>4, <3>5
    <3>. QED  BY <3>6 DEF SpentAsAsked, asked
  <2>. QED  BY <2>1, <2>2
<1>. QED  BY <1>1, SessionsHold, PTL

\* However many requests run at once, an address is given no more than a target
\* of each purpose on top of nothing: no request sends what another already has
\* (gas-drip/route.ts, gas-budget.ts).
THEOREM GasPaidOnce == Spec => []NeverPaidTwice
<1>1. SessionInv => NeverPaidTwice
  BY DEF SessionInv, GasInv, NeverPaidTwice, Both
<1>. QED  BY <1>1, SessionsHold, PTL

\* A price comes of a recent look: a multiplier of a read of the match no older
\* than reads may be, however many endpoints failed first (coach.ts); a quote
\* signed in a page of a sweep that saw its market out of danger
\* (browser-agent.ts).
THEOREM PricesAreOfRecentLooks == Spec => []PricedFromRecentLook
<1>1. SessionInv => PricedFromRecentLook
  BY ReadsAreRecent DEF SessionInv, BrowserInv, PricedFromRecentLook
<1>. QED  BY <1>1, SessionsHold, PTL

-----------------------------------------------------------------------------
(* The account: what a page shows of a market was paid *)

\* What is waiting to be announced of a market, of bets b.
WaitingOf(parts, b, m) ==
    TotalOver({id \in DOMAIN parts : b[id].market = m},
              [id \in DOMAIN parts |-> parts[id].amount])

\* What the claimed bets of a market paid, but for those a payout is under way of.
BackedOf(b, paying, m) ==
    TotalOver({id \in DOMAIN b : b[id].market = m /\ b[id].claimed /\ id \notin paying},
              [id \in DOMAIN b |-> Owed(b[id])])

\* Amounts of bets, by betId.
PartsOf(parts, n) ==
    /\ parts = [id \in DOMAIN parts |-> parts[id]] /\ DOMAIN parts \subseteq 1..n
    /\ \A id \in DOMAIN parts : parts[id].amount \in Nat

Results(res) ==
    /\ res = [k \in DOMAIN res |-> res[k]]
    /\ \A k \in DOMAIN res : res[k].amount \in Nat

ShownIn(res, m) ==
    SumTo([s \in 1..MaxShown |->
              IF <<m, s>> \in DOMAIN res THEN res[<<m, s>>].amount ELSE 0], MaxShown)

\* The bets a payout is under way of, and what each is to pay.
PayingNow(e) == IF e.step = "pay" THEN DOMAIN e.payable ELSE {}
PayoutRight(e, b) ==
    \/ e.step # "pay" /\ e = [step |-> e.step, backoff |-> e.backoff]
    \/ /\ e = [step |-> "pay", backoff |-> e.backoff, open |-> e.open, payable |-> e.payable]
       /\ e.payable = [id \in DOMAIN e.payable |-> e.payable[id]]
       /\ DOMAIN e.payable \subseteq DOMAIN b
       /\ \A id \in DOMAIN e.payable : Owed(b[id]) > 0 /\ e.payable[id] = Owed(b[id])

\* What a page shows and has yet to show of a market has been paid, by bets that
\* no payout is under way of.
AccountInv ==
    /\ IndexInv
    /\ watched \subseteq DOMAIN bets /\ receipt \in {None} \cup DOMAIN bets
    /\ PayoutRight(engine, bets)
    /\ PartsOf(settled, Len(bets)) /\ Results(results)
    /\ \A m \in Markets :
          ShownIn(results, m) + WaitingOf(settled, bets, m) <= BackedOf(bets, PayingNow(engine), m)

\* The total of both is the total of each.
LEMMA TotalOfSums ==
    ASSUME NEW n \in Nat, NEW f \in [1..n -> Nat], NEW g \in [1..n -> Nat]
    PROVE  SumTo([k \in 1..n |-> f[k] + g[k]], n) = SumTo(f, n) + SumTo(g, n)
<1>. DEFINE h == [k \in 1..n |-> f[k] + g[k]]
            t == RunningTotal(f, n)
            u == RunningTotal(g, n)
            v == [k \in 0..n |-> t[k] + u[k]]
<1>1. /\ t \in [0..n -> Int] /\ t[0] = 0 /\ \A k \in 1..n : t[k] = t[k - 1] + f[k]
      /\ u \in [0..n -> Int] /\ u[0] = 0 /\ \A k \in 1..n : u[k] = u[k - 1] + g[k]
  BY f \in [1..n -> Int], g \in [1..n -> Int], RunningTotalDef
<1>2. h \in [1..n -> Int]
  OBVIOUS
<1>. HIDE DEF t, u
<1>3. v \in [0..n -> Int] /\ v[0] = 0
  BY <1>1
<1>4. ASSUME NEW k \in 1..n PROVE v[k] = v[k - 1] + h[k]
  <2>1. k \in 0..n /\ k - 1 \in 0..n
    OBVIOUS
  <2>2. t[k - 1] \in Int /\ u[k - 1] \in Int /\ f[k] \in Nat /\ g[k] \in Nat
    BY <1>1, <2>1
  <2>. QED  BY <1>1, <2>1, <2>2
<1>. HIDE DEF h, v
<1>5. SumTo(h, n) = v[n]
  BY <1>2, <1>3, <1>4, TotalIs
<1>. QED  BY <1>5 DEF h, v, t, u, SumTo

\* A total over bets is of amounts, and is no more where each amount is no more.
LEMMA TotalOverIs ==
    ASSUME NEW S, NEW f, \A id \in S : f[id] \in Nat
    PROVE  TotalOver(S, f) \in Nat
<1>. DEFINE t == [id \in 1..MaxBets |-> IF id \in S THEN f[id] ELSE 0]
<1>1. t \in [1..MaxBets -> Nat]
  OBVIOUS
<1>. HIDE DEF t
<1>2. SumTo(t, MaxBets) \in Nat
  BY <1>1, AccountBounds, TotalOfAmounts
<1>. QED  BY <1>2 DEF TotalOver, t

LEMMA TotalOverLess ==
    ASSUME NEW S, NEW f, NEW R, NEW g, \A id \in S : f[id] \in Nat,
           \A id \in R : g[id] \in Nat, \A id \in S : id \in R /\ f[id] <= g[id]
    PROVE  TotalOver(S, f) <= TotalOver(R, g)
<1>. DEFINE t == [id \in 1..MaxBets |-> IF id \in S THEN f[id] ELSE 0]
            u == [id \in 1..MaxBets |-> IF id \in R THEN g[id] ELSE 0]
<1>1. t \in [1..MaxBets -> Nat] /\ u \in [1..MaxBets -> Nat]
  OBVIOUS
<1>2. \A id \in 1..MaxBets : t[id] <= u[id]
  OBVIOUS
<1>. HIDE DEF t, u
<1>3. SumTo(t, MaxBets) <= SumTo(u, MaxBets)
  BY <1>1, <1>2, AccountBounds, TotalOfLess
<1>. QED  BY <1>3 DEF TotalOver, t, u

\* What is counted twice of some bets is counted in both.
LEMMA TotalOverBoth ==
    ASSUME NEW S, NEW f, NEW R, NEW g, \A id \in S : f[id] \in Nat,
           \A id \in R : g[id] \in Nat, NEW T, NEW h,
           \A id : id \in T <=> id \in S \cup R,
           \A id \in T : h[id] = (IF id \in S THEN f[id] ELSE 0) + (IF id \in R THEN g[id] ELSE 0)
    PROVE  TotalOver(T, h) = TotalOver(S, f) + TotalOver(R, g)
<1>. DEFINE t == [id \in 1..MaxBets |-> IF id \in S THEN f[id] ELSE 0]
            u == [id \in 1..MaxBets |-> IF id \in R THEN g[id] ELSE 0]
            v == [id \in 1..MaxBets |-> IF id \in T THEN h[id] ELSE 0]
<1>1. t \in [1..MaxBets -> Nat] /\ u \in [1..MaxBets -> Nat]
  OBVIOUS
<1>2. ASSUME NEW id \in 1..MaxBets PROVE v[id] = t[id] + u[id]
  OBVIOUS
<1>3. v = [id \in 1..MaxBets |-> t[id] + u[id]]
  BY <1>2
<1>. HIDE DEF t, u, v
<1>4. SumTo(v, MaxBets) = SumTo(t, MaxBets) + SumTo(u, MaxBets)
  BY <1>1, <1>3, AccountBounds, TotalOfSums
<1>. QED  BY <1>4 DEF TotalOver, t, u, v

LEMMA TotalOverSame ==
    ASSUME NEW S, NEW f, NEW R, NEW g, \A id : id \in S <=> id \in R,
           \A id \in S : f[id] = g[id]
    PROVE  TotalOver(S, f) = TotalOver(R, g)
<1>1. [id \in 1..MaxBets |-> IF id \in S THEN f[id] ELSE 0]
         = [id \in 1..MaxBets |-> IF id \in R THEN g[id] ELSE 0]
  OBVIOUS
<1>. QED  BY <1>1 DEF TotalOver

\* What the results of a market show grows by at most one of them.
LEMMA OneMoreShown ==
    ASSUME NEW res, NEW more, NEW m, NEW s, NEW a \in Nat, Results(res), Results(more),
           \A k : k[1] = m /\ k # <<m, s>> => (k \in DOMAIN more <=> k \in DOMAIN res),
           \A k \in DOMAIN res : k \in DOMAIN more /\ more[k] = res[k],
           <<m, s>> \in DOMAIN more \ DOMAIN res => more[<<m, s>>].amount = a
    PROVE  ShownIn(more, m) <= ShownIn(res, m) + a
<1>. DEFINE f == [x \in 1..MaxShown |->
                     IF <<m, x>> \in DOMAIN res THEN res[<<m, x>>].amount ELSE 0]
            g == [x \in 1..MaxShown |->
                     IF <<m, x>> \in DOMAIN more THEN more[<<m, x>>].amount ELSE 0]
<1>1. MaxShown \in Nat
  BY IndexerConstants, AccountBounds DEF MaxShown
<1>2. f \in [1..MaxShown -> Nat] /\ g \in [1..MaxShown -> Nat]
  BY DEF Results
<1>3. ASSUME NEW x \in 1..MaxShown, x # s PROVE g[x] = f[x]
  <2>1. <<m, x>>[1] = m /\ <<m, x>> # <<m, s>>
    BY <1>3
  <2>2. <<m, x>> \in DOMAIN more <=> <<m, x>> \in DOMAIN res
    BY <2>1
  <2>. QED  BY <2>2
<1>4. s \in 1..MaxShown => g[s] <= f[s] + a
  <2>1. ASSUME s \in 1..MaxShown PROVE g[s] <= f[s] + a
    <3>1. CASE <<m, s>> \in DOMAIN res
      <4>1. g[s] = f[s] /\ f[s] \in Nat
        BY <1>2, <2>1, <3>1
      <4>. QED  BY <4>1
    <3>2. CASE <<m, s>> \notin DOMAIN res /\ <<m, s>> \in DOMAIN more
      <4>1. g[s] = a /\ f[s] = 0
        BY <2>1, <3>2
      <4>. QED  BY <4>1
    <3>3. CASE <<m, s>> \notin DOMAIN res /\ <<m, s>> \notin DOMAIN more
      <4>1. g[s] = 0 /\ f[s] = 0
        BY <2>1, <3>3
      <4>. QED  BY <4>1
    <3>. QED  BY <3>1, <3>2, <3>3
  <2>. QED  BY <2>1
<1>5. ShownIn(res, m) = SumTo(f, MaxShown) /\ ShownIn(more, m) = SumTo(g, MaxShown)
  BY DEF ShownIn
<1>. HIDE DEF f, g
<1>6. SumTo(f, MaxShown) \in Nat
  BY <1>1, <1>2, TotalOfAmounts
<1>7. CASE s \in 1..MaxShown
  <2>1. f \in [1..MaxShown -> Int] /\ g \in [1..MaxShown -> Int]
    BY <1>2
  <2>2. SumTo(g, MaxShown) = SumTo(f, MaxShown) - f[s] + g[s]
    BY <1>1, <1>3, <1>7, <2>1, TotalChange
  <2>3. f[s] \in Nat /\ g[s] \in Nat
    BY <1>2, <1>7
  <2>. QED  BY <1>4, <1>5, <1>6, <1>7, <2>2, <2>3
<1>8. CASE s \notin 1..MaxShown
  <2>1. \A x \in 1..MaxShown : g[x] = f[x]
    BY <1>3, <1>8
  <2>2. g = f
    <3>1. g = [x \in 1..MaxShown |-> g[x]] /\ f = [x \in 1..MaxShown |-> f[x]]
      BY <1>2
    <3>. QED  BY <2>1, <3>1
  <2>. QED  BY <1>5, <1>6, <2>2
<1>. QED  BY <1>7, <1>8

LEMMA NothingOver ==
    ASSUME NEW S, NEW f, \A id \in S : f[id] = 0
    PROVE  TotalOver(S, f) = 0
<1>. DEFINE t == [id \in 1..MaxBets |-> IF id \in S THEN f[id] ELSE 0]
<1>1. t \in [1..MaxBets -> Int] /\ \A id \in 1..MaxBets : t[id] = 0
  OBVIOUS
<1>. HIDE DEF t
<1>2. SumTo(t, MaxBets) = 0
  BY <1>1, AccountBounds, TotalOfZeros
<1>. QED  BY <1>2 DEF TotalOver, t

LEMMA NothingShown == \A m : ShownIn(<<>>, m) = 0
<1>. SUFFICES ASSUME NEW m PROVE ShownIn(<<>>, m) = 0
  OBVIOUS
<1>. DEFINE f == [x \in 1..MaxShown |->
                     IF <<m, x>> \in DOMAIN <<>> THEN <<>>[<<m, x>>].amount ELSE 0]
<1>1. MaxShown \in Nat
  BY IndexerConstants, AccountBounds DEF MaxShown
<1>2. f \in [1..MaxShown -> Int] /\ \A x \in 1..MaxShown : f[x] = 0
  OBVIOUS
<1>3. ShownIn(<<>>, m) = SumTo(f, MaxShown)
  BY DEF ShownIn
<1>. HIDE DEF f
<1>. QED  BY <1>1, <1>2, <1>3, TotalOfZeros

LEMMA ShownIs ==
    ASSUME NEW res, Results(res), NEW m
    PROVE  ShownIn(res, m) \in Nat
<1>. DEFINE f == [x \in 1..MaxShown |->
                     IF <<m, x>> \in DOMAIN res THEN res[<<m, x>>].amount ELSE 0]
<1>1. MaxShown \in Nat
  BY IndexerConstants, AccountBounds DEF MaxShown
<1>2. f \in [1..MaxShown -> Nat]
  BY DEF Results
<1>. HIDE DEF f
<1>3. SumTo(f, MaxShown) \in Nat
  BY <1>1, <1>2, TotalOfAmounts
<1>. QED  BY <1>3 DEF ShownIn, f

\* announce: what a market's result shows was waiting, and is waiting no more.
LEMMA Announced ==
    ASSUME IndexInv, NEW parts, PartsOf(parts, Len(bets)), NEW waiting, Results(results),
           Announce(parts, waiting)
    PROVE  /\ PartsOf(settled', Len(bets)) /\ Results(results')
           /\ \A m \in Markets :
                 ShownIn(results', m) + WaitingOf(settled', bets, m)
                    <= ShownIn(results, m) + WaitingOf(parts, bets, m)
<1>. DEFINE Awaited(m) == \E id \in waiting : bets[id].market = m
            due == {id \in DOMAIN parts : ~Awaited(bets[id].market)}
            Of(m) == {id \in due : bets[id].market = m}
            keys == {<<m, StakeOf(parts, Of(m))>> : m \in {bets[id].market : id \in due}}
            more == [k \in DOMAIN results \cup keys |->
                        IF k \in DOMAIN results THEN results[k] ELSE Result(parts, Of(k[1]))]
            rest == [id \in DOMAIN parts \ due |-> parts[id]]
            amounts == [id \in DOMAIN parts |-> parts[id].amount]
            markets == {bets[id].market : id \in due}
<1>1. results' = more /\ settled' = rest
  BY Zenon DEF Announce
<1>0. ASSUME NEW k \in keys PROVE k[1] \in markets /\ k = <<k[1], StakeOf(parts, Of(k[1]))>>
  <2>. HIDE DEF Of, markets
  <2>1. PICK x \in markets : k = <<x, StakeOf(parts, Of(x))>>
    BY DEF markets
  <2>. QED  BY <2>1
<1>2. \A id \in DOMAIN parts : parts[id].amount \in Nat
  BY DEF PartsOf
<1>3. ASSUME NEW m
      PROVE  /\ Result(parts, Of(m)).amount = TotalOver(Of(m), amounts)
             /\ TotalOver(Of(m), amounts) \in Nat
  <2>. DEFINE S == Of(m)
              shown == [id \in S |-> parts[id].amount]
  <2>1. Result(parts, S).amount = TotalOver(S, shown)
    BY DEF Result
  <2>2. \A id \in S : id \in DOMAIN parts /\ shown[id] = amounts[id] /\ amounts[id] \in Nat
    BY <1>2
  <2>. HIDE DEF S, shown, amounts
  <2>3. TotalOver(S, shown) = TotalOver(S, amounts) /\ TotalOver(S, amounts) \in Nat
    BY <2>2, TotalOverSame, TotalOverIs
  <2>. QED  BY <2>1, <2>3 DEF S
<1>4. PartsOf(rest, Len(bets))
  BY <1>2 DEF PartsOf
<1>5. Results(more)
  <2>1. \A k \in DOMAIN results : results[k].amount \in Nat
    BY DEF Results
  <2>. HIDE DEF Of, due, keys, amounts
  <2>. QED  BY <1>3, <2>1 DEF Results
<1>6. ASSUME NEW m \in Markets
      PROVE  ShownIn(more, m) + WaitingOf(rest, bets, m)
                <= ShownIn(results, m) + WaitingOf(parts, bets, m)
  <2>. DEFINE on == {id \in DOMAIN parts : bets[id].market = m}
  <2>1. \A id \in on : amounts[id] \in Nat
    BY <1>2
  <2>2. WaitingOf(parts, bets, m) = TotalOver(on, amounts) /\ TotalOver(on, amounts) \in Nat
    <3>. HIDE DEF on, amounts
    <3>1. TotalOver(on, amounts) \in Nat
      BY <2>1, TotalOverIs
    <3>. QED  BY <3>1 DEF on, amounts, WaitingOf
  <2>3. CASE Awaited(m)
    <3>1. Of(m) = {}
      BY <2>3
    <3>2. WaitingOf(rest, bets, m) = WaitingOf(parts, bets, m)
      <4>. DEFINE left == {id \in DOMAIN rest : bets[id].market = m}
                  those == [id \in DOMAIN rest |-> rest[id].amount]
      <4>1. (\A id : id \in left <=> id \in on) /\ \A id \in left : those[id] = amounts[id]
        BY <2>3
      <4>. HIDE DEF left, those, on, amounts
      <4>2. TotalOver(left, those) = TotalOver(on, amounts)
        BY <4>1, TotalOverSame
      <4>. QED  BY <2>2, <4>2 DEF WaitingOf, left, those
    <3>3. \A k : k[1] = m => (k \in DOMAIN more <=> k \in DOMAIN results)
      <4>1. \A k \in keys : k[1] # m
        <5>1. m \notin markets
          BY <2>3
        <5>. QED  BY <1>0, <5>1
      <4>. HIDE DEF keys
      <4>. QED  BY <4>1
    <3>4. \A k \in DOMAIN results : k \in DOMAIN more /\ more[k] = results[k]
      <4>. HIDE DEF keys
      <4>. QED  OBVIOUS
    <3>5. <<m, 0>>[1] = m
      OBVIOUS
    <3>. HIDE DEF more, rest, keys, due, Of, on, amounts
    <3>6. ShownIn(more, m) <= ShownIn(results, m) + 0
      BY <1>5, <3>3, <3>4, <3>5, OneMoreShown
    <3>7. ShownIn(more, m) \in Nat /\ ShownIn(results, m) \in Nat
      BY <1>5, ShownIs
    <3>. QED  BY <2>2, <3>2, <3>6, <3>7
  <2>4. CASE ~Awaited(m)
    <3>. DEFINE s == StakeOf(parts, Of(m))
                a == TotalOver(on, amounts)
    <3>1. Of(m) = on
      BY <2>4
    <3>2. WaitingOf(rest, bets, m) = 0
      <4>. DEFINE left == {id \in DOMAIN rest : bets[id].market = m}
                  those == [id \in DOMAIN rest |-> rest[id].amount]
      <4>1. left = {}
        BY <2>4
      <4>. HIDE DEF left, those
      <4>2. TotalOver({}, those) = 0
        BY NothingOver
      <4>. QED  BY <4>1, <4>2 DEF WaitingOf, left, those
    <3>3. \A k \in keys : k[1] = m => k = <<m, s>>
      <4>. HIDE DEF keys, Of
      <4>. QED  BY <1>0
    <3>4. /\ \A k : k[1] = m /\ k # <<m, s>> => (k \in DOMAIN more <=> k \in DOMAIN results)
          /\ \A k \in DOMAIN results : k \in DOMAIN more /\ more[k] = results[k]
      <4>. HIDE DEF keys, s
      <4>. QED  BY <3>3
    <3>5. <<m, s>> \in DOMAIN more \ DOMAIN results => more[<<m, s>>].amount = a
      <4>1. <<m, s>>[1] = m
        OBVIOUS
      <4>2. Result(parts, Of(m)).amount = a
        <5>. HIDE DEF on, Of, amounts
        <5>. QED  BY <1>3, <3>1
      <4>. HIDE DEF keys, s, on, amounts, a, Of
      <4>3. <<m, s>> \in DOMAIN more \ DOMAIN results =>
               more[<<m, s>>] = Result(parts, Of(<<m, s>>[1]))
        OBVIOUS
      <4>. QED  BY <4>1, <4>2, <4>3
    <3>. HIDE DEF more, rest, keys, due, Of, on, amounts, s
    <3>6. a \in Nat
      BY <2>2
    <3>. HIDE DEF a
    <3>7. ShownIn(more, m) <= ShownIn(results, m) + a
      BY <1>5, <3>4, <3>5, <3>6, OneMoreShown
    <3>8. ShownIn(more, m) \in Nat /\ ShownIn(results, m) \in Nat
      BY <1>5, ShownIs
    <3>9. WaitingOf(parts, bets, m) = a
      BY <2>2 DEF a
    <3>. QED  BY <3>2, <3>6, <3>7, <3>8, <3>9
  <2>. QED  BY <2>3, <2>4
<1>. QED  BY <1>1, <1>4, <1>5, <1>6

\* What a bet owes is an amount.
LEMMA OwedIs == \A b : Owed(b) \in Nat
BY IndexerConstants DEF Owed

LEMMA WaitingIs ==
    ASSUME NEW parts, NEW n, PartsOf(parts, n), NEW b, NEW m
    PROVE  WaitingOf(parts, b, m) \in Nat
<1>. DEFINE on == {id \in DOMAIN parts : b[id].market = m}
            amounts == [id \in DOMAIN parts |-> parts[id].amount]
<1>1. \A id \in on : amounts[id] \in Nat
  BY DEF PartsOf
<1>. HIDE DEF on, amounts
<1>2. TotalOver(on, amounts) \in Nat
  BY <1>1, TotalOverIs
<1>. QED  BY <1>2 DEF WaitingOf, on, amounts

LEMMA BackedIs ==
    ASSUME NEW b, NEW P, NEW m
    PROVE  BackedOf(b, P, m) \in Nat
<1>. DEFINE on == {id \in DOMAIN b : b[id].market = m /\ b[id].claimed /\ id \notin P}
            owed == [id \in DOMAIN b |-> Owed(b[id])]
<1>1. \A id \in on : owed[id] \in Nat
  BY OwedIs
<1>. HIDE DEF on, owed
<1>2. TotalOver(on, owed) \in Nat
  BY <1>1, TotalOverIs
<1>. QED  BY <1>2 DEF BackedOf, on, owed

\* settle: what is added to what is waiting is waiting with it.
LEMMA PartsAdded ==
    ASSUME NEW parts, NEW n, PartsOf(parts, n), NEW ids \in SUBSET (1..n), NEW amounts,
           \A id \in ids : amounts[id] \in Nat
    PROVE  /\ PartsOf(WithParts(parts, ids, amounts), n)
           /\ \A b, m : WaitingOf(WithParts(parts, ids, amounts), b, m)
                           = WaitingOf(parts, b, m)
                               + TotalOver({id \in ids : b[id].market = m}, amounts)
<1>. DEFINE more == WithParts(parts, ids, amounts)
<1>1. \A id \in DOMAIN parts : parts[id].amount \in Nat
  BY DEF PartsOf
<1>2. DOMAIN more = DOMAIN parts \cup ids /\ more = [id \in DOMAIN more |-> more[id]]
  BY DEF WithParts
<1>3. ASSUME NEW id \in DOMAIN parts \cup ids
      PROVE  more[id].amount = (IF id \in DOMAIN parts THEN parts[id].amount ELSE 0)
                                 + (IF id \in ids THEN amounts[id] ELSE 0)
  <2>. DEFINE before == IF id \in DOMAIN parts THEN parts[id] ELSE [copies |-> 0, amount |-> 0]
  <2>1. before.amount = (IF id \in DOMAIN parts THEN parts[id].amount ELSE 0)
        /\ before.amount \in Nat
    BY <1>1
  <2>2. more[id] = IF id \notin ids THEN before
                   ELSE [copies |-> Min({before.copies + 1, MaxCopies}),
                         amount |-> before.amount + amounts[id]]
    BY Zenon DEF WithParts
  <2>. HIDE DEF before, more
  <2>3. CASE id \in ids
    <3>1. more[id].amount = before.amount + amounts[id]
      BY <2>2, <2>3
    <3>. QED  BY <2>1, <2>3, <3>1
  <2>4. CASE id \notin ids
    BY <2>1, <2>2, <2>4
  <2>. QED  BY <2>3, <2>4
<1>. HIDE DEF more
<1>4. PartsOf(more, n)
  <2>1. \A id \in DOMAIN more : more[id].amount \in Nat
    BY <1>1, <1>2, <1>3
  <2>2. DOMAIN more \subseteq 1..n
    BY <1>2 DEF PartsOf
  <2>. QED  BY <1>2, <2>1, <2>2 DEF PartsOf
<1>5. ASSUME NEW b, NEW m
      PROVE  WaitingOf(more, b, m)
                = WaitingOf(parts, b, m) + TotalOver({id \in ids : b[id].market = m}, amounts)
  <2>. DEFINE S == {id \in DOMAIN parts : b[id].market = m}
              f == [id \in DOMAIN parts |-> parts[id].amount]
              R == {id \in ids : b[id].market = m}
              T == {id \in DOMAIN more : b[id].market = m}
              h == [id \in DOMAIN more |-> more[id].amount]
  <2>1. (\A id \in S : f[id] \in Nat) /\ \A id \in R : amounts[id] \in Nat
    BY <1>1
  <2>2. \A id : id \in T <=> id \in S \cup R
    BY <1>2
  <2>3. ASSUME NEW id \in T
        PROVE  h[id] = (IF id \in S THEN f[id] ELSE 0) + (IF id \in R THEN amounts[id] ELSE 0)
    <3>1. id \in DOMAIN parts \cup ids /\ b[id].market = m /\ h[id] = more[id].amount
      BY <1>2
    <3>2. (id \in S <=> id \in DOMAIN parts) /\ (id \in R <=> id \in ids)
          /\ (id \in DOMAIN parts => f[id] = parts[id].amount)
      BY <3>1
    <3>. HIDE DEF S, R, T, f, h
    <3>. QED  BY <1>3, <3>1, <3>2
  <2>. HIDE DEF S, R, T, f, h
  <2>4. TotalOver(T, h) = TotalOver(S, f) + TotalOver(R, amounts)
    BY <2>1, <2>2, <2>3, TotalOverBoth
  <2>. QED  BY <2>4 DEF S, R, T, f, h, WaitingOf
<1>. QED  BY <1>4, <1>5 DEF more

\* What is waiting of bets goes on waiting while others are struck or settled.
LEMMA WaitingStays ==
    ASSUME IndexInv, IndexInv', BetsAdvance, NEW parts, PartsOf(parts, Len(bets))
    PROVE  /\ PartsOf(parts, Len(bets'))
           /\ \A m : WaitingOf(parts, bets', m) = WaitingOf(parts, bets, m)
<1>1. DOMAIN bets = 1..Len(bets) /\ Len(bets) \in Nat /\ Len(bets') \in Nat
  BY DEF IndexInv
<1>2. DOMAIN parts \subseteq DOMAIN bets
  BY <1>1 DEF PartsOf
<1>3. PartsOf(parts, Len(bets'))
  <2>1. 1..Len(bets) \subseteq 1..Len(bets')
    BY <1>1 DEF BetsAdvance
  <2>. QED  BY <2>1 DEF PartsOf
<1>4. ASSUME NEW m PROVE WaitingOf(parts, bets', m) = WaitingOf(parts, bets, m)
  <2>1. {id \in DOMAIN parts : bets'[id].market = m} = {id \in DOMAIN parts : bets[id].market = m}
    BY <1>2 DEF BetsAdvance
  <2>. QED  BY <2>1 DEF WaitingOf
<1>. QED  BY <1>3, <1>4

LEMMA OwedGrows ==
    ASSUME BetsAdvance, NEW id \in DOMAIN bets
    PROVE  Owed(bets[id]) <= Owed(bets'[id])
<1>1. Owed(bets[id]) \in Nat /\ Owed(bets'[id]) \in Nat
  BY OwedIs
<1>2. CASE bets[id].status = "Open"
  <2>1. Owed(bets[id]) = 0
    BY <1>2 DEF Owed
  <2>. QED  BY <1>1, <2>1
<1>3. CASE bets[id].status # "Open"
  <2>1. bets'[id].status = bets[id].status
    BY <1>3 DEF BetsAdvance
  <2>2. Owed(bets[id]) = Owed(bets'[id])
    BY <2>1 DEF Owed
  <2>. QED  BY <1>1, <2>2
<1>. QED  BY <1>2, <1>3

\* What bets have paid they have paid for good.
LEMMA BackedGrows ==
    ASSUME BetsAdvance, NEW P, NEW Q, Q \subseteq P, NEW m
    PROVE  BackedOf(bets, P, m) <= BackedOf(bets', Q, m)
<1>. DEFINE S == {id \in DOMAIN bets : bets[id].market = m /\ bets[id].claimed /\ id \notin P}
            f == [id \in DOMAIN bets |-> Owed(bets[id])]
            R == {id \in DOMAIN bets' : bets'[id].market = m /\ bets'[id].claimed /\ id \notin Q}
            g == [id \in DOMAIN bets' |-> Owed(bets'[id])]
<1>1. (\A id \in S : f[id] \in Nat) /\ \A id \in R : g[id] \in Nat
  BY OwedIs
<1>2. ASSUME NEW id \in S PROVE id \in R /\ f[id] <= g[id]
  <2>1. id \in R /\ f[id] = Owed(bets[id]) /\ g[id] = Owed(bets'[id])
    BY DEF BetsAdvance
  <2>2. Owed(bets[id]) <= Owed(bets'[id])
    BY OwedGrows
  <2>. QED  BY <2>1, <2>2
<1>. HIDE DEF S, f, R, g
<1>3. TotalOver(S, f) <= TotalOver(R, g)
  BY <1>1, <1>2, TotalOverLess
<1>. QED  BY <1>3 DEF BackedOf, S, f, R, g

\* A payout is of bets that owe what it says, and they go on owing it.
LEMMA PayoutStays ==
    ASSUME BetsAdvance, NEW e, PayoutRight(e, bets)
    PROVE  PayoutRight(e, bets')
<1>1. ASSUME NEW id \in DOMAIN bets, Owed(bets[id]) > 0
      PROVE  id \in DOMAIN bets' /\ Owed(bets'[id]) = Owed(bets[id])
  <2>1. bets[id].status # "Open"
    BY <1>1 DEF Owed
  <2>2. bets'[id].status = bets[id].status /\ id \in DOMAIN bets'
    BY <2>1 DEF BetsAdvance
  <2>. QED  BY <2>2 DEF Owed
<1>. QED  BY <1>1 DEF PayoutRight

\* A step that shows no more than was waiting, of bets that no payout is under
\* way of, shows no more than was paid.
LEMMA AccountMoves ==
    ASSUME AccountInv, IndexInv', BetsAdvance, watched' \subseteq DOMAIN bets',
           receipt' \in {None} \cup DOMAIN bets', PayoutRight(engine', bets'),
           PayingNow(engine') \subseteq PayingNow(engine),
           PartsOf(settled', Len(bets)), Results(results'),
           \A m \in Markets :
              ShownIn(results', m) + WaitingOf(settled', bets, m)
                 <= ShownIn(results, m) + WaitingOf(settled, bets, m)
    PROVE  AccountInv'
<1>1. /\ PartsOf(settled', Len(bets'))
      /\ \A m : WaitingOf(settled', bets', m) = WaitingOf(settled', bets, m)
  BY WaitingStays DEF AccountInv
<1>2. ASSUME NEW m \in Markets
      PROVE  ShownIn(results', m) + WaitingOf(settled', bets', m)
                <= BackedOf(bets', PayingNow(engine'), m)
  <2>1. BackedOf(bets, PayingNow(engine), m) <= BackedOf(bets', PayingNow(engine'), m)
    BY BackedGrows
  <2>2. ShownIn(results, m) + WaitingOf(settled, bets, m) <= BackedOf(bets, PayingNow(engine), m)
    BY DEF AccountInv
  <2>3. /\ ShownIn(results', m) + WaitingOf(settled', bets, m)
              <= ShownIn(results, m) + WaitingOf(settled, bets, m)
        /\ WaitingOf(settled', bets', m) = WaitingOf(settled', bets, m)
    BY <1>1
  <2>4. ShownIn(results, m) \in Nat /\ ShownIn(results', m) \in Nat
    BY ShownIs DEF AccountInv
  <2>5. WaitingOf(settled, bets, m) \in Nat /\ WaitingOf(settled', bets, m) \in Nat
    BY WaitingIs DEF AccountInv
  <2>6. /\ BackedOf(bets, PayingNow(engine), m) \in Nat
        /\ BackedOf(bets', PayingNow(engine'), m) \in Nat
    BY BackedIs
  <2>. QED  BY <2>1, <2>2, <2>3, <2>4, <2>5, <2>6
<1>. QED  BY <1>1, <1>2 DEF AccountInv

\* A step that leaves alone what is shown and waiting.
LEMMA AccountRests ==
    ASSUME AccountInv, IndexInv', BetsAdvance, UNCHANGED settled, UNCHANGED results,
           watched' \subseteq DOMAIN bets', receipt' \in {None} \cup DOMAIN bets',
           PayoutRight(engine', bets'), PayingNow(engine') \subseteq PayingNow(engine)
    PROVE  AccountInv'
<1>1. PartsOf(settled', Len(bets)) /\ Results(results')
  BY DEF AccountInv
<1>2. \A m \in Markets :
         ShownIn(results', m) + WaitingOf(settled', bets, m)
            <= ShownIn(results, m) + WaitingOf(settled, bets, m)
  <2>1. ASSUME NEW m \in Markets
        PROVE  ShownIn(results, m) + WaitingOf(settled, bets, m) \in Nat
    <3>1. ShownIn(results, m) \in Nat /\ WaitingOf(settled, bets, m) \in Nat
      BY ShownIs, WaitingIs DEF AccountInv
    <3>. QED  BY <3>1
  <2>. QED  BY <2>1
<1>. QED  BY <1>1, <1>2, AccountMoves

\* The chain and the indexer go on beside the page.
LEMMA AccountWaits ==
    ASSUME AccountInv, IndexInv', BetsAdvance, UNCHANGED pageVars
    PROVE  AccountInv'
<1>1. UNCHANGED engine /\ UNCHANGED watched /\ UNCHANGED settled /\ UNCHANGED receipt
      /\ UNCHANGED results
  BY DEF pageVars
<1>2. DOMAIN bets \subseteq DOMAIN bets'
  BY DEF BetsAdvance
<1>3. watched' \subseteq DOMAIN bets' /\ receipt' \in {None} \cup DOMAIN bets'
  BY <1>1, <1>2 DEF AccountInv
<1>4. PayoutRight(engine', bets') /\ PayingNow(engine') \subseteq PayingNow(engine)
  BY <1>1, PayoutStays DEF AccountInv
<1>. QED  BY <1>1, <1>3, <1>4, AccountRests

\* A payout adds what it pays to what was paid.
LEMMA PaidIn ==
    ASSUME IndexInv, BetsAdvance, NEW payable, DOMAIN payable \subseteq DOMAIN bets,
           \A id \in DOMAIN payable :
              Owed(bets[id]) > 0 /\ payable[id] = Owed(bets[id]) /\ bets'[id].claimed,
           NEW m
    PROVE  BackedOf(bets, DOMAIN payable, m)
              + TotalOver({id \in DOMAIN payable : bets[id].market = m}, payable)
              <= BackedOf(bets', {}, m)
<1>. DEFINE P == DOMAIN payable
            S == {id \in DOMAIN bets : bets[id].market = m /\ bets[id].claimed /\ id \notin P}
            f == [id \in DOMAIN bets |-> Owed(bets[id])]
            R == {id \in P : bets[id].market = m}
            T == {id \in DOMAIN bets : bets[id].market = m /\ (bets[id].claimed \/ id \in P)}
            U == {id \in DOMAIN bets' : bets'[id].market = m /\ bets'[id].claimed /\ id \notin {}}
            g == [id \in DOMAIN bets' |-> Owed(bets'[id])]
<1>1. /\ \A id \in S : f[id] \in Nat
      /\ \A id \in R : payable[id] \in Nat
      /\ \A id \in T : f[id] \in Nat
      /\ \A id \in U : g[id] \in Nat
  BY OwedIs
<1>2. \A id : id \in T <=> id \in S \cup R
  OBVIOUS
<1>3. ASSUME NEW id \in T
      PROVE  f[id] = (IF id \in S THEN f[id] ELSE 0) + (IF id \in R THEN payable[id] ELSE 0)
  <2>1. CASE id \in P
    <3>1. id \notin S /\ id \in R /\ f[id] = payable[id] /\ f[id] \in Nat
      BY <1>1, <2>1
    <3>. HIDE DEF S, R, f
    <3>. QED  BY <3>1
  <2>2. CASE id \notin P
    <3>1. id \in S /\ id \notin R /\ f[id] \in Nat
      BY <1>1, <2>2
    <3>. HIDE DEF S, R, f
    <3>. QED  BY <3>1
  <2>. QED  BY <2>1, <2>2
<1>4. ASSUME NEW id \in T PROVE id \in U /\ f[id] <= g[id]
  <2>1. id \in U /\ f[id] = Owed(bets[id]) /\ g[id] = Owed(bets'[id])
    BY DEF BetsAdvance
  <2>2. Owed(bets[id]) <= Owed(bets'[id])
    BY OwedGrows
  <2>. QED  BY <2>1, <2>2
<1>. HIDE DEF S, f, R, T, U, g
<1>5. TotalOver(T, f) = TotalOver(S, f) + TotalOver(R, payable)
  BY <1>1, <1>2, <1>3, TotalOverBoth
<1>6. TotalOver(T, f) <= TotalOver(U, g)
  BY <1>1, <1>4, TotalOverLess
<1>. QED  BY <1>5, <1>6 DEF BackedOf, S, f, R, U, g

LEMMA ChainStays ==
    ASSUME IndexInv, UNCHANGED indexerVars
    PROVE  IndexInv' /\ BetsAdvance /\ UNCHANGED bets
<1>1. UNCHANGED bets /\ UNCHANGED saves /\ UNCHANGED log /\ UNCHANGED rows
  BY DEF indexerVars
<1>2. Len(bets) \in Nat
  BY DEF IndexInv
<1>3. IndexInv'
  BY <1>1 DEF IndexInv
<1>. QED  BY <1>1, <1>2, <1>3 DEF BetsAdvance

LEMMA RestingFits == \A b : PayoutRight(Resting, b) /\ PayingNow(Resting) = {}
BY DEF Resting, PayoutRight, PayingNow

LEMMA BackedOffFits ==
    ASSUME PayoutRight(engine, bets)
    PROVE  /\ PayoutRight([engine EXCEPT !.backoff = FALSE], bets)
           /\ PayingNow([engine EXCEPT !.backoff = FALSE]) = PayingNow(engine)
<1>. DEFINE no == FALSE
            e == [engine EXCEPT !.backoff = no]
<1>. SUFFICES PayoutRight(e, bets) /\ PayingNow(e) = PayingNow(engine)
  OBVIOUS
<1>. HIDE DEF no
<1>1. CASE engine.step # "pay" /\ engine = [step |-> engine.step, backoff |-> engine.backoff]
  <2>1. PICK step, backoff : engine = [step |-> step, backoff |-> backoff]
    BY <1>1
  <2>2. e = [[step |-> step, backoff |-> backoff] EXCEPT !.backoff = no]
    BY <2>1
  <2>3. e = [step |-> step, backoff |-> no] /\ engine.step = step
    BY <2>1, <2>2
  <2>. HIDE DEF e
  <2>4. e = [step |-> e.step, backoff |-> e.backoff] /\ e.step = engine.step
    BY <2>3
  <2>5. PayoutRight(e, bets)
    BY <1>1, <2>4 DEF PayoutRight
  <2>. QED  BY <1>1, <2>4, <2>5 DEF PayingNow
<1>2. CASE /\ engine = [step |-> "pay", backoff |-> engine.backoff, open |-> engine.open,
                        payable |-> engine.payable]
           /\ engine.payable = [id \in DOMAIN engine.payable |-> engine.payable[id]]
           /\ DOMAIN engine.payable \subseteq DOMAIN bets
           /\ \A id \in DOMAIN engine.payable :
                 Owed(bets[id]) > 0 /\ engine.payable[id] = Owed(bets[id])
  <2>1. PICK step, backoff, open, payable :
           engine = [step |-> step, backoff |-> backoff, open |-> open, payable |-> payable]
    BY <1>2
  <2>2. e = [[step |-> step, backoff |-> backoff, open |-> open, payable |-> payable]
                EXCEPT !.backoff = no]
    BY <2>1
  <2>3. e = [step |-> step, backoff |-> no, open |-> open, payable |-> payable]
    BY <2>2
  <2>4. engine.step = "pay"
    BY <1>2
  <2>5. engine.step = step /\ engine.payable = payable
    BY <2>1
  <2>. HIDE DEF e
  <2>6. e = [step |-> "pay", backoff |-> e.backoff, open |-> e.open, payable |-> e.payable]
        /\ e.step = "pay" /\ e.payable = engine.payable
    BY <2>3, <2>4, <2>5
  <2>7. PayoutRight(e, bets)
    BY <1>2, <2>6 DEF PayoutRight
  <2>. QED  BY <2>4, <2>6, <2>7 DEF PayingNow
<1>. HIDE DEF e
<1>. QED  BY <1>1, <1>2 DEF PayoutRight

\* Setup, a back-off that is over, a receipt that is in or lost, and a look at
\* the indexer's rows.
LEMMA PageKeeps ==
    ASSUME AccountInv, Open \/ TrackPlaced \/ BackoffOver \/ ReceiptLost \/ Seed
    PROVE  AccountInv'
<1>1. UNCHANGED indexerVars /\ UNCHANGED settled /\ UNCHANGED results
  BY DEF Open, TrackPlaced, BackoffOver, ReceiptLost, Seed
<1>2. IndexInv' /\ BetsAdvance /\ UNCHANGED bets
  BY <1>1, ChainStays DEF AccountInv
<1>3. /\ watched \subseteq DOMAIN bets /\ receipt \in {None} \cup DOMAIN bets
      /\ PayoutRight(engine, bets) /\ DOMAIN rows.bet \subseteq DOMAIN bets
  BY DEF AccountInv, IndexInv
<1>4. watched' \subseteq DOMAIN bets' /\ receipt' \in {None} \cup DOMAIN bets'
  BY <1>2, <1>3 DEF Open, TrackPlaced, BackoffOver, ReceiptLost, Seed, Seeds
<1>5. engine' = Resting \/ engine' = [engine EXCEPT !.backoff = FALSE] \/ UNCHANGED engine
  BY DEF Open, TrackPlaced, BackoffOver, ReceiptLost, Seed
<1>6. PayoutRight(engine', bets') /\ PayingNow(engine') \subseteq PayingNow(engine)
  BY <1>2, <1>3, <1>5, RestingFits, BackedOffFits
<1>. QED  BY <1>1, <1>2, <1>4, <1>6, AccountRests

\* A reload: nothing is shown, nothing waits.
LEMMA ReloadKeeps ==
    ASSUME AccountInv, Reload
    PROVE  AccountInv'
<1>1. /\ engine' = Closed /\ watched' = {} /\ settled' = <<>> /\ receipt' = None
      /\ results' = <<>> /\ UNCHANGED indexerVars
  BY DEF Reload
<1>2. IndexInv' /\ BetsAdvance
  BY <1>1, ChainStays DEF AccountInv
<1>3. PayoutRight(engine', bets') /\ PayingNow(engine') = {}
  BY <1>1 DEF Closed, PayoutRight, PayingNow
<1>4. PartsOf(settled', Len(bets)) /\ Results(results')
  BY <1>1 DEF PartsOf, Results
<1>5. ASSUME NEW m \in Markets
      PROVE  ShownIn(results', m) + WaitingOf(settled', bets, m)
                <= ShownIn(results, m) + WaitingOf(settled, bets, m)
  <2>1. ShownIn(results', m) = 0
    BY <1>1, NothingShown
  <2>2. WaitingOf(settled', bets, m) = 0
    <3>1. {id \in DOMAIN settled' : bets[id].market = m} = {}
      BY <1>1
    <3>. QED  BY <3>1, NothingOver DEF WaitingOf
  <2>3. ShownIn(results, m) \in Nat /\ WaitingOf(settled, bets, m) \in Nat
    BY ShownIs, WaitingIs DEF AccountInv
  <2>. QED  BY <2>1, <2>2, <2>3
<1>. QED  BY <1>1, <1>2, <1>3, <1>4, <1>5, AccountMoves

\* A bet from this page or from elsewhere, and a collection elsewhere.
LEMMA FanKeeps ==
    ASSUME AccountInv,
           \/ \E m \in Markets, s \in BetSides : Bet(m, s) \/ BetElsewhere(m, s)
           \/ ClaimElsewhere
    PROVE  AccountInv'
<1>1. IndexInv
  BY DEF AccountInv
<1>2. ASSUME NEW m \in Markets, NEW s \in BetSides, Bet(m, s) PROVE AccountInv'
  <2>1. IndexInv' /\ BetsAdvance /\ Len(bets') = Len(bets) + 1
    <3>1. PlaceFills(m, s, 1)
      BY <1>2 DEF Bet, PlaceBet
    <3>. QED  BY <1>1, <3>1, PlaceFillsKeeps
  <2>2. receipt' \in DOMAIN bets'
    <3>1. DOMAIN bets' = 1..Len(bets') /\ Len(bets) \in Nat
      BY <1>1, <2>1 DEF IndexInv
    <3>. QED  BY <1>2, <2>1, <3>1 DEF Bet
  <2>3. UNCHANGED <<engine, watched, settled, results>>
    BY <1>2 DEF Bet
  <2>4. watched' \subseteq DOMAIN bets'
    BY <2>1, <2>3 DEF AccountInv, BetsAdvance
  <2>5. PayoutRight(engine', bets') /\ PayingNow(engine') \subseteq PayingNow(engine)
    BY <2>1, <2>3, PayoutStays DEF AccountInv
  <2>. QED  BY <2>1, <2>2, <2>3, <2>4, <2>5, AccountRests
<1>3. ASSUME NEW m \in Markets, NEW s \in BetSides, BetElsewhere(m, s) PROVE AccountInv'
  <2>1. PlaceFills(m, s, 1) /\ UNCHANGED pageVars
    BY <1>3 DEF BetElsewhere, PlaceBet, accountVars
  <2>2. IndexInv' /\ BetsAdvance
    BY <1>1, <2>1, PlaceFillsKeeps
  <2>. QED  BY <2>1, <2>2, AccountWaits
<1>4. CASE ClaimElsewhere
  <2>1. PICK id \in DOMAIN bets : ClaimBets({id}) /\ UNCHANGED pageVars
    BY <1>4 DEF ClaimElsewhere, accountVars
  <2>2. {id} \subseteq DOMAIN bets
    OBVIOUS
  <2>3. IndexInv' /\ BetsAdvance
    BY <1>1, <2>1, <2>2, ClaimKeeps
  <2>. QED  BY <2>1, <2>3, AccountWaits
<1>. QED  BY <1>2, <1>3, <1>4

LEMMA RestingBackedOff ==
    /\ PayoutRight([Resting EXCEPT !.backoff = TRUE], bets')
    /\ PayingNow([Resting EXCEPT !.backoff = TRUE]) = {}
<1>. DEFINE yes == TRUE
            e == [Resting EXCEPT !.backoff = yes]
<1>. SUFFICES PayoutRight(e, bets') /\ PayingNow(e) = {}
  OBVIOUS
<1>. HIDE DEF yes
<1>1. e = [step |-> "rest", backoff |-> yes]
  BY DEF Resting
<1>. HIDE DEF e
<1>. QED  BY <1>1 DEF PayoutRight, PayingNow

\* checkBets: what is settled without a payout pays nothing, and a payout that
\* begins is of bets that have paid nothing yet.
LEMMA AccountCheckKeeps ==
    ASSUME AccountInv, Check
    PROVE  AccountInv'
<1>. DEFINE open == {id \in watched : bets[id].status = "Open"}
            payable == {id \in watched \ open : Claimable(bets[id]) > 0}
            done == watched \ (open \cup payable)
            parts == WithParts(settled, done, [id \in done |-> 0])
            waiting == open \cup payable
<1>1. /\ engine.step = "rest" /\ watched' = watched \ done
      /\ UNCHANGED receipt /\ UNCHANGED indexerVars
      /\ \/ /\ engine' = [step |-> "pay", backoff |-> FALSE, open |-> open,
                          payable |-> [id \in payable |-> Owed(bets[id])]]
            /\ settled' = parts /\ UNCHANGED results
         \/ UNCHANGED engine /\ Announce(parts, waiting)
  BY DEF Check
<1>2. IndexInv /\ IndexInv' /\ BetsAdvance /\ UNCHANGED bets /\ DOMAIN bets = 1..Len(bets)
      /\ Len(bets) \in Nat
  BY <1>1, ChainStays DEF AccountInv, IndexInv
<1>3. /\ watched \subseteq DOMAIN bets /\ receipt \in {None} \cup DOMAIN bets
      /\ PayoutRight(engine, bets) /\ PartsOf(settled, Len(bets)) /\ Results(results)
  BY DEF AccountInv
<1>4. watched' \subseteq DOMAIN bets' /\ receipt' \in {None} \cup DOMAIN bets'
  BY <1>1, <1>2, <1>3
<1>5. /\ PartsOf(parts, Len(bets))
      /\ \A m : WaitingOf(parts, bets, m) = WaitingOf(settled, bets, m)
  <2>. DEFINE zeros == [id \in done |-> 0]
              added == WithParts(settled, done, zeros)
  <2>1. done \in SUBSET (1..Len(bets)) /\ \A id \in done : zeros[id] = 0
    BY <1>2, <1>3
  <2>. SUFFICES /\ PartsOf(added, Len(bets))
                /\ \A m : WaitingOf(added, bets, m) = WaitingOf(settled, bets, m)
    OBVIOUS
  <2>. HIDE DEF done, zeros
  <2>2. \A id \in done : zeros[id] \in Nat
    BY <2>1
  <2>3. PartsOf(added, Len(bets)) /\ \A m : WaitingOf(added, bets, m) =
           WaitingOf(settled, bets, m) + TotalOver({id \in done : bets[id].market = m}, zeros)
    <3>1. PartsOf(settled, Len(bets)) /\ done \in SUBSET (1..Len(bets))
      BY <1>3, <2>1
    <3>2. /\ PartsOf(WithParts(settled, done, zeros), Len(bets))
          /\ \A b, m : WaitingOf(WithParts(settled, done, zeros), b, m)
                 = WaitingOf(settled, b, m) + TotalOver({id \in done : b[id].market = m}, zeros)
      BY <2>2, <3>1, PartsAdded
    <3>. QED  BY <3>2
  <2>4. ASSUME NEW m PROVE TotalOver({id \in done : bets[id].market = m}, zeros) = 0
    BY <2>1, NothingOver
  <2>5. \A m : WaitingOf(settled, bets, m) \in Nat
    BY <1>3, WaitingIs
  <2>. HIDE DEF added
  <2>6. ASSUME NEW m PROVE WaitingOf(added, bets, m) = WaitingOf(settled, bets, m)
    <3>1. WaitingOf(added, bets, m) = WaitingOf(settled, bets, m)
             + TotalOver({id \in done : bets[id].market = m}, zeros)
      BY <2>3
    <3>. QED  BY <2>4, <2>5, <3>1
  <2>. QED  BY <2>3, <2>6
<1>6. PayingNow(engine) = {}
  BY <1>1 DEF PayingNow
<1>7. CASE /\ engine' = [step |-> "pay", backoff |-> FALSE, open |-> open,
                         payable |-> [id \in payable |-> Owed(bets[id])]]
           /\ settled' = parts /\ UNCHANGED results
  <2>. DEFINE owed == [id \in payable |-> Owed(bets[id])]
  <2>1. payable \subseteq DOMAIN bets /\ \A id \in payable : Owed(bets[id]) > 0 /\ ~bets[id].claimed
    BY <1>3 DEF Claimable
  <2>2. DOMAIN owed = payable /\ \A id \in payable : owed[id] = Owed(bets[id])
    OBVIOUS
  <2>3. engine'.step = "pay" /\ engine'.payable = owed
        /\ engine' = [step |-> "pay", backoff |-> engine'.backoff, open |-> engine'.open,
                      payable |-> engine'.payable]
    <3>. HIDE DEF open, owed
    <3>. QED  BY <1>7 DEF owed
  <2>4. PayoutRight(engine', bets')
    <3>1. owed = [id \in DOMAIN owed |-> owed[id]]
      OBVIOUS
    <3>. HIDE DEF owed, payable
    <3>. QED  BY <1>2, <2>1, <2>2, <2>3, <3>1 DEF PayoutRight
  <2>5. PayingNow(engine') = payable
    BY <2>2, <2>3 DEF PayingNow
  <2>6. ASSUME NEW m \in Markets
        PROVE  ShownIn(results', m) + WaitingOf(settled', bets', m)
                  <= BackedOf(bets', PayingNow(engine'), m)
    <3>. HIDE DEF parts, payable
    <3>1. {id \in DOMAIN bets : bets[id].market = m /\ bets[id].claimed /\ id \notin {}}
             = {id \in DOMAIN bets : bets[id].market = m /\ bets[id].claimed /\ id \notin payable}
      BY <2>1
    <3>2. BackedOf(bets, {}, m) = BackedOf(bets, payable, m)
      BY <3>1 DEF BackedOf
    <3>3. ShownIn(results, m) + WaitingOf(settled, bets, m) <= BackedOf(bets, {}, m)
      BY <1>6 DEF AccountInv
    <3>4. ShownIn(results', m) = ShownIn(results, m) /\ settled' = parts
      BY <1>7
    <3>. QED  BY <1>2, <1>5, <2>5, <3>2, <3>3, <3>4
  <2>7. PartsOf(settled', Len(bets')) /\ Results(results')
    BY <1>2, <1>3, <1>5, <1>7
  <2>. QED  BY <1>2, <1>4, <2>4, <2>6, <2>7 DEF AccountInv
<1>8. CASE UNCHANGED engine /\ Announce(parts, waiting)
  <2>. HIDE DEF parts, waiting
  <2>1. /\ PartsOf(settled', Len(bets)) /\ Results(results')
        /\ \A m \in Markets :
              ShownIn(results', m) + WaitingOf(settled', bets, m)
                 <= ShownIn(results, m) + WaitingOf(parts, bets, m)
    BY <1>2, <1>3, <1>5, <1>8, Announced
  <2>2. PayoutRight(engine', bets') /\ PayingNow(engine') \subseteq PayingNow(engine)
    BY <1>2, <1>3, <1>8
  <2>. QED  BY <1>2, <1>4, <1>5, <2>1, <2>2, AccountMoves
<1>. QED  BY <1>1, <1>7, <1>8

\* A payout that is in: what it paid is waiting, and what is announced of it is
\* waiting no more.
LEMMA PayKeeps ==
    ASSUME AccountInv, Pay
    PROVE  AccountInv'
<1>. DEFINE payable == engine.payable
            P == DOMAIN payable
            parts == WithParts(settled, P, payable)
<1>1. /\ engine.step = "pay" /\ ClaimBets(P) /\ watched' = watched \ P
      /\ Announce(parts, engine.open) /\ engine' = Resting /\ UNCHANGED receipt
  BY DEF Pay, Paying
<1>2. /\ IndexInv /\ DOMAIN bets = 1..Len(bets) /\ Len(bets) \in Nat
      /\ watched \subseteq DOMAIN bets /\ receipt \in {None} \cup DOMAIN bets
      /\ PartsOf(settled, Len(bets)) /\ Results(results)
  BY DEF AccountInv, IndexInv
<1>3. P \subseteq DOMAIN bets /\ \A id \in P : Owed(bets[id]) > 0 /\ payable[id] = Owed(bets[id])
  BY <1>1 DEF AccountInv, PayoutRight
<1>4. PayingNow(engine) = P /\ PayingNow(engine') = {} /\ PayoutRight(engine', bets')
  BY <1>1, RestingFits DEF PayingNow
<1>. HIDE DEF P, payable
<1>5. IndexInv' /\ BetsAdvance /\ \A id \in P : bets'[id].claimed
  <2>1. \A id \in P : Collectable(id)
    BY <1>3 DEF Collectable, Claimable
  <2>. QED  BY <1>1, <1>2, <1>3, <2>1, ClaimKeeps
<1>6. watched' \subseteq DOMAIN bets' /\ receipt' \in {None} \cup DOMAIN bets'
  BY <1>1, <1>2, <1>5 DEF BetsAdvance
<1>7. \A id \in P : payable[id] \in Nat
  BY <1>3, OwedIs
<1>8. /\ PartsOf(parts, Len(bets))
      /\ \A m : WaitingOf(parts, bets, m) = WaitingOf(settled, bets, m)
                   + TotalOver({id \in P : bets[id].market = m}, payable)
  <2>1. PartsOf(settled, Len(bets)) /\ P \in SUBSET (1..Len(bets))
    BY <1>2, <1>3
  <2>2. /\ PartsOf(WithParts(settled, P, payable), Len(bets))
        /\ \A b, m : WaitingOf(WithParts(settled, P, payable), b, m)
               = WaitingOf(settled, b, m) + TotalOver({id \in P : b[id].market = m}, payable)
    BY <1>7, <2>1, PartsAdded
  <2>. QED  BY <2>2
<1>. HIDE DEF parts
<1>9. /\ PartsOf(settled', Len(bets)) /\ Results(results')
      /\ \A m \in Markets :
            ShownIn(results', m) + WaitingOf(settled', bets, m)
               <= ShownIn(results, m) + WaitingOf(parts, bets, m)
  BY <1>1, <1>2, <1>8, Announced
<1>10. PartsOf(settled', Len(bets'))
       /\ \A m : WaitingOf(settled', bets', m) = WaitingOf(settled', bets, m)
  BY <1>2, <1>5, <1>9, WaitingStays
<1>11. ASSUME NEW m \in Markets
       PROVE  ShownIn(results', m) + WaitingOf(settled', bets', m)
                 <= BackedOf(bets', PayingNow(engine'), m)
  <2>. DEFINE paid == TotalOver({id \in P : bets[id].market = m}, payable)
  <2>1. BackedOf(bets, P, m) + paid <= BackedOf(bets', {}, m)
    BY <1>2, <1>3, <1>5, PaidIn DEF P
  <2>2. ShownIn(results, m) + WaitingOf(settled, bets, m) <= BackedOf(bets, P, m)
    BY <1>4 DEF AccountInv
  <2>3. paid \in Nat
    BY <1>7, TotalOverIs
  <2>. HIDE DEF paid
  <2>4. /\ ShownIn(results', m) + WaitingOf(settled', bets, m)
              <= ShownIn(results, m) + WaitingOf(parts, bets, m)
        /\ WaitingOf(parts, bets, m) = WaitingOf(settled, bets, m) + paid
        /\ WaitingOf(settled', bets', m) = WaitingOf(settled', bets, m)
    BY <1>8, <1>9, <1>10 DEF paid
  <2>5. ShownIn(results, m) \in Nat /\ ShownIn(results', m) \in Nat
    BY <1>2, <1>9, ShownIs
  <2>6. WaitingOf(settled, bets, m) \in Nat /\ WaitingOf(settled', bets, m) \in Nat
    BY <1>2, <1>9, WaitingIs
  <2>7. BackedOf(bets, P, m) \in Nat /\ BackedOf(bets', {}, m) \in Nat
    BY BackedIs
  <2>. QED  BY <1>4, <2>1, <2>2, <2>3, <2>4, <2>5, <2>6, <2>7
<1>. QED  BY <1>4, <1>5, <1>6, <1>9, <1>10, <1>11 DEF AccountInv

\* A payout that failed, or is in though its receipt is lost: none of it is shown.
LEMMA PayFailsKeeps ==
    ASSUME AccountInv, PayFails
    PROVE  AccountInv'
<1>. DEFINE waiting == engine.open \cup Paying
<1>1. /\ engine.step = "pay" /\ (ClaimBets(Paying) \/ UNCHANGED indexerVars)
      /\ Announce(settled, waiting) /\ engine' = [Resting EXCEPT !.backoff = TRUE]
      /\ UNCHANGED watched /\ UNCHANGED receipt
  BY DEF PayFails
<1>2. /\ IndexInv /\ watched \subseteq DOMAIN bets /\ receipt \in {None} \cup DOMAIN bets
      /\ PartsOf(settled, Len(bets)) /\ Results(results)
  BY DEF AccountInv
<1>3. IndexInv' /\ BetsAdvance
  <2>1. Paying \subseteq DOMAIN bets
    BY DEF AccountInv, PayoutRight, PayFails, Paying
  <2>. QED  BY <1>1, <1>2, <2>1, ClaimKeeps, ChainStays
<1>4. PayoutRight(engine', bets') /\ PayingNow(engine') \subseteq PayingNow(engine)
  BY <1>1, RestingBackedOff
<1>. HIDE DEF waiting
<1>5. /\ PartsOf(settled', Len(bets)) /\ Results(results')
      /\ \A m \in Markets :
            ShownIn(results', m) + WaitingOf(settled', bets, m)
               <= ShownIn(results, m) + WaitingOf(settled, bets, m)
  BY <1>1, <1>2, Announced
<1>6. watched' \subseteq DOMAIN bets' /\ receipt' \in {None} \cup DOMAIN bets'
  BY <1>1, <1>2, <1>3 DEF BetsAdvance
<1>. QED  BY <1>3, <1>4, <1>5, <1>6, AccountMoves

LEMMA AccountStepKeeps ==
    ASSUME AccountInv, AccountStep
    PROVE  AccountInv'
BY PageKeeps, ReloadKeeps, FanKeeps, AccountCheckKeeps, PayKeeps, PayFailsKeeps
   DEF AccountStep, TickStep

\* What was paid to the bets no payout is under way of was paid.
LEMMA ShownWasPaid == AccountInv => NeverOverstated
<1>. SUFFICES ASSUME AccountInv, NEW m \in Markets
              PROVE  ShownOf(m) <= TotalOver({id \in DOMAIN bets : bets[id].market = m
                                                                  /\ bets[id].claimed},
                                             [id \in DOMAIN bets |-> Owed(bets[id])])
  BY DEF NeverOverstated
<1>. DEFINE f == [id \in DOMAIN bets |-> Owed(bets[id])]
            S == {id \in DOMAIN bets : bets[id].market = m /\ bets[id].claimed
                                       /\ id \notin PayingNow(engine)}
            R == {id \in DOMAIN bets : bets[id].market = m /\ bets[id].claimed}
<1>1. /\ \A id \in S : f[id] \in Nat
      /\ \A id \in R : f[id] \in Nat
  BY OwedIs
<1>2. \A id \in S : id \in R
  OBVIOUS
<1>. HIDE DEF f, S, R
<1>3. \A id \in S : id \in R /\ f[id] <= f[id]
  BY <1>1, <1>2
<1>4. TotalOver(S, f) <= TotalOver(R, f)
  BY <1>1, <1>3, TotalOverLess
<1>5. TotalOver(S, f) \in Nat /\ TotalOver(R, f) \in Nat
  BY <1>1, TotalOverIs
<1>6. ShownIn(results, m) + WaitingOf(settled, bets, m) <= TotalOver(S, f)
  BY DEF AccountInv, BackedOf, S, f
<1>7. ShownIn(results, m) \in Nat /\ WaitingOf(settled, bets, m) \in Nat
  BY ShownIs, WaitingIs DEF AccountInv
<1>8. ShownOf(m) = ShownIn(results, m)
  BY DEF ShownOf, ShownIn
<1>9. ShownOf(m) <= TotalOver(R, f)
  BY <1>4, <1>5, <1>6, <1>7, <1>8
<1>. QED  BY <1>9 DEF f, R

\* A page nobody has open shows nothing.
LEMMA NothingIsShown ==
    ASSUME results = <<>>
    PROVE  NeverOverstated
<1>. SUFFICES ASSUME NEW m \in Markets
              PROVE  ShownOf(m) <= TotalOver({id \in DOMAIN bets : bets[id].market = m
                                                                  /\ bets[id].claimed},
                                             [id \in DOMAIN bets |-> Owed(bets[id])])
  BY DEF NeverOverstated
<1>. DEFINE f == [id \in DOMAIN bets |-> Owed(bets[id])]
            R == {id \in DOMAIN bets : bets[id].market = m /\ bets[id].claimed}
<1>1. \A id \in R : f[id] \in Nat
  BY OwedIs
<1>2. ShownOf(m) = ShownIn(<<>>, m)
  BY DEF ShownOf, ShownIn
<1>. HIDE DEF f, R
<1>3. TotalOver(R, f) \in Nat
  BY <1>1, TotalOverIs
<1>4. ShownOf(m) <= TotalOver(R, f)
  BY <1>2, <1>3, NothingShown
<1>. QED  BY <1>4 DEF f, R

\* A session is about a fan's page, or nothing is shown.
FanInv ==
    /\ topic = "account" => AccountInv
    /\ topic # "account" => results = <<>>

LEMMA FanBegins ==
    ASSUME Init
    PROVE  FanInv
<1>1. /\ engine = Closed /\ watched = {} /\ settled = <<>> /\ receipt = None /\ results = <<>>
  BY DEF Init, AccountInit
<1>2. IndexInv
  <2>1. bets = <<>> /\ saves = <<>> /\ log = <<>> /\ rows = [bet |-> <<>>, memory |-> None]
    BY DEF Init, IndexerInit
  <2>. QED  BY <2>1 DEF IndexInv
<1>3. PayoutRight(engine, bets)
  BY <1>1 DEF Closed, PayoutRight
<1>4. PartsOf(settled, Len(bets)) /\ Results(results)
  BY <1>1 DEF PartsOf, Results
<1>5. ASSUME NEW m \in Markets
      PROVE  ShownIn(results, m) + WaitingOf(settled, bets, m)
                <= BackedOf(bets, PayingNow(engine), m)
  <2>1. ShownIn(results, m) = 0
    BY <1>1, NothingShown
  <2>2. WaitingOf(settled, bets, m) = 0
    <3>1. {id \in DOMAIN settled : bets[id].market = m} = {}
      BY <1>1
    <3>. QED  BY <3>1, NothingOver DEF WaitingOf
  <2>. QED  BY <2>1, <2>2, BackedIs
<1>. QED  BY <1>1, <1>2, <1>3, <1>4, <1>5 DEF FanInv, AccountInv

LEMMA FanGoesOn ==
    ASSUME FanInv, [Next]_vars
    PROVE  FanInv'
<1>1. ASSUME UNCHANGED topic, UNCHANGED accountVars, topic # "account"
      PROVE  FanInv'
  BY <1>1 DEF FanInv, accountVars, pageVars
<1>2. ASSUME UNCHANGED topic, UNCHANGED pageVars, IndexInv => IndexInv' /\ BetsAdvance
      PROVE  FanInv'
  <2>1. CASE topic = "account"
    <3>1. AccountInv /\ IndexInv' /\ BetsAdvance
      BY <1>2, <2>1 DEF FanInv, AccountInv
    <3>. QED  BY <1>2, <2>1, <3>1, AccountWaits DEF FanInv
  <2>2. CASE topic # "account"
    BY <1>2, <2>2 DEF FanInv, pageVars
  <2>. QED  BY <2>1, <2>2
<1>3. CASE SettlementStep \/ IndexStep
  <2>1. (Settlement \/ Index) /\ UNCHANGED topic /\ UNCHANGED pageVars
    BY <1>3 DEF SettlementStep, IndexStep, sideVars, accountVars
  <2>. QED  BY <1>2, <2>1, ChainGoesOn
<1>4. CASE Engine(AccountStep)
  BY <1>4, AccountStepKeeps DEF Engine, FanInv
<1>5. CASE Funds(FundsStep)
  <2>1. UNCHANGED topic /\ topic # "account" /\ UNCHANGED results
    BY <1>5 DEF Funds, FundsStep, SetUp, CheckRefill, StakeFunds, EnsureGas, SendWrite,
                MoneyMoves, TimePasses, ReloadFunds, pageVars
  <2>. QED  BY <2>1 DEF FanInv
<1>6. CASE UNCHANGED vars
  <2>1. UNCHANGED topic /\ UNCHANGED pageVars /\ UNCHANGED indexerVars
    BY <1>6 DEF vars, sideVars, accountVars
  <2>. QED  BY <1>2, <2>1, ChainStays
<1>7. CASE \/ topic = "console" /\ UNCHANGED <<topic, accountVars>>
           \/ topic = "trader" /\ UNCHANGED <<topic, accountVars>>
           \/ topic = "sponsor" /\ UNCHANGED <<topic, accountVars>>
           \/ topic = "agent" /\ UNCHANGED <<topic, accountVars>>
           \/ topic = "reader" /\ UNCHANGED <<topic, accountVars>>
  BY <1>1, <1>7
<1>. QED  BY <1>3, <1>4, <1>5, <1>6, <1>7 DEF Next

\* The results a fan's page shows of a market never add up to more than its bets
\* have paid, whatever is settled, collected here or elsewhere, lost, tried again,
\* seeded from rows that trail or announced in between (account-engine.ts:
\* checkBets, settle, announce).
THEOREM ResultsNeverOverstate == Spec => []NeverOverstated
<1>1. Init => FanInv
  BY FanBegins
<1>2. FanInv /\ [Next]_vars => FanInv'
  BY FanGoesOn
<1>3. FanInv => NeverOverstated
  BY ShownWasPaid, NothingIsShown DEF FanInv
<1>. QED  BY <1>1, <1>2, <1>3, PTL DEF Spec
=============================================================================
