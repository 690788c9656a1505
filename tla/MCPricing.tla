----------------------------- MODULE MCPricing -----------------------------
(***************************************************************************)
(* The questions TLC asks: the three ladders of the contract, over         *)
(* capacities that are empty, small, or have room to spare, quotes on both *)
(* sides of the margin rule, and states of play from a dead window to a    *)
(* frantic one; or two short matches to simulate, of small vaults.         *)
(***************************************************************************)
EXTENDS Pricing, Simulator, PriceTables

MCWeights == {<<10000>>, <<6000, 4000>>, <<5000, 3000, 2000>>}
MCPrices == {200, 3333, 5000, 5300, 6867, 9800}
MCCounts == {0, 1, 6}
MCSecondsLeft == {0, 1, 65, 300, 900}
MCReadings == {NoReading, 100, 1000, 2000, 5000}
MCLearned == {-100, -25, 0, 475, 500}

Event(sec, type) == [type |-> type, teamId |-> 1, period |-> "1H", periodSec |-> sec,
                     matchClockSec |-> sec]
MCSimMatches ==
    <<<<Event(60, "shot_on_target"), Event(420, "corner"), Event(900, "other")>>,
      <<Event(90, "goal"), Event(640, "card"), Event(930, "other")>>>>
MCSimAgents == <<[Steady EXCEPT !.maxStake = 25], [Tempo EXCEPT !.maxStake = 30],
                 [Pulse EXCEPT !.maxStake = 50]>>

MCInit == question = NoQuestion /\ SimInit
MCNext == \/ SimInit /\ Next /\ UNCHANGED simVars
          \/ question = NoQuestion /\ SimNext /\ UNCHANGED question
MCSpec == MCInit /\ [][MCNext]_<<question, simVars>>
=============================================================================
