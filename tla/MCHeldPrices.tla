---------------------------- MODULE MCHeldPrices ----------------------------
(***************************************************************************)
(* One fan, one agent, one market at five times real speed, with the       *)
(* code's own seconds: an event that decides the market, one that only     *)
(* pauses it, or none.                                                     *)
(***************************************************************************)
EXTENDS HeldPrices, PriceTables

MCEvents == {[at |-> Never, decides |-> FALSE],
             [at |-> 16, decides |-> TRUE],
             [at |-> 1, decides |-> FALSE]}
MCPrices == {[probYesBps |-> 5000, probNoBps |-> 5300]}
=============================================================================
