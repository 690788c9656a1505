---------------------------- MODULE MCSettlement ----------------------------
(***************************************************************************)
(* The watcher on two markets of one match, which close in either order,   *)
(* with a bet on each.  Reports come through the simulation forwarder, and *)
(* the watcher's disk is wiped by a restart, as deployed; MCRestart.cfg    *)
(* keeps the disk.                                                         *)
(***************************************************************************)
EXTENDS SettlementWatcher

MCWagers == {[market |-> 1, liability |-> 1], [market |-> 2, liability |-> 1]}

MCOpened == [m \in Markets |-> [matchId |-> 1, closesAt |-> MaxTime]]
=============================================================================
