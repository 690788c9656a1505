----------------------------- MODULE MCMatchDay -----------------------------
(***************************************************************************)
(* One fixture with two screens on it, replayed twice, of which the second *)
(* run may follow full time, a restart of the service or a double start.   *)
(* A day follows either the markets the screens' polls open and close, or  *)
(* what the pages on the replays show.                                     *)
(***************************************************************************)
EXTENDS MatchDay

CONSTANTS fixture, v1, v2

Touch(period, sec, team) == [name |-> "Pass", sub |-> "", tags |-> {}, teamId |-> team,
                             period |-> period, sec |-> sec]

\* The first half's file, out of order: a scored penalty after a corner.
MCRaw == fixture :> [
    teams |-> {11, 22},
    events |-> << [Touch("1H", 260, 22) EXCEPT !.name = "Free Kick", !.sub = "Penalty",
                                               !.tags = {"goal"}],
                  [Touch("1H", 90, 22) EXCEPT !.name = "Free Kick", !.sub = "Corner"] >>]
=============================================================================
