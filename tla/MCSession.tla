------------------------------ MODULE MCSession ------------------------------
(***************************************************************************)
(* One market and a few bets of an account with its two funds, on an agent*)
(* or by a trader; two pages of the agent's operator; one or two addresses*)
(* out of gas; two markets quoted from a page that is started twice; and a *)
(* reader with two endpoints, in steps of some eight seconds.              *)
(***************************************************************************)
EXTENDS Session

CONSTANTS a1, a2

MCIpOf == a1 :> "ip1" @@ a2 :> "ip2"
MCFloor == [fan |-> 9, agent |-> 40]
MCReplies == {[goal |-> 1500, card |-> 3000], [goal |-> 3000, card |-> 0]}
MCNotaries == <<3, 1>>
MCTarget == [fan |-> 15, agent |-> 45]
=============================================================================
