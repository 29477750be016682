----------------------------- MODULE MC_WsFeed -----------------------------
(* Instances of WsFeed: one wallet, with a trade as maker and one as       *)
(* taker, alone and after another in a message.                            *)
EXTENDS WsFeed, TLC

CONSTANTS w1, stranger, t1, t2

Sides == t1 :> [maker |-> w1, taker |-> stranger] @@ t2 :> [maker |-> stranger, taker |-> w1]

Messages == {<<t1>>, <<t2, t1>>}
=============================================================================
