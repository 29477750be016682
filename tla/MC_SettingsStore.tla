-------------------------- MODULE MC_SettingsStore --------------------------
(***************************************************************************)
(* Instances of SettingsStore: two connections and the commands that meet  *)
(* in every way the handlers differ.                                       *)
(***************************************************************************)
EXTENDS SettingsStore

CONSTANTS c1, c2

Request(writes) == [writes |-> writes, autoStop |-> FALSE]

Requests4 ==
    {Request(<<<<"paused", 0>>>>), Request(<<<<"paused", 1>>>>),
     Request(<<<<"perTrade", 2>>, <<"daily", 2>>>>),
     [writes |-> <<<<"minTrades", 2>>>>, autoStop |-> TRUE]}

\* set_caps with a second cap of zero.
BadCaps == Requests4 \cup {Request(<<<<"perTrade", 2>>, <<"daily", 0>>>>)}
=============================================================================
