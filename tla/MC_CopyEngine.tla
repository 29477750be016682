--------------------------- MODULE MC_CopyEngine ---------------------------
(***************************************************************************)
(* Instances of CopyEngine for TLC.  Sizes are small integers chosen so    *)
(* that every cap is met by some interleaving: a copied trade is 4 units   *)
(* at multiplier 1.0 and at most 2 by its own cap, and the other caps      *)
(* admit one or two of them.                                               *)
(***************************************************************************)
EXTENDS CopyEngine, TLC

CONSTANTS f1, f2, f3, w1, w2, m1, m2

Trade(w, m, side, price, identified) ==
    [wallet |-> w, market |-> m, side |-> side, notional |-> 4, price |-> price,
     equity |-> 10, edge |-> 60, identified |-> identified]

\* A buy and the sale of what it bought, and a trade of another wallet.
Trio == f1 :> Trade(w1, m1, "buy", 500, TRUE)
     @@ f2 :> Trade(w2, m2, "buy", 500, TRUE)
     @@ f3 :> Trade(w1, m1, "sell", 400, TRUE)

\* A buy whose limit and retries stay at the highest price, and a trade that cannot
\* be sized, which also carries no id.
Uneven == f1 :> Trade(w1, m1, "buy", 998, TRUE)
       @@ f2 :> [Trade(w1, m2, "buy", 500, FALSE) EXCEPT !.equity = 100000]

BuySell == f1 :> Trade(w1, m1, "buy", 500, TRUE) @@ f3 :> Trade(w1, m1, "sell", 400, TRUE)

\* The costs stay below the WebSocket path's edge of 50 with the balanced profile
\* and go above it with the aggressive one.
Defaults ==
    [mode |-> "dry_run", profile |-> "balanced", multiplier |-> 100,
     followerEquity |-> 10, feeBps |-> 16, slippageBps |-> 20, limitOffset |-> 10,
     caps |-> [perTrade |-> 2, market |-> 4, daily |-> 5, open |-> 2],
     paused |-> FALSE, copySells |-> TRUE,
     autoStop |-> [enabled |-> TRUE, minWinRate |-> 40, maxDrawdown |-> 1000,
                   minTrades |-> 1]]

\* Retries are reachable only when the step is small against the price.
LiveSettings == [Defaults EXCEPT !.mode = "live", !.limitOffset = 2]
\* The day's cap cuts the first order of the day.
Frugal == [LiveSettings EXCEPT !.caps.daily = 1]
NoAutoStop == [Defaults.autoStop EXCEPT !.enabled = FALSE]
Patient == [Defaults EXCEPT !.autoStop = NoAutoStop]

TightCaps == {[perTrade |-> 1, market |-> 2, daily |-> 2, open |-> 1]}
AutoStops == {NoAutoStop, Defaults.autoStop}
NoNew == {}

\* A position the engine does not know of, at a cap.
Found == {[exposure |-> m1 :> 4 @@ m2 :> 0, open |-> 2]}
=============================================================================
