----------------------------- MODULE RiskGuard -----------------------------
(***************************************************************************)
(* The arithmetic between a source fill and the order that copies it:      *)
(* sizing, the risk caps, the limit price and the retry prices             *)
(* (engine-rs/src/signals.rs, the profile tables of types.rs).             *)
(*                                                                         *)
(* Money and quantities are integers counting units of 0.0001, the grid    *)
(* round_down(_, 4) puts them on; a price p stands for p / PriceScale, and *)
(* one tick is the 0.001 to which the code clamps prices and retry steps.  *)
(* Real-number products are kept exact and divided once, so floor stands   *)
(* for round_down.                                                         *)
(*                                                                         *)
(* An operator marked "faulty variant" is used by no specification: it is  *)
(* the change of its neighbour that the checks have been seen to reject.   *)
(***************************************************************************)
EXTENDS Integers

CONSTANTS
    PriceScale,       \* ticks in a price of 1.0; the code's 0.001 grid is 1000
    SourceEquity      \* config.source_equity_fallback_usd

ASSUME PriceScaleAssumption == PriceScale \in Nat /\ PriceScale > 2
ASSUME SourceEquityAssumption == SourceEquity \in Nat

MultScale == 100                    \* a multiplier m stands for m / 100
MinPrice == 1                       \* 0.001
MaxPrice == PriceScale - 1          \* 0.999

Lesser(a, b) == IF a <= b THEN a ELSE b
GreaterUnclamped(a, b) == a                                 \* faulty variant
Greater(a, b) == IF a >= b THEN a ELSE b

Sides == {"buy", "sell"}
Profiles == {"conservative", "balanced", "aggressive"}

PremiumBps == [conservative |-> 8, balanced |-> 12, aggressive |-> 16]
MaxAttempts == [conservative |-> 1, balanced |-> 2, aggressive |-> 3]
MaxDeviationBps == [conservative |-> 20, balanced |-> 30, aggressive |-> 45]

\* Block reasons of evaluate_signal, in the order it tests them.
BlockReasons == {"max_open_positions", "max_market_exposure_usd",
                 "max_daily_notional_usd", "notional_reduced_to_zero",
                 "edge_below_cost", "quantity_rounded_to_zero"}

Caps == [perTrade : Nat, market : Nat, daily : Nat, open : Nat]

-----------------------------------------------------------------------------
(* build_copy_signal: notional x (follower / source equity) x multiplier.  *)

EquityOf(fill) == IF fill.equity > 0 THEN fill.equity ELSE SourceEquity

\* Quantity that a notional buys at a price, on the 0.0001 grid.
QuantityFor(notional, price) == (notional * PriceScale) \div price

CopyNotional(fill, s) ==
    (fill.notional * s.followerEquity * s.multiplier)
        \div (EquityOf(fill) * MultScale)

\* The guards under which build_copy_signal returns Some(signal).
Sizeable(fill, s) ==
    /\ fill.notional > 0 /\ fill.price > 0 /\ EquityOf(fill) > 0
    /\ CopyNotional(fill, s) > 0
    /\ QuantityFor(CopyNotional(fill, s), fill.price) > 0

-----------------------------------------------------------------------------
(* evaluate_signal: every cap, then the edge gate, then rounding.          *)

CostBufferBps(s) == s.feeBps + s.slippageBps + PremiumBps[s.profile]

MarketRemaining(s, exposure) == s.caps.market - Greater(exposure, 0)
DailyRemaining(s, daily) == s.caps.daily - Greater(daily, 0)

AdjustedIgnoringDay(notional, s, exposure, daily) ==       \* faulty variant
    Lesser(Lesser(notional, s.caps.perTrade), MarketRemaining(s, exposure))
AdjustedNotional(notional, s, exposure, daily) ==
    Lesser(Lesser(Lesser(notional, s.caps.perTrade),
                  MarketRemaining(s, exposure)),
           DailyRemaining(s, daily))

PositionsFullLate(s, open) == open > s.caps.open            \* faulty variant
PositionsFull(s, open) == open >= s.caps.open

RiskDecision(notional, price, edge, s, exposure, daily, open) ==
    LET adjusted == AdjustedNotional(notional, s, exposure, daily)
    IN  IF PositionsFull(s, open) THEN "max_open_positions"
        ELSE IF MarketRemaining(s, exposure) <= 0 THEN "max_market_exposure_usd"
        ELSE IF DailyRemaining(s, daily) <= 0 THEN "max_daily_notional_usd"
        ELSE IF adjusted <= 0 THEN "notional_reduced_to_zero"
        ELSE IF edge <= CostBufferBps(s) THEN "edge_below_cost"
        ELSE IF QuantityFor(adjusted, price) <= 0 THEN "quantity_rounded_to_zero"
        ELSE "allow"

-----------------------------------------------------------------------------
(* build_execution_intent and the retry loop of execute_intent.            *)

LimitPrice(side, price, s) ==
    IF side = "buy" THEN Lesser(price + s.limitOffset, MaxPrice)
                    ELSE Greater(price - s.limitOffset, MinPrice)

RetryStep(s) == Greater(s.limitOffset \div 2, 1)

NextAttemptPrice(side, price, s) ==
    IF side = "buy" THEN Lesser(price + RetryStep(s), MaxPrice)
                    ELSE Greater(price - RetryStep(s), MinPrice)

Distance(a, b) == IF a >= b THEN a - b ELSE b - a

ExceedsPriceDeviation(base, price, maxBps) ==
    base > 0 /\ Distance(price, base) * 10000 > maxBps * base
=============================================================================
