---------------------------- MODULE Performance ----------------------------
(***************************************************************************)
(* The per-wallet performance record and the auto-stop test over it        *)
(* (engine-rs/src/performance.rs).  A win rate is kept as its two counts   *)
(* and compared by cross-multiplication; the counters that are only        *)
(* reported (losses, averages, current drawdown, timestamps) are left out. *)
(***************************************************************************)
EXTENDS Integers

Performances == [trades : Nat, wins : Nat, pnl : Int, peak : Int, maxDrawdown : Int]

\* WalletPerformance::new
NoTrades == [trades |-> 0, wins |-> 0, pnl |-> 0, peak |-> 0, maxDrawdown |-> 0]

\* WalletPerformance::record_trade
RecordTrade(p, pnl) ==
    LET total    == p.pnl + pnl
        drawdown == IF total > p.peak THEN 0 ELSE p.peak - total
    IN  [trades      |-> p.trades + 1,
         wins        |-> IF pnl > 0 THEN p.wins + 1 ELSE p.wins,
         pnl         |-> total,
         peak        |-> IF total > p.peak THEN total ELSE p.peak,
         maxDrawdown |-> IF drawdown > p.maxDrawdown THEN drawdown
                                                     ELSE p.maxDrawdown]

AutoStopConfigs == [enabled : BOOLEAN, minWinRate : Nat,
                    maxDrawdown : Nat, minTrades : Nat]

\* WalletPerformance::should_auto_stop; the rate is 100 * wins / trades.
ShouldAutoStop(p, cfg) ==
    /\ p.trades >= cfg.minTrades
    /\ \/ p.wins * 100 < cfg.minWinRate * p.trades
       \/ p.maxDrawdown > cfg.maxDrawdown

\* PerformanceTracker::check_auto_stop: a wallet has an entry once it traded.
CheckAutoStop(p, cfg) == cfg.enabled /\ p.trades > 0 /\ ShouldAutoStop(p, cfg)

\* The estimate process_fill_event records: a buy above the source price and
\* a sell below it count as losses (in units of 0.0001 / PriceScale).
EstimatedPnl(side, average, source, filled) ==
    IF side = "buy" THEN -((average - source) * filled)
                    ELSE (average - source) * filled
=============================================================================
