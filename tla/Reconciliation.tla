--------------------------- MODULE Reconciliation ---------------------------
(***************************************************************************)
(* reconciliation_loop (reconciliation.rs) beside the signal task: it      *)
(* compares the positions the exchange reports with market_exposure_usd,   *)
(* may overwrite the exposure and may pause trading.  The positions are    *)
(* fetched before the engine's state is read, and each use of the state    *)
(* takes the lock anew, so orders come in between.                         *)
(*                                                                         *)
(* An order is charged Lot dollars; the exchange counts shares, rate[m] of *)
(* market m for a dollar.  What may set the exposure apart from what is    *)
(* held is in the model, each an "upset" that MaxUpsets bounds.            *)
(***************************************************************************)
EXTENDS Integers, Sequences, FiniteSets, SequencesExt

CONSTANTS
    Markets, Rates, Lot,            \* Rates: shares that a dollar may buy
    WarningPct, CriticalPct,        \* config.*_threshold_pct
    AutoCorrects, PauseOnCriticals, \* the values config.auto_correct and
                                    \* config.pause_on_critical may have
    MaxOrders, MaxUpsets, MaxResumes    \* bounds

Sides == {"yes", "no"}              \* PositionSide: the outcome that is held
Holdings == Markets \X Sides

ASSUME MarketAssumption == IsFiniteSet(Markets)
ASSUME RateAssumption == Rates \subseteq Nat \ {0} /\ Lot \in Nat \ {0}
ASSUME ThresholdAssumption == WarningPct \in Nat /\ CriticalPct \in Nat \ {0}
ASSUME ConfigAssumption == AutoCorrects \subseteq BOOLEAN /\ PauseOnCriticals \subseteq BOOLEAN

VARIABLES
    autoCorrect, pauseOnCritical,           \* the configuration: never change
    shares, rate,   \* the exchange: Holdings -> shares, market -> rate
    exposure,       \* EngineState: market -> dollars, for the markets it knows
    openPositions, paused,
    inFlight,       \* the order between its execution and its accounting:
                    \* what the exchange did of it is in shares already
    check, fetched, critical,               \* reconciliation_loop
    orders, upsets, resumes,                \* what the bounds count
    met, misstated  \* history, of markets: what a trade or a price met since the
                    \* last fetch; where the exposure may be wrong

config  == <<autoCorrect, pauseOnCritical>>
state   == <<exposure, openPositions, paused>>
loop    == <<check, fetched, critical>>
market  == <<shares, rate>>
bounds  == <<orders, upsets, resumes>>
history == <<met, misstated>>
vars    == <<config, market, state, inFlight, loop, bounds, history>>

NoOrder == [holding |-> <<>>, buy |-> TRUE]
NoExposure == [m \in {} |-> 0]

Init ==
    /\ autoCorrect \in AutoCorrects /\ pauseOnCritical \in PauseOnCriticals
    /\ shares = [h \in Holdings |-> 0] /\ rate \in [Markets -> Rates]
    /\ exposure = NoExposure /\ openPositions = 0 /\ paused = FALSE
    /\ inFlight = NoOrder
    /\ check = "idle" /\ fetched = <<>> /\ critical = FALSE
    /\ orders = 0 /\ upsets = 0 /\ resumes = 0
    /\ met = {} /\ misstated = {}
-----------------------------------------------------------------------------
(* The engine's orders and everyone else's.                                *)

Usd(m) == IF m \in DOMAIN exposure THEN exposure[m] ELSE 0
BiggerUnclamped(a, b) == a                                  \* faulty variant
Bigger(a, b) == IF a >= b THEN a ELSE b
Checking == check \in {"compare", "correct"}

Meets(m) == met' = IF Checking THEN met \cup {m} ELSE met
Upset(who) ==
    /\ upsets < MaxUpsets /\ upsets' = upsets + 1
    /\ misstated' = misstated \cup who

Trades(h, buy, usd) ==
    LET traded == usd * rate[h[1]]
    IN  /\ buy \/ shares[h] >= traded
        /\ shares' = [shares EXCEPT ![h] = IF buy THEN @ + traded ELSE @ - traded]
        /\ UNCHANGED rate

\* The exchange takes an order and fills it for part of its dollars.
Execute(h, buy, part) ==
    /\ inFlight = NoOrder /\ ~paused
    /\ orders < MaxOrders /\ orders' = orders + 1
    /\ Trades(h, buy, part)
    /\ inFlight' = [holding |-> h, buy |-> buy]
    /\ Meets(h[1])
    /\ IF part = Lot THEN UNCHANGED <<upsets, misstated>> ELSE Upset({h[1]})
    /\ UNCHANGED <<config, state, loop, resumes>>

\* The answer was lost, the POST is sent again and executed again.
ExecuteAgain ==
    /\ inFlight # NoOrder
    /\ Trades(inFlight.holding, inFlight.buy, Lot)
    /\ Meets(inFlight.holding[1]) /\ Upset({inFlight.holding[1]})
    /\ UNCHANGED <<config, state, inFlight, loop, orders, resumes>>

\* The accounting of a filled order (process_fill_event): its dollars in full,
\* whatever was filled.
Settle ==
    LET m == inFlight.holding[1]
        usd == IF inFlight.buy THEN Usd(m) + Lot ELSE Bigger(Usd(m) - Lot, 0)
    IN  /\ inFlight # NoOrder
        /\ exposure' = [n \in DOMAIN exposure \cup {m} |-> IF n = m THEN usd ELSE exposure[n]]
        /\ openPositions' = IF inFlight.buy THEN openPositions + 1
                            ELSE Bigger(openPositions - 1, 0)
        /\ inFlight' = NoOrder
        /\ Meets(m)
        /\ UNCHANGED <<config, market, paused, loop, bounds, misstated>>

\* The order's row cannot be written, and `?` leaves before the accounting; or
\* no attempt of it was answered, though one was executed.
NeverSettled ==
    /\ inFlight # NoOrder /\ inFlight' = NoOrder
    /\ Upset({inFlight.holding[1]})
    /\ UNCHANGED <<config, market, state, loop, orders, resumes, met>>

\* WsMessage::UserFill: the exchange reports a fill of the account, be it of an
\* order that is accounted for already, and the exposure takes it.
UserFill(m, buy) ==
    LET usd == IF buy THEN Usd(m) + Lot ELSE Bigger(Usd(m) - Lot, 0)
    IN  /\ inFlight = NoOrder
        /\ exposure' = [n \in DOMAIN exposure \cup {m} |-> IF n = m THEN usd ELSE exposure[n]]
        /\ Upset({m})
        /\ UNCHANGED <<config, market, openPositions, paused, inFlight, loop, orders, resumes,
                       met>>

\* A trade of the account that the engine did not make.
TradeOutside(h) ==
    /\ shares' = [shares EXCEPT ![h] = IF @ = 0 THEN Lot * rate[h[1]] ELSE 0]
    /\ Meets(h[1]) /\ Upset({h[1]})
    /\ UNCHANGED <<config, rate, state, inFlight, loop, orders, resumes>>

PriceMoves(m) ==
    /\ rate' \in [Markets -> Rates] /\ \A n \in Markets : rate'[n] # rate[n] <=> n = m
    /\ Meets(m) /\ Upset({m})
    /\ UNCHANGED <<config, shares, state, inFlight, loop, orders, resumes>>

\* The exposure and the number of positions are kept in memory only; paused is
\* what the settings row says.
Restart ==
    /\ exposure' = NoExposure /\ openPositions' = 0 /\ paused' \in BOOLEAN
    /\ inFlight' = NoOrder
    /\ check' = "idle" /\ fetched' = <<>> /\ critical' = FALSE
    /\ upsets < MaxUpsets /\ upsets' = upsets + 1
    /\ met' = {} /\ misstated' = {m \in Markets : \E s \in Sides : shares[<<m, s>>] > 0}
    /\ UNCHANGED <<config, market, orders, resumes>>

Resume ==
    /\ paused /\ resumes < MaxResumes /\ resumes' = resumes + 1
    /\ paused' = FALSE
    /\ UNCHANGED <<config, market, exposure, openPositions, inFlight, loop, orders, upsets,
                   history>>
-----------------------------------------------------------------------------
(* reconciliation_loop.                                                    *)

Tick ==
    /\ check = "idle"
    /\ check' = "fetch"
    /\ UNCHANGED <<config, market, state, inFlight, fetched, critical, bounds, history>>

\* The exchange lists what is held, in an order of its own.
Fetch ==
    /\ check = "fetch"
    /\ fetched' \in SetToSeqs({[market |-> h[1], side |-> h[2], size |-> shares[h],
                                    rate |-> rate[h[1]]] :
                                   h \in {g \in Holdings : shares[g] > 0}})
    /\ check' = "compare"
    /\ met' = IF inFlight = NoOrder THEN {} ELSE {inFlight.holding[1]}
    /\ UNCHANGED <<config, market, state, inFlight, critical, bounds, misstated>>

FetchFails ==
    /\ check = "fetch"
    /\ check' = "idle"
    /\ UNCHANGED <<config, market, state, inFlight, fetched, critical, bounds, history>>

\* reconcile_positions.  The internal position of a market has its dollars for
\* a size and is always a "yes".
Gap(a, b) == IF a >= b THEN a - b ELSE b - a
OffBy(pct, p) ==
    IF Usd(p.market) > 0 THEN 100 * Gap(p.size, Usd(p.market)) >= pct * Usd(p.market)
    ELSE p.size > 0 /\ 100 >= pct

IsKnown(p) == p.market \in DOMAIN exposure

IsCriticalIfKnown(p) == IsKnown(p) /\ (p.side = "no" \/ OffBy(CriticalPct, p)) \* faulty variant
IsCritical(p) == ~IsKnown(p) \/ p.side = "no" \/ OffBy(CriticalPct, p)

IsWarning(p) == OffBy(WarningPct, p)

Fetched == {fetched[i] : i \in DOMAIN fetched}
MissingOnExchange == DOMAIN exposure \ {p.market : p \in Fetched}

HasDiscrepancy == MissingOnExchange # {} \/ \E p \in Fetched : IsCritical(p) \/ IsWarning(p)

NextAfter(isCritical) == IF isCritical /\ pauseOnCritical THEN "pause" ELSE "idle"

Compare ==
    LET worst == \E p \in Fetched : IsCritical(p)
    IN  /\ check = "compare"
        /\ IF HasDiscrepancy /\ autoCorrect
           THEN check' = "correct" /\ critical' = worst /\ UNCHANGED fetched
           ELSE check' = NextAfter(worst) /\ fetched' = <<>> /\ UNCHANGED critical
        /\ UNCHANGED <<config, market, state, inFlight, bounds, history>>

\* One entry per market: of two positions in a market the later one stays.
Corrected ==
    [m \in {p.market : p \in Fetched} |->
        LET last == fetched[CHOOSE i \in DOMAIN fetched :
                        /\ fetched[i].market = m
                        /\ \A j \in DOMAIN fetched : fetched[j].market = m => j <= i]
        IN  last.size \div last.rate]

BothOutcomes(m) == \E p, q \in Fetched : p # q /\ p.market = m /\ q.market = m

CorrectWithoutClear ==                                      \* faulty variant
    /\ check = "correct"
    /\ exposure' = [m \in DOMAIN Corrected \cup DOMAIN exposure |->
                        IF m \in DOMAIN Corrected THEN Corrected[m] ELSE exposure[m]]
    /\ openPositions' = Len(fetched)
    /\ check' = NextAfter(critical) /\ fetched' = <<>> /\ critical' = FALSE
    /\ misstated' = met \cup {m \in Markets : BothOutcomes(m)}
    /\ UNCHANGED <<config, market, paused, inFlight, bounds, met>>
Correct ==
    /\ check = "correct"
    /\ exposure' = Corrected
    /\ openPositions' = Len(fetched)
    /\ check' = NextAfter(critical) /\ fetched' = <<>> /\ critical' = FALSE
    /\ misstated' = met \cup {m \in Markets : BothOutcomes(m)}
    /\ UNCHANGED <<config, market, paused, inFlight, bounds, met>>

Pause ==
    /\ check = "pause"
    /\ paused' = TRUE
    /\ check' = "idle"
    /\ UNCHANGED <<config, market, exposure, openPositions, inFlight, fetched, critical,
                   bounds, history>>

Loop == Tick \/ Fetch \/ Compare \/ Correct \/ Pause

Next ==
    \/ Loop \/ FetchFails
    \/ ExecuteAgain \/ Settle \/ NeverSettled \/ Resume \/ Restart
    \/ \E h \in Holdings : \/ TradeOutside(h)
                          \/ \E buy \in BOOLEAN, part \in 0..Lot : Execute(h, buy, part)
    \/ \E m \in Markets : PriceMoves(m) \/ \E buy \in BOOLEAN : UserFill(m, buy)

\* The interval keeps ticking, and the exchange answers now and then.
Spec ==
    /\ Init /\ [][Next]_vars
    /\ WF_vars(Loop) /\ SF_vars(Fetch) /\ WF_vars(Settle \/ NeverSettled)
-----------------------------------------------------------------------------
Positions == [market : Markets, side : Sides, size : Nat, rate : Nat \ {0}]

\* Type invariant.
TypeOK ==
    /\ autoCorrect \in BOOLEAN /\ pauseOnCritical \in BOOLEAN
    /\ shares \in [Holdings -> Nat] /\ rate \in [Markets -> Rates]
    /\ DOMAIN exposure \subseteq Markets /\ \A m \in DOMAIN exposure : exposure[m] \in Nat
    /\ openPositions \in Nat /\ paused \in BOOLEAN
    /\ inFlight \in [holding : Holdings \cup {<<>>}, buy : BOOLEAN]
    /\ check \in {"idle", "fetch", "compare", "correct", "pause"}
    /\ fetched \in Seq(Positions) /\ critical \in BOOLEAN
    /\ met \subseteq Markets /\ misstated \subseteq Markets

Worth(m) == (shares[<<m, "yes">>] + shares[<<m, "no">>]) \div rate[m]
OrderIn(m) == inFlight # NoOrder /\ inFlight.holding[1] = m

\* The exposure of a market that the caps are checked against is what the account
\* holds of it, but for the order on its way, unless since the last correction one
\* of its orders was filled in part, executed twice or never accounted for, its
\* price moved, someone else traded in it or a UserFill came for it, or the engine
\* restarted while holding it; or that correction met a trade or a price of the
\* market, or found both its outcomes.
ExposureIsWorth ==
    \A m \in Markets \ misstated : OrderIn(m) \/ Usd(m) = Worth(m)

Unknown(m) == m \notin DOMAIN exposure /\ \E s \in Sides : shares[<<m, s>>] > 0

\* A position the engine does not know of does not go unnoticed: it is sold,
\* becomes known, or trading is paused.
UnknownPositionIsNoticed ==
    pauseOnCritical => \A m \in Markets : Unknown(m) ~> ~Unknown(m) \/ paused
-----------------------------------------------------------------------------
\* reconciliation.rs:96, "Critical, // >10% size diff or side mismatch": while
\* the engine's orders are the only trades, all of them for "yes" and each
\* accounted for, trading is not paused.
NoFalseAlarm ==
    misstated = {} /\ met = {} /\ (\A m \in Markets : shares[<<m, "no">>] = 0) => ~paused
=============================================================================
