----------------------------- MODULE CopyEngine ----------------------------
(***************************************************************************)
(* The copy-trading pipeline of engine-rs/src/main.rs: the ingestion loop  *)
(* (REST polling or WebSocket), process_fill_event from the dedupe lookup  *)
(* to the counters, the RPC commands that change its settings meanwhile,   *)
(* and what a restart keeps and loses.                                     *)
(*                                                                         *)
(* The loop is one task, so it has one program counter; every await of it  *)
(* (a database write, an HTTP request, the state lock) is a step, and the  *)
(* commands, reconciliation, midnight and a crash may fall between any two *)
(* of them.                                                                *)
(***************************************************************************)
EXTENDS RiskGuard, Performance, DedupeCache, FiniteSets

CONSTANTS
    Fills,              \* source trades
    FillOf,             \* fill -> [wallet, market, side, notional, price,
                        \*          equity, edge, identified]
    Wallets, Markets,
    UseWebsocket,       \* config.use_websocket
    ExecutionApis,      \* whether config.execution_api_base may be set
    AllowLiveSimulation,
    PauseOnCritical,    \* config.reconciliation_config.pause_on_critical
    Corrections,        \* what reconciliation may find on the exchange, as
                        \* [exposure, open]; none with auto_correct off
    InitialSettings,    \* the settings a first start loads
    NewCaps, NewModes, NewProfiles, NewAutoStops,   \* arguments of commands
    NewMultipliers, NewEquities,
    UserFillSizes,      \* notionals of UserFill messages
    Improvements,       \* ticks by which a fill beats the attempt's price
    MaxDedupe,          \* DedupeCache size
    LookbackLimit,      \* DEFAULT_EVENT_LOOKBACK_LIMIT
    MaxParses,          \* bound: times an unidentified fill is parsed
    MaxExposure,        \* bound: UserFill messages stop there
    MaxDay, MaxCommands, MaxDbErrors, MaxRestarts   \* bounds on the environment

Modes == {"dry_run", "live"}

Settings ==
    [mode : Modes, profile : Profiles, multiplier : Nat, followerEquity : Nat,
     feeBps : Nat, slippageBps : Nat, limitOffset : Nat, caps : Caps,
     paused : BOOLEAN, copySells : BOOLEAN, autoStop : AutoStopConfigs]

Prices == Nat \ {0}                 \* any price but none at all
FillRecords ==
    [wallet : Wallets, market : Markets, side : Sides, notional : Nat,
     price : Prices, equity : Nat, edge : Nat, identified : BOOLEAN]

ASSUME FillAssumption == FillOf \in [Fills -> FillRecords]
ASSUME SettingsAssumption ==
    /\ InitialSettings \in Settings
    /\ NewCaps \subseteq Caps /\ NewModes \subseteq Modes
    /\ NewProfiles \subseteq Profiles /\ NewAutoStops \subseteq AutoStopConfigs
    /\ NewMultipliers \subseteq Nat \ {0} /\ NewEquities \subseteq Nat \ {0}
ASSUME SizeAssumption ==
    /\ UserFillSizes \subseteq Nat /\ Improvements \subseteq Nat
    /\ MaxDedupe \in Nat \ {0} /\ LookbackLimit \in Nat \ {0}
    /\ MaxParses \in Nat /\ MaxDay \in Nat
ASSUME SwitchAssumption ==
    /\ {UseWebsocket, AllowLiveSimulation, PauseOnCritical} \subseteq BOOLEAN
    /\ ExecutionApis \subseteq BOOLEAN
ASSUME CorrectionAssumption ==
    Corrections \subseteq [exposure : [Markets -> Nat], open : Nat]

\* An execution id: the source's own (number 0), or the one freshly drawn by
\* the n-th parse of a fill that carries none.
ExecIds == Fills \X (0..MaxParses)
NoId == <<>>

\* trade_fill_to_source_event fixes the edge and the source's equity.
WsEdgeBps == 50
Fill(id) == IF UseWebsocket
            THEN [FillOf[id[1]] EXCEPT !.equity = SourceEquity, !.edge = WsEdgeBps]
            ELSE FillOf[id[1]]

VARIABLES
    \* EngineState, behind the RwLock
    settings, performance, stopped, dedupe, daily, tradingDay, openPositions,
    exposure,
    \* SQLite
    savedSettings, orders, riskEvents,
    \* the ingestion task
    pc, current, snapshot, verdict, order, batch, toFetch,
    \* an RPC handler between its memory update and its save
    unsaved,
    \* the world outside, and the configuration: is there an execution API?
    published, parses, day, executions, executionApi,
    \* what the bounds count
    commands, dbErrors, restarts,
    \* history the properties are stated over
    starts, dropped, startsPaused,
    resumed             \* wallets that resume_wallet was called for

memory   == <<settings, performance, stopped, dedupe, daily, tradingDay,
              openPositions, exposure>>
database == <<savedSettings, orders, riskEvents>>
task     == <<pc, current, snapshot, verdict, order, batch, toFetch>>
world    == <<published, parses, day, executions, executionApi>>
bounds   == <<commands, dbErrors, restarts>>
history  == <<starts, dropped, startsPaused, resumed>>
vars     == <<memory, database, task, unsaved, world, bounds, history>>

NoExposure == [m \in Markets |-> 0]
NoOrder == [notional |-> 0, quantity |-> 0, limit |-> 1, price |-> 1,
            attempt |-> 1, success |-> FALSE, filled |-> 0, average |-> 1]
NoSnapshot == [settings |-> InitialSettings, exposure |-> 0, daily |-> 0,
               open |-> 0]

Init ==
    /\ settings = InitialSettings /\ savedSettings = InitialSettings
    /\ performance = [w \in Wallets |-> NoTrades] /\ stopped = {}
    /\ dedupe = EmptyCache
    /\ daily = 0 /\ tradingDay = 0 /\ openPositions = 0 /\ exposure = NoExposure
    /\ orders = {} /\ riskEvents = {}
    /\ pc = "idle" /\ current = NoId /\ snapshot = NoSnapshot
    /\ verdict = "none" /\ order = NoOrder /\ batch = <<>> /\ toFetch = {}
    /\ unsaved = {}
    /\ published = [w \in Wallets |-> <<>>]
    /\ parses = [f \in Fills |-> 0] /\ day = 0
    /\ executions = [id \in ExecIds |-> 0] /\ executionApi \in ExecutionApis
    /\ commands = 0 /\ dbErrors = 0 /\ restarts = 0
    /\ starts = [id \in ExecIds |-> 0] /\ dropped = {} /\ startsPaused = 0
    /\ resumed = {}
-----------------------------------------------------------------------------
(* Ingestion.                                                              *)

\* A tracked wallet trades, and its activity feed shows it.
Publish(f) ==
    LET w == FillOf[f].wallet
    IN  /\ ~UseWebsocket
        /\ f \notin {published[w][i] : i \in DOMAIN published[w]}
        /\ published' = [published EXCEPT ![w] = Append(@, f)]
        /\ UNCHANGED <<memory, database, task, unsaved, parses, day, executions,
                       executionApi, bounds, history>>

Midnight ==
    /\ day < MaxDay
    /\ day' = day + 1
    /\ UNCHANGED <<memory, database, task, unsaved, published, parses, executions,
                   executionApi, bounds, history>>

ReadyAnytime == batch = <<>>                                \* faulty variant
Ready == pc = "idle" /\ batch = <<>>

\* maybe_reset_daily_notional
ResetWithoutDay ==                                          \* faulty variant
    daily' = (IF day # tradingDay THEN 0 ELSE daily) /\ UNCHANGED tradingDay
MaybeResetDailyNotional ==
    IF day # tradingDay THEN daily' = 0 /\ tradingDay' = day
                        ELSE UNCHANGED <<daily, tradingDay>>

\* The head of signal_loop: the counter is reset here and nowhere else.
Tick ==
    /\ ~UseWebsocket /\ Ready /\ toFetch = {}
    /\ MaybeResetDailyNotional
    /\ toFetch' = Wallets
    /\ UNCHANGED <<settings, performance, stopped, dedupe, openPositions, exposure,
                   database, pc, current, snapshot, verdict, order, batch,
                   unsaved, world, bounds, history>>

\* The most recent LookbackLimit entries of a feed.
Recent(feed) == SubSeq(feed, Greater(1, Len(feed) - LookbackLimit + 1), Len(feed))

\* parse_source_fill_events: an id of the source's, else a new uuid.
ParsedId(f) == IF FillOf[f].identified THEN <<f, 0>> ELSE <<f, parses[f] + 1>>

FetchActivity(w) ==
    LET page   == Recent(published[w])
        parsed == {page[i] : i \in DOMAIN page}
        drawn  == {f \in parsed : ~FillOf[f].identified}
    IN  /\ Ready /\ w \in toFetch
        /\ \A f \in drawn : parses[f] < MaxParses
        /\ batch' = [i \in DOMAIN page |-> ParsedId(page[i])]
        /\ parses' = [f \in Fills |-> IF f \in drawn THEN parses[f] + 1 ELSE parses[f]]
        /\ toFetch' = toFetch \ {w}
        /\ UNCHANGED <<memory, database, pc, current, snapshot, verdict, order,
                       unsaved, published, day, executions, executionApi, bounds,
                       history>>

\* Any fetch error is logged and the wallet skipped until the next tick.
FetchFails(w) ==
    /\ Ready /\ w \in toFetch
    /\ toFetch' = toFetch \ {w}
    /\ UNCHANGED <<memory, database, pc, current, snapshot, verdict, order, batch,
                   unsaved, world, bounds, history>>

\* A Trade message (one trade of a tracked wallet); the feed may repeat it.
TradeMessage(f) ==
    /\ UseWebsocket /\ Ready
    /\ batch' = <<<<f, 0>>>>
    /\ UNCHANGED <<memory, database, pc, current, snapshot, verdict, order, toFetch,
                   unsaved, world, bounds, history>>

\* A UserFill message adds to the exposure of its market.
UserFillMessage(m, side, size) ==
    /\ UseWebsocket /\ Ready
    /\ side = "buy" => exposure[m] + size <= MaxExposure
    /\ exposure' = [exposure EXCEPT ![m] =
                        IF side = "buy" THEN @ + size ELSE Greater(@ - size, 0)]
    /\ UNCHANGED <<settings, performance, stopped, dedupe, daily, tradingDay,
                   openPositions, database, task, unsaved, world, bounds, history>>
-----------------------------------------------------------------------------
(* process_fill_event, from its critical section to its last event.        *)

\* Every way out of the function leaves the task ready for the next fill.
Return ==
    /\ pc' = "idle" /\ current' = NoId /\ snapshot' = NoSnapshot
    /\ verdict' = "none" /\ order' = NoOrder
    /\ UNCHANGED <<batch, toFetch>>

GoTo(step) ==
    /\ pc' = step
    /\ UNCHANGED <<current, snapshot, verdict, order, batch, toFetch>>

SkipWithoutAdvancing ==                                     \* faulty variant
    /\ pc = "idle" /\ batch # <<>>
    /\ ~IsFresh(dedupe, Head(batch))
    /\ UNCHANGED vars
SkipDuplicate ==
    /\ pc = "idle" /\ batch # <<>>
    /\ ~IsFresh(dedupe, Head(batch))
    /\ batch' = Tail(batch)
    /\ UNCHANGED <<memory, database, pc, current, snapshot, verdict, order, toFetch,
                   unsaved, world, bounds, history>>

StopsCopyingListed(w) == w \in stopped                      \* faulty variant
\* check_auto_stop judges the record, not the list of stopped wallets.
StopsCopying(w) == CheckAutoStop(performance[w], settings.autoStop)

\* The one critical section that reads the state: the id is remembered, the
\* wallet's record is judged, and everything decided later uses this snapshot.
Admit ==
    LET id   == Head(batch)
        fill == Fill(id)
    IN  /\ pc = "idle" /\ batch # <<>>
        /\ IsFresh(dedupe, id)
        /\ dedupe' = AddKey(dedupe, id, MaxDedupe)
        /\ snapshot' = [settings |-> settings, exposure |-> exposure[fill.market],
                        daily |-> daily, open |-> openPositions]
        /\ pc' = IF StopsCopying(fill.wallet) THEN "stopRow" ELSE "detected"
        /\ current' = id /\ batch' = Tail(batch)
        /\ UNCHANGED <<settings, performance, stopped, daily, tradingDay,
                       openPositions, exposure, database, verdict, order, toFetch,
                       unsaved, world, bounds, history>>

\* insert_risk_event and record_event of the auto-stop branch, then the mark.
RecordStop ==
    /\ pc = "stopRow"
    /\ riskEvents' = riskEvents \cup {<<current, "auto_stop_triggered">>}
    /\ GoTo("stopEvent")
    /\ UNCHANGED <<memory, savedSettings, orders, unsaved, world, bounds, history>>

RecordStopEvent ==
    /\ pc = "stopEvent"
    /\ GoTo("stopMark")
    /\ UNCHANGED <<memory, database, unsaved, world, bounds, history>>

MarkStopped ==
    /\ pc = "stopMark"
    /\ stopped' = stopped \cup {Fill(current).wallet}
    /\ Return
    /\ UNCHANGED <<settings, performance, dedupe, daily, tradingDay, openPositions,
                   exposure, database, unsaved, world, bounds, history>>

PausedNever(snap) == FALSE                                  \* faulty variant
Paused(snap) == snap.settings.paused

\* What the snapshot says about the fill: the gates of process_fill_event in
\* their order, the sizing, then the risk decision.
Verdict(id, snap) ==
    LET fill == Fill(id)
        s    == snap.settings
    IN  IF Paused(snap) THEN "trading_paused"
        ELSE IF ~s.copySells /\ fill.side = "sell" THEN "copy_sells_disabled"
        ELSE IF ~Sizeable(fill, s) THEN "unsizeable"
        ELSE RiskDecision(CopyNotional(fill, s), fill.price, fill.edge, s,
                          snap.exposure, snap.daily, snap.open)

\* The intent of an allowed signal, ready for its first attempt.
Intent(id, snap) ==
    LET fill     == Fill(id)
        s        == snap.settings
        notional == AdjustedNotional(CopyNotional(fill, s), s, snap.exposure, snap.daily)
        limit    == LimitPrice(fill.side, fill.price, s)
    IN  [notional |-> notional, quantity |-> QuantityFor(notional, fill.price),
         limit |-> limit, price |-> limit, attempt |-> 1,
         success |-> FALSE, filled |-> 0, average |-> limit]

\* signal_detected is persisted and the gates are evaluated: a fill that cannot
\* be sized is dropped without a trace, ...
DropUnsizeable ==
    /\ pc = "detected" /\ Verdict(current, snapshot) = "unsizeable"
    /\ Return
    /\ UNCHANGED <<memory, database, unsaved, world, bounds, history>>

\* ... a blocked one gets a risk event, ...
Block ==
    /\ pc = "detected"
    /\ Verdict(current, snapshot) \notin {"allow", "unsizeable"}
    /\ verdict' = Verdict(current, snapshot)
    /\ pc' = "blockRow"
    /\ UNCHANGED <<current, snapshot, order, batch, toFetch, memory, database,
                   unsaved, world, bounds, history>>

RecordBlockUnlogged ==                                      \* faulty variant
    /\ pc = "blockRow"
    /\ GoTo("lastEvent")
    /\ UNCHANGED <<memory, database, unsaved, world, bounds, history>>
RecordBlock ==
    /\ pc = "blockRow"
    /\ riskEvents' = riskEvents \cup {<<current, verdict>>}
    /\ GoTo("lastEvent")
    /\ UNCHANGED <<memory, savedSettings, orders, unsaved, world, bounds, history>>

\* ... and an allowed one becomes an order.
Allow ==
    /\ pc = "detected" /\ Verdict(current, snapshot) = "allow"
    /\ order' = Intent(current, snapshot)
    /\ verdict' = "allow" /\ pc' = "sending"
    /\ starts' = [starts EXCEPT ![current] = @ + 1]
    /\ UNCHANGED <<current, snapshot, batch, toFetch, memory, database, unsaved,
                   world, bounds, dropped, startsPaused, resumed>>
-----------------------------------------------------------------------------
(* execute_intent: the mode comes from the snapshot.                       *)

Live == snapshot.settings.mode = "live"

\* An order is executed, by the exchange or by the simulated fill.
Execute == executions' = [executions EXCEPT ![current] = @ + 1]
\* A first attempt that leaves while trading is paused.
CountPaused ==
    startsPaused' = IF settings.paused /\ order.attempt = 1
                    THEN startsPaused + 1 ELSE startsPaused

Answered(filled, average) ==
    /\ order' = [order EXCEPT !.success = TRUE, !.filled = filled, !.average = average]
    /\ pc' = "orderRow"
    /\ UNCHANGED <<current, snapshot, verdict, batch, toFetch>>

SimulateFill ==
    /\ pc = "sending"
    /\ ~Live \/ (~executionApi /\ AllowLiveSimulation)
    /\ Answered(order.quantity, order.limit)
    /\ Execute /\ CountPaused
    /\ UNCHANGED <<memory, database, unsaved, published, parses, day, executionApi, bounds,
                   starts, dropped, resumed>>

RefuseLive ==
    /\ pc = "sending" /\ Live /\ ~executionApi /\ ~AllowLiveSimulation
    /\ order' = [order EXCEPT !.attempt = 0]
    /\ pc' = "orderRow"
    /\ UNCHANGED <<current, snapshot, verdict, batch, toFetch, memory, database,
                   unsaved, world, bounds, history>>

TooFar == ExceedsPriceDeviation(order.limit, order.price,
                                MaxDeviationBps[snapshot.settings.profile])
AttemptsLeft == order.attempt <= MaxAttempts[snapshot.settings.profile]

Posting ==
    /\ pc = "sending" /\ Live /\ executionApi
    /\ AttemptsLeft /\ ~TooFar
    /\ CountPaused
    /\ UNCHANGED <<memory, database, unsaved, published, parses, day, executionApi, bounds,
                   starts, dropped, resumed>>

\* POST /orders answered with success: any part of an IOC order is filled, none
\* included, at the attempt's price or better.
PostFilled ==
    \E filled \in 0..order.quantity, i \in Improvements :
        LET average == IF Fill(current).side = "buy" THEN Greater(order.price - i, MinPrice)
                                                     ELSE order.price + i
        IN  /\ Posting /\ Execute
            /\ Answered(filled, average)

\* Rejected, or no answer before the request timed out: the same execution id
\* is posted again at the next price.  A request that was not answered may or
\* may not have been executed.
PostFailed ==
    /\ Posting
    /\ order' = [order EXCEPT !.attempt = @ + 1,
                     !.price = NextAttemptPrice(Fill(current).side, @,
                                                snapshot.settings)]
    /\ Execute \/ UNCHANGED executions
    /\ UNCHANGED <<pc, current, snapshot, verdict, batch, toFetch>>

\* max_price_deviation_exceeded or all_attempts_failed.
GiveUp ==
    /\ pc = "sending" /\ Live /\ executionApi
    /\ ~AttemptsLeft \/ TooFar
    /\ GoTo("orderRow")
    /\ UNCHANGED <<memory, database, unsaved, world, bounds, history>>

\* insert_order: "order-<execution id>" is a primary key.
HasOrder(id) == \E status \in {"filled", "failed"} : <<id, status>> \in orders

InsertOrder ==
    /\ pc = "orderRow" /\ ~HasOrder(current)
    /\ orders' = orders \cup
           {<<current, IF order.success THEN "filled" ELSE "failed">>}
    /\ GoTo(IF order.success THEN "settle" ELSE "failRow")
    /\ UNCHANGED <<memory, savedSettings, riskEvents, unsaved, world, bounds, history>>

OrderConflict ==
    /\ pc = "orderRow" /\ HasOrder(current)
    /\ dropped' = dropped \cup {current}
    /\ Return
    /\ UNCHANGED <<memory, database, unsaved, world, bounds, starts, startsPaused,
                   resumed>>

\* The counters are charged with the allowed notional, whatever was filled.
Settle ==
    LET fill == Fill(current)
        pnl  == EstimatedPnl(fill.side, order.average, fill.price, order.filled)
    IN  /\ pc = "settle"
        /\ daily' = daily + order.notional
        /\ performance' = [performance EXCEPT ![fill.wallet] = RecordTrade(@, pnl)]
        /\ exposure' = [exposure EXCEPT ![fill.market] =
                            IF fill.side = "buy" THEN @ + order.notional
                            ELSE Greater(@ - order.notional, 0)]
        /\ openPositions' = IF fill.side = "buy" THEN openPositions + 1
                            ELSE Greater(openPositions - 1, 0)
        /\ GoTo("lastEvent")
        /\ UNCHANGED <<settings, stopped, dedupe, tradingDay, database, unsaved,
                       world, bounds, history>>

RecordFailure ==
    /\ pc = "failRow"
    /\ riskEvents' = riskEvents \cup {<<current, "execution_failed">>}
    /\ GoTo("lastEvent")
    /\ UNCHANGED <<memory, savedSettings, orders, unsaved, world, bounds, history>>

\* The closing record_event: nothing follows it, so its failure changes nothing.
RecordLast ==
    /\ pc = "lastEvent"
    /\ Return
    /\ UNCHANGED <<memory, database, unsaved, world, bounds, history>>

\* A failed write leaves through `?`: the id stays in the dedupe cache and the
\* rest of the function does not happen.
WriteFails ==
    /\ pc \in {"stopRow", "stopEvent", "detected", "blockRow", "orderRow", "failRow"}
    /\ dbErrors < MaxDbErrors /\ dbErrors' = dbErrors + 1
    /\ dropped' = dropped \cup {current}
    /\ Return
    /\ UNCHANGED <<memory, database, unsaved, world, commands, restarts, starts,
                   startsPaused, resumed>>
-----------------------------------------------------------------------------
(* RPC commands: the memory is changed under the lock, the save follows.   *)

Command ==
    /\ commands < MaxCommands /\ commands' = commands + 1
    /\ unsaved = {}
    /\ UNCHANGED <<performance, dedupe, daily, tradingDay, openPositions, exposure,
                   database, task, world, dbErrors, restarts, starts, dropped>>

ChangeSettings(s) ==
    /\ settings' = s /\ unsaved' = {s}
    /\ UNCHANGED <<stopped, resumed>>
    /\ startsPaused' = IF s.paused THEN startsPaused ELSE 0

PauseTrading  == Command /\ ChangeSettings([settings EXCEPT !.paused = TRUE])
ResumeTrading == Command /\ ChangeSettings([settings EXCEPT !.paused = FALSE])
SetMode       == Command /\ \E m \in NewModes :
                     ChangeSettings([settings EXCEPT !.mode = m])
SetRiskProfile == Command /\ \E p \in NewProfiles :
                     ChangeSettings([settings EXCEPT !.profile = p])
SetMultiplier == Command /\ \E x \in NewMultipliers :
                     ChangeSettings([settings EXCEPT !.multiplier = x])
SetFollowerEquity == Command /\ \E x \in NewEquities :
                     ChangeSettings([settings EXCEPT !.followerEquity = x])
SetCaps       == Command /\ \E c \in NewCaps :
                     ChangeSettings([settings EXCEPT !.caps = c])
\* set_caps takes its arguments one after the other (one that is absent keeps its
\* cap): a bad one ends the command, and those before it stay, unsaved.
RejectedSetCaps ==
    /\ Command
    /\ \E c \in NewCaps :
           settings' \in {[settings EXCEPT !.caps.perTrade = c.perTrade],
                          [settings EXCEPT !.caps.perTrade = c.perTrade,
                                           !.caps.market = c.market],
                          [settings EXCEPT !.caps = [c EXCEPT !.open = settings.caps.open]]}
    /\ UNCHANGED <<unsaved, stopped, startsPaused, resumed>>
SetCopySells  == Command /\ \E b \in BOOLEAN :
                     ChangeSettings([settings EXCEPT !.copySells = b])
SetAutoStop   == Command /\ \E a \in NewAutoStops :
                     ChangeSettings([settings EXCEPT !.autoStop = a])

\* panic_close pauses and reports an event; it sends no order.
PanicClose == Command /\ ChangeSettings([settings EXCEPT !.paused = TRUE])

\* resume_wallet touches the list of stopped wallets only.
ResumeWallet(w) ==
    /\ Command
    /\ stopped' = stopped \ {w} /\ resumed' = resumed \cup {w}
    /\ UNCHANGED <<settings, unsaved, startsPaused>>

SaveSettings ==
    /\ unsaved # {}
    /\ savedSettings' \in unsaved /\ unsaved' = {}
    /\ UNCHANGED <<memory, orders, riskEvents, task, world, bounds, history>>

SaveFails ==
    /\ unsaved # {} /\ unsaved' = {}
    /\ dbErrors < MaxDbErrors /\ dbErrors' = dbErrors + 1
    /\ UNCHANGED <<memory, database, task, world, commands, restarts, history>>
-----------------------------------------------------------------------------
(* reconciliation_loop, whose own steps are in Reconciliation: its effects *)
(* on the state the pipeline uses.  Neither is saved.                      *)

CriticalPause ==
    /\ PauseOnCritical
    /\ settings' = [settings EXCEPT !.paused = TRUE]
    /\ UNCHANGED <<performance, stopped, dedupe, daily, tradingDay, openPositions,
                   exposure, database, task, unsaved, world, bounds, history>>

AutoCorrect(found) ==
    /\ exposure' = found.exposure /\ openPositions' = found.open
    /\ UNCHANGED <<settings, performance, stopped, dedupe, daily, tradingDay, database,
                   task, unsaved, world, bounds, history>>

Reconcile == CriticalPause \/ \E found \in Corrections : AutoCorrect(found)
-----------------------------------------------------------------------------
\* The process dies anywhere and systemd starts it again: EngineState::new over
\* the saved settings, every counter from zero.
Restart ==
    /\ restarts < MaxRestarts /\ restarts' = restarts + 1
    /\ settings' = savedSettings
    /\ performance' = [w \in Wallets |-> NoTrades] /\ stopped' = {}
    /\ dedupe' = EmptyCache
    /\ daily' = 0 /\ tradingDay' = day /\ openPositions' = 0
    /\ exposure' = NoExposure
    /\ pc' = "idle" /\ current' = NoId /\ snapshot' = NoSnapshot
    /\ verdict' = "none" /\ order' = NoOrder /\ batch' = <<>> /\ toFetch' = {}
    /\ unsaved' = {}
    /\ starts' = [id \in ExecIds |-> 0] /\ dropped' = {} /\ startsPaused' = 0
    /\ resumed' = {}
    /\ UNCHANGED <<database, world, commands, dbErrors>>

\* What the ingestion task does on its own, a failed write apart.
Ingest == Tick \/ (\E w \in Wallets : FetchActivity(w) \/ FetchFails(w))
          \/ (\E f \in Fills : TradeMessage(f))
Process ==
    \/ SkipDuplicate \/ Admit
    \/ RecordStop \/ RecordStopEvent \/ MarkStopped
    \/ DropUnsizeable \/ Block \/ RecordBlock \/ Allow
    \/ SimulateFill \/ RefuseLive \/ PostFilled \/ PostFailed \/ GiveUp
    \/ InsertOrder \/ OrderConflict \/ Settle \/ RecordFailure \/ RecordLast

Rpc == PauseTrading \/ ResumeTrading \/ PanicClose \/ SetMode \/ SetRiskProfile
       \/ SetMultiplier \/ SetFollowerEquity \/ SetCaps \/ RejectedSetCaps \/ SetCopySells
       \/ SetAutoStop \/ (\E w \in Wallets : ResumeWallet(w)) \/ SaveSettings \/ SaveFails

Next ==
    \/ Ingest \/ Process \/ WriteFails \/ Rpc \/ Reconcile \/ Restart \/ Midnight
    \/ \E f \in Fills : Publish(f)
    \/ \E m \in Markets, side \in Sides, size \in UserFillSizes :
           UserFillMessage(m, side, size)

Spec == Init /\ [][Next]_vars

\* Every await of process_fill_event returns: writes finish or fail, and the
\* HTTP client has a request timeout.  Nothing is asked of the source's feed.
FairSpec == Spec /\ WF_vars(Process)

\* signal_loop's interval keeps ticking and a fetch answers or fails; with a
\* WebSocket the feed keeps delivering trades.
TickingSpec == FairSpec /\ WF_vars(Ingest)
-----------------------------------------------------------------------------
Orders == [notional : Nat, quantity : Nat, limit : Prices, price : Prices,
           attempt : Nat, success : BOOLEAN, filled : Nat, average : Prices]
Snapshots == [settings : Settings, exposure : Nat, daily : Nat, open : Nat]
Reasons == BlockReasons \cup
    {"trading_paused", "copy_sells_disabled", "auto_stop_triggered",
     "execution_failed"}
Steps == {"idle", "stopRow", "stopEvent", "stopMark", "detected", "blockRow",
          "sending", "orderRow", "settle", "failRow", "lastEvent"}

\* Type invariant of the engine, its tables and the task.
TypeOK ==
    /\ settings \in Settings /\ savedSettings \in Settings
    /\ unsaved \in SUBSET Settings
    /\ performance \in [Wallets -> Performances] /\ stopped \in SUBSET Wallets
    /\ dedupe.seen \in SUBSET ExecIds /\ dedupe.queue \in Seq(ExecIds)
    /\ daily \in Nat /\ tradingDay \in Nat /\ openPositions \in Nat
    /\ exposure \in [Markets -> Nat]
    /\ orders \in SUBSET (ExecIds \X {"filled", "failed"})
    /\ riskEvents \in SUBSET (ExecIds \X Reasons)
    /\ pc \in Steps
    /\ current \in ExecIds \cup {NoId} /\ (pc # "idle" => current \in ExecIds)
    /\ snapshot \in Snapshots
    /\ verdict \in Reasons \cup {"none", "allow"}
    /\ (pc = "blockRow" => verdict \in Reasons)
    /\ order \in Orders
    /\ batch \in Seq(ExecIds) /\ toFetch \in SUBSET Wallets
    /\ published \in [Wallets -> Seq(Fills)] /\ parses \in [Fills -> 0..MaxParses]
    /\ day \in Nat /\ executions \in [ExecIds -> Nat]
    /\ executionApi \in BOOLEAN
    /\ starts \in [ExecIds -> Nat] /\ dropped \in SUBSET ExecIds /\ resumed \in SUBSET Wallets

\* Between the critical section that reads the counters and the one that
\* charges them no step of any task moves them but an automatic correction,
\* and that one not the day's: what the risk decision read is still true when
\* the order is charged.
SnapshotStaysCurrent ==
    pc \notin {"idle", "lastEvent"} =>
        /\ snapshot.daily = daily
        /\ Corrections = {} =>
               /\ snapshot.exposure = exposure[Fill(current).market]
               /\ snapshot.open = openPositions

InFlight == pc \in {"sending", "orderRow", "settle"}

\* While an order is in flight, charging all of it keeps the engine's counters
\* within every cap the order was judged under, at any command meanwhile; a
\* correction of the exposure may break the two caps it is about, no other.
InFlightWithinCaps ==
    InFlight =>
        LET caps == snapshot.settings.caps
        IN  /\ order.notional \in 1..caps.perTrade
            /\ daily + order.notional <= caps.daily
            /\ Corrections = {} =>
                   /\ exposure[Fill(current).market] + order.notional <= caps.market
                   /\ openPositions + 1 <= caps.open

\* An execution id is given to the executor at most once per run of the engine,
\* however often polling or the feed repeats it.
OneOrderPerBoot == \A id \in ExecIds : starts[id] <= 1

\* Nothing the engine accepted disappears: a step that is the last one for a
\* fill leaves a filled order or a risk event that says why not, for a failed
\* order too, unless a write failed or met an older row, or the fill had no size.
Traced(id) ==
    \/ <<id, "filled">> \in orders
    \/ \E reason \in Reasons : <<id, reason>> \in riskEvents

EveryFillLeavesATrace ==
    [][\A id \in ExecIds :
         /\ pc # "idle" /\ current = id
         /\ pc' = "idle" /\ restarts' = restarts
         => \/ Traced(id)' \/ id \in dropped'
            \/ ~Sizeable(Fill(id), snapshot.settings)]_vars

\* A pause stops all work but the order the task had already decided on: its
\* snapshot predates the pause, and only one fill is ever past its snapshot.
AtMostOneOrderAfterPause == startsPaused <= 1

AutoStopped(w) == CheckAutoStop(performance[w], settings.autoStop)

\* While the record of a wallet that nobody resumed fails the auto-stop test, no
\* trade is added to it: not by one that was under way when it failed, and not by
\* one admitted later, unless that was admitted under other thresholds.
StoppedWalletsTradeNoMore ==
    [][\A w \in Wallets :
         /\ AutoStopped(w) /\ w \notin resumed
         /\ InFlight => snapshot.settings.autoStop = settings.autoStop
         => performance'[w].trades <= performance[w].trades]_vars

MostAttempts == MaxAttempts.aggressive

\* A request that was not answered may have been executed all the same and is sent
\* again, and a restart forgets the ids: for one source trade the exchange executes
\* at most as many orders as there are attempts, and that for each start.
ExecutionsBounded == \A id \in ExecIds : executions[id] <= MostAttempts * (restarts + 1)

\* Whatever was fetched or delivered is worked off: the task never stays in
\* the middle of a fill or of a batch.
EveryBatchFinishes == (batch # <<>> \/ pc # "idle") ~> Ready

\* With auto_correct off the pipeline is an implementation of the ledger: a
\* claim within the caps of its snapshot, charged in full or released.
Ledger == INSTANCE CopyLedger WITH
    caps    <- snapshot.settings.caps,
    claim   <- IF InFlight
               THEN [notional |-> order.notional, market |-> Fill(current).market,
                     side |-> Fill(current).side]
               ELSE [notional |-> 0, market |-> "none", side |-> "none"],
    spent   <- daily,
    exposed <- exposure,
    open    <- openPositions

ImplementsLedger == Ledger!Spec
-----------------------------------------------------------------------------
\* state.rs:106, maybe_reset_daily_notional: the counter comes to be the one of
\* the current day.
DayRollsOver == (tradingDay # day) ~> (tradingDay = day)
=============================================================================
