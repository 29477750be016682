# Verification of the whale copy-trading platform

TLA+ models of `engine-rs`, the Rust engine that copies the trades of tracked
wallets, with TLC runs on small instances and TLAPS proofs for all of them.
Paths below are relative to the repository; `engine-rs/src/` is left out where
a file name is unique.

## 1. The system

One process, `engine-rs`, runs tokio tasks over one `EngineState` behind an
`RwLock` and one SQLite file. A Telegram bot and a shell watchdog talk to it
through a Unix socket.

| Component | State it keeps | Operations | Meets |
|---|---|---|---|
| copy pipeline (`main.rs`: `signal_loop` or `ws_event_processor`, `process_fill_event`) | snapshot and order of the fill in hand; dedupe cache; exposure per market, day's notional, open count; `orders`, `risk_events` | fetch or receive, admit, gate, size, execute, record, charge | commands, reconciliation, midnight, failed writes, restart |
| risk rules (`signals.rs`) | none | `build_copy_signal`, `evaluate_signal`, `build_execution_intent` | pipeline |
| execution (`signals.rs::execute_intent`) | attempt number and price | dry run, refusal, bounded retry | execution API |
| performance (`performance.rs`) | one record per wallet, list of stopped wallets | `record_trade`, `check_auto_stop`, `resume_wallet` | pipeline, commands |
| settings (`rpc.rs`, `db.rs`) | `RuntimeSettings` in memory and in one row | ten commands, `resolve_settings` | pipeline, reconciliation |
| rotation (`main.rs::rotation_loop`, `rpc.rs`) | tracked wallets, pending suggestions, time of the last rotation, their rows | suggest, approve, reject, add, remove | WebSocket subscriptions |
| WebSocket (`ws_client.rs`, `main.rs::ws_event_processor`) | connection, subscriptions, two bounded channels | connect, resubscribe, receive, forward, back off, stop | exchange, pipeline, rotation |
| reconciliation (`reconciliation.rs`) | the positions just fetched | fetch, compare, correct, pause | pipeline's counters |
| RPC server (`rpc.rs`) | one task per connection | one request at a time, audit | all of the above |
| event log (`state.rs`, `db.rs`) | ring of the last 5000 events, table of all | push, insert, `tail_events` (the table only when the ring is empty) | commands, pipeline, notifier |
| Telegram bot, commands (`control-bot-ts`: `main.ts`, `rpcClient.ts`) | update offset, batch in hand, call it waits for | poll, execute, reply, complain | Telegram, RPC server |
| Telegram bot, notifier (`main.ts`) | ids of the events seen | poll, notify, prune | event log, chat |
| watchdog (`ops/watchdog`), systemd units (`ops/systemd`) | place in its round; starts of each unit | check, restart; automatic restart, start limit | engine, bot |
| PnL tracker, log retention, configuration | read or written by one timer each, or by nothing | | |

What is hard in it: every await between reading the state and using what was
read; memory that changes before its row does; two bounded channels in
opposite directions; an order that was executed and not answered; a restart
that remembers rows and forgets counters. `PROJECT.json` lists these hazards
line by line, each with the properties that would catch it.

What makes each component correct:

- pipeline: a decision is still true when it is charged; no order in flight can
  break a cap; a pause stops all orders but one; what is accepted leaves a
  trace; a batch is worked off; the daily counter belongs to the day;
- dedupe: exactly the last `max_size` ids are remembered;
- settings: the row is the memory, and every change is audited;
- rotation: a suggestion is decided once; rows, memory and limit agree;
- WebSocket: subscriptions survive reconnects, nothing received is lost;
- reconciliation: the exposure is what the account holds; unknown positions are
  noticed, known ones do not raise an alarm;
- bot: every command is answered and confirmed, none is repeated without cause,
  a success that was reported lasts; every event worth telling is told, once;
- watchdog: a healthy engine is left alone, an ailing one serves again.

## 2. Modules

| Module | Models | Extends |
|---|---|---|
| `RiskGuard` | sizing, caps, cost gate, limit and retry prices | |
| `Performance` | a wallet's record, the auto-stop test | |
| `DedupeCache` | the cache's two collections and `add` | |
| `DedupeWindow` | the cache as a state machine: ids offered in any order | `DedupeCache` |
| `CopyLedger` | abstract: claims within caps, charged in full or released | |
| `CopyEngine` | the pipeline, its commands, restart; `Ledger` refines `CopyLedger` | the three pure modules |
| `SettingsStore` | commands of several connections, row, event, audit | |
| `WalletRotation` | rotation loop and wallet commands, allowlist and suggestion rows | |
| `WsFeed` | client, channels, event processor; its dedupe step is one of `DedupeWindow` | `DedupeWindow` |
| `Reconciliation` | the loop against fills and trades made elsewhere | |
| `CommandInbox` | abstract: updates confirmed in order, commands after an answer | |
| `CommandBot` | the bot's command loop, its RPC calls, the engine's handlers; `Inbox` refines `CommandInbox` | |
| `Notifier` | event ring and table, `tail_events`, the bot's overlapping polls | |
| `Supervision` | systemd's restarts and limits, the watchdog's round, the engine's signs of life | |
| `CopyEngine_proofs`, `SettingsStore_proofs`, `WalletRotation_proofs`, `WsFeed_proofs` (with those of `DedupeWindow`), `Reconciliation_proofs`, `CommandBot_proofs`, `Notifier_proofs`, `Supervision_proofs` | theorems | the module proved and TLAPS |
| `MC_*` | constants of the runs | the module checked |

### CopyEngine

The ingestion task has one program counter, `pc`, and a step per await of
`process_fill_event`: `Admit` is its critical section (`main.rs:422-440`), which
remembers the id and copies settings, exposure, day's notional and open count
into `snapshot`; `Block`, `DropUnsizeable` and `Allow` are what the gates and
the risk decision say of that snapshot; `SimulateFill`, `RefuseLive`,
`PostFilled`, `PostFailed` and `GiveUp` are `execute_intent`; `InsertOrder` and
`OrderConflict` the order row with its primary key; `Settle` the critical section
that charges the counters (`main.rs:654-679`); `RecordX` the writes of risk
events. `WriteFails` is the `?` of any of these writes. `PostFailed` may have
executed the order: a timeout says nothing of it; `PostFilled` fills any part of
it, none included. `Tick`/`FetchActivity` are
`signal_loop`, `TradeMessage`/`UserFillMessage` are `ws_event_processor`. The
commands change memory under the lock and leave their copy in `unsaved` for
`SaveSettings` or `SaveFails`; `RejectedSetCaps` is the command that keeps what it
assigned before its bad argument. `CriticalPause` and `AutoCorrect` are what
reconciliation does to this state. `Restart` may come anywhere.

Abstractions: money and prices are integers (price in `1/PriceScale`, the
source's equity fixed by `SourceEquity` where the code falls back to it; a fill
has any price above zero), multiplication and division round down as the code's four decimals do, only
coarser. Event rows that merely report are steps that can fail without data.
The tracked wallets are constant. Here one command is saved before the next
begins; `SettingsStore` has the overlaps.

`starts`, `dropped`, `startsPaused` and `resumed` are history: the code has no such
variables, and no guard reads them.

### SettingsStore

Settings are a function of a few fields. `Mutate` is the critical section of a
handler: parameters are tested and assigned one after the other, so a handler
that bails out keeps what it assigned (`rpc.rs:384-407`). `Save` writes the copy
taken there, later and without the lock; only `set_auto_stop` (`rpc.rs:832`)
reads and saves under one guard (`LockForSave`). `clean` records whether a command ever met
another between change and save, failed to save, or was followed by an unsaved
pause; `owed` which handlers still owe an audit row; `partial` whether one bailed
out after a change.

### WalletRotation

`Score`, `Propose`/`ProposeNothing`, `SaveSuggestion`, `InsertSuggestion` are the
awaits of one tick; `RotationDies` is its `?`. `Ack` and `Reject` take the
suggestion out of memory; approval goes through `Look`, `Choose`, `Evict`,
`Track`, `EvictRow`, `AddRow`, `ApproveRow`, `Stamp`, each taking the lock anew.
The suggestion's uuid is the next free number. Its event row is left out, but
for its failure.

### WsFeed

`client` is the place of `WsClient::run`; an event that waits for room in the
channel is in `holding`. `proc` is the place of `ws_event_processor`. `link` and
`server` are the connection as the network and the exchange see it.
`handle_unsubscribe` is never called, and `Shutdown` only precedes the abort of
the task; both are left out.

### Reconciliation

`shares` is what the exchange holds, `exposure` what the engine believes, in
dollars; `rate`, of each market, relates them. `Execute` and `Settle` are the two
ends of an order of the engine: what the exchange fills of it, and what
`process_fill_event` charges for it. Between them lies what sets the exposure apart
from the holdings: the exchange fills only a part, the lost answer makes the order
be executed once more (`ExecuteAgain`), or the accounting never comes
(`NeverSettled`: the order's row cannot be written, or every attempt went
unanswered). `UserFill` charges a fill of the account again, `PriceMoves` changes
what the shares are worth, `TradeOutside` is anybody else's trade, `Restart` empties
the exposure. `misstated` is history: the markets such a cause has set apart, until
a correction that meets nothing of theirs mends them (`met`). Dry-run orders are
left out: they make every market missing on the exchange.

### CommandBot

Telegram keeps every update until `getUpdates` asks for a later one; `confirmed`
counts those it forgot, `offset` is the bot's own count (the code's offset less
one, 0 in a new process). `GetUpdates` hands over a batch, `Skip`, `Call`,
`Reply`, `Complain` are the turns of `processUpdates`, `EndBatch` advances the
offset. `ComplainFails` is the throw inside the catch (`main.ts:70`): the batch
is left and fetched again. A call is a request of its own in the engine
(`Apply`, `Save`, `Finish`: the critical section, the row, event and audit), and
`Timeout` only ends the waiting. Two commands, pause and resume, suffice to tell
orders apart, and reconciliation's own pause (`ReconciliationPause`) undoes a resume in
memory while the row keeps it; `overwritten` is history: which of the two somebody
other than the awaited handler has written since. `BotRestarts` and
`EngineRestarts` may come anywhere; one counter
bounds failures of all kinds.

`CommandInbox` is what a chat may rely on: `Confirm` only passes commands that
were answered, and only forward. `offset`, batch, calls and failures are not in it.

### Notifier

Events have the numbers of their order. `Push` and `Insert` are two steps, since
the row is written after the lock is released; `TailRing` and `TailTable` are
`tail_events`. A poll is a record: its place, the events of its page still to
look at, the whole page for the prune, the event being sent. Polls overlap as
`setInterval` lets them. `SendNext` marks everything up to the event it sends,
as the loop does between two awaits; `FinishPoll` marks the rest and prunes.
`missed` is history: the events the code gives up (hidden by newer ones, taken as
known by a new bot, lost with the ring or with their message).

### Supervision

A unit is up, waiting for `RestartSec`, or off for good. A restart takes along the
running units that require the restarted one, and starts those that have starts
left in their window and whose requirements start (`Startable`). The watchdog's
round is its five checks in order; a failed check leads to `RestartService`,
which always ends the watchdog's own process, because its unit requires both
services. The engine's signs of life are its socket and its heartbeat rows;
`HeartbeatIsFresh` says what the script makes of the latter: fresh without
`sqlite3`, stale with it.

## 3. Runs

| Run | Shows | Bounds |
|---|---|---|
| `engine` | the pipeline's safety, the caps, auto-stop, and that it implements `CopyLedger` | with and without an execution API, which fills any part of an order and twelve ticks better than its limit, so that records win and lose; WebSocket feed with repeated messages and own fills (exposure up to 4), so that caps are met together with earlier trades; three fills of two wallets in two markets, a sell among them; one command of every kind; one failed write; no restart |
| `engine_faults` | how often a trade may be executed; batches end and days roll over | polling; live orders with retries; two fills, one of them without an id and parsed twice, a day's cap that cuts the first order, one midnight, one restart, one failed write, reconciliation pausing and correcting |
| `settings` | rows, audit, lock, answers | two connections, three commands of five kinds, one failed write, one restart, one pause |
| `rotation` | decisions, spacing, limit, rows | three wallets with one slot, two connections (symmetric), three commands, two suggestions, three instants, one failed write, one restart |
| `ws_feed` | subscriptions and delivery | event channel of one, cache of one, two trades alone and in one message, one refusal, one broken link, one close |
| `reconciliation` | worth of the exposure, unknown positions | two markets at rates of one or two shares a dollar, two orders of two dollars, one upset of any kind (`MaxUpsets`), with and without correction and pause |
| `command_bot` | order, answers, repetitions, lasting success | three updates in batches of two, two failures of any kind (lost poll, refused call, timeout, lost reply or complaint, failed write, restart of either side), reconciliation's pause at any step |
| `notifier` | told once, told at all | three events, pages, ring and set of seen ids of two, two overlapping polls, two failures of any kind |
| `supervision` | who is restarted, and that it helps | three units, limits of 4 and 3 starts, three failures (crash, deaf socket, ended heartbeat), no `sqlite3` |

The bounds are small where the interesting case needs little: one slot makes
every approval an eviction, a channel of one is full after each event, a cache
of one evicts at each new id, a cap of a few units is met by the second trade. The
costs of `engine` lie just under the edge of 50 that the WebSocket path gives every
trade and go above it with the aggressive profile, and the price of 998 in
`engine_faults` meets the clamp of limit and retry prices at 999.
Two connections suffice for a handler to meet another at each of its steps; one
failed write and one restart at any place show what each leaves behind. With
two failures the bot meets a complaint that fails after a reply that failed, and
the notifier a restart of the engine after a prune, which the exclusions of
`NotifiedOnce` need; both exclusions were seen to be necessary within the bounds.
Bounds stand in guards and are named (`MaxCommands`, `MaxDbErrors`,
`MaxRestarts`, `MaxDay`, `MaxParses`, `MaxExposure`, `MaxTime`, `MaxFaults`, ...).
`CHECK_DEADLOCK FALSE` is said where only bounded commands move the system.

Three runs are expected to violate their property, each a statement of the
repository's documents that the code does not keep:

| Run | Statement | What happens |
|---|---|---|
| `ws_day` | README.md:115: daily limit | the WebSocket mode has no caller of `maybe_reset_daily_notional` |
| `false_alarm` | `reconciliation.rs:96`: critical above 10 % | shares are compared with dollars, so agreement is critical |
| `healthy` | `docs/ARCHITECTURE.md:49-50`: heartbeats are validated, failed services restarted | the query's parameter is never bound, so with `sqlite3` installed a healthy engine is restarted in every round |

Each property of a passing run has a mutant in `PROJECT.json`: a definition of
the model changed as a plausible bug would, named in the modules as a faulty
variant, under which TLC finds the property violated.

### Fairness

- `FairSpec`: weak fairness of the pipeline's own steps. Writes end or fail and
  the HTTP client has a timeout (`main.rs:52`), so every await returns.
- `TickingSpec` adds that the poll interval ticks and fetches answer or fail.
- `SettingsStore`: each handler is a task, the lock is fair.
- `WsFeed`: both tasks run, a minute passes; strong fairness for taking a
  command and for receiving a message, because `tokio::select!` chooses at
  random among the ready branches and the server answers the text pings. A
  minute is assumed longer than a command waits in its channel.
- `Reconciliation`: the interval ticks, an order is settled or given up in the end, and
  the exchange answers
  again and again, though any single fetch may fail.
- `CommandBot`: the bot's loop and the engine's handlers go on, each as one
  process; the RPC timeout and the HTTP client end every wait. Failures are never
  required.
- `Notifier`: the interval keeps firing and every request and message ends,
  well or not. Nothing is asked of pushes and inserts.
- `Supervision`: systemd restarts what `Restart=always` promises, a started engine
  binds its socket (`run_rpc_server_with_backoff` tries again for ever), the
  watchdog's loop goes on. Windows of start limits need not pass.

Nothing is assumed of clients, of the source wallets, or of failures.

## 4. Proofs

Eight modules hold theorems, for every value of the constants. They assume the
named assumptions of the modules, which only type the constants (`Markets` of
`Reconciliation` is finite, too), and what a theorem states besides. Every safety
invariant and action property of the runs is proved, and both refinements; besides,
theorems that no run could state, because they speak of all bounds, and the
safety halves of five liveness properties. Where an invariant is not inductive,
the strengthening is named here and defined in the proof module.

`CopyEngine_proofs`, for every set of fills, wallets and markets, and all caps:

- `TypeCorrect`: the conjunct that needs arithmetic is the order: notionals and
  quantities stay natural because the caps leave something
  (`AllowedWithinCaps`), and prices stay positive through clamps and improvements.
- `SnapshotCurrent` and `CapsRespected`, both from
  `CapsInv == TypeOK /\ SnapshotStaysCurrent /\ InFlightWithinCaps`.
  `InFlightWithinCaps` is not inductive: `Allow` establishes it for the counters
  of the snapshot, so the proof needs that no other step moved them meanwhile;
  that in turn holds because the resets and own fills wait for the task to be
  idle, and commands never touch the counters. With automatic corrections the
  market and open parts are given up, the day's and the trade's are not.
- `PauseLeavesOneOrder`, from `PauseInv`: an order that may still leave while
  trading is paused belongs to the one snapshot taken before.
- `FillsLeaveTraces`, from `TraceInv`: what the place of the task says about the
  rows written so far, since the step that ends a fill is seldom the one that
  wrote its trace.
- `IdsOrderedOnce` (`OneOrderPerBoot`, the ground of `ExecutedOncePerAttempt`), from
  `BootInv`: an id that was started is remembered. It
  assumes that the cache has room for every id (`Cardinality(ExecIds) <=
  MaxDedupe`), so that set and queue only grow together and nothing is evicted.
  Without that the statement is false: an evicted id is taken for a new one.
- `StoppedTradeNoMore`, from `StopInv`: only `Settle` changes a record, and the order
  it charges is of a wallet that still passes the test of the snapshot.
- `LedgerRefined`: with `Corrections = {}`, `Spec => ImplementsLedger`. Each
  action is one of the ledger's or a stutter: `Allow` is `Claim`, `Settle` is
  `Charge`, whatever leaves the flight otherwise is `Release`, `Tick` is
  `NewDay`, an own fill is `External`, `Restart` is `Forget`.
- `DayWithinLargestCap`: if every cap that is ever set is at most `d` a day and `o`
  open positions, so are the day's notional and, without corrections, the number of
  positions. The caps change under the pipeline's hands, so `CapsBelow` follows them
  through memory, row, unsaved copies and snapshot. It is per process: a restart
  forgets what was spent.
- `ExecutedOncePerAttempt`, from `RetryInv` (an attempt number stays within its
  profile's, and passes one only where there is an API) and `ExecutionInv` (each
  attempt made stands for one execution at most): `ExecutionsBounded`, so that a
  trade is executed at most three times per start of the engine. It assumes, as `IdsOrderedOnce` does, that the
  cache has room for every id.
- `PipelineEnds`: `WorkLeft`, ten for each fill of the batch and what the fill in hand
  has yet to go through, falls with every step of the pipeline and rises only when an
  idle engine takes new activity. This is what `EveryBatchFinishes` needs besides
  fairness; the retries are the steps that come back to their place.
- `RecordsStaySound`: wins within trades, the peak not below the profit nor zero, the
  largest drawdown not below the present one, so that `check_auto_stop` compares what
  its names say, at any prices.

`WsFeed_proofs` begins with the window of `DedupeWindow`, for every set of keys and
size: `SetAndQueueAgree` and `WindowOfMaxSize`. The inductive invariant orders the
ages of the queue's entries: position `i` from the end has age `i`, which makes the
evicted id the oldest.
Each step of the feed is one of the window or a stutter (`FeedUsesWindow`), so that
the window's theorems hold inside it (`FeedRemembers`). `SubscriptionsSurvive` is
inductive as it stands. `TradesKept`, the safety half of `NothingReceivedIsLost`: a
trade that was received is handled, or in the message the client still forwards, in
the event channel or in the processor's batch, at any capacities and through
reconnects and closes; from `TradeInv`, which adds that these three places are empty
where the tasks do not use them (so a task that ends leaves nothing behind).

`SettingsStore_proofs`, for any fields, commands and connections:
`AutoStopRowIsCurrent` from the lock (`LockInv`: a handler that saves under it holds
what is in force), `RowIsMemory` from `CleanInv` (at most one change is unsaved,
and its handler holds a copy of it), `ChangesAreAudited` from `AuditInv` (a handler
that owes a row is past its change and on its way to it). `LockGivenBack`, from
`HoldersInv`, is what `EveryCommandIsAnswered` needs besides fairness: the lock is
held by exactly the handlers that save under it, so that one of those at work can
always go on.

`WalletRotation_proofs`, for any wallets, connections and suggestions:

- `EachDecidedOnce` and `OnePending`, from `DecisionInv`: what the loop is about
  to insert is pending for nobody and taken by nobody, and what is pending is not
  taken. It rests on `KnownIds` (a suggestion anyone knows of has a row), which
  keeps the loop's next id fresh.
- `SuggestionsSpaced`, from `SpacingInv`: the time of the last rotation may be
  overwritten by approvals and by a tick that began earlier, but never falls
  before the last suggestion; hence a tick that found no cooldown is a cooldown
  after both.
- `RowsKeepSuggestions`, from `RowInv`: what is pending has a pending row; and while no
  write failed, a pending row is pending, about to be, or of a suggestion some handler
  still holds (it lets go of it only once the row says what was decided). So a restart
  loses no suggestion, and reopens only one whose decision it cut short.
- `RowsAreMemory` and `LimitKept`, from `CleanInv`: for each place of the only
  handler at work, how far its rows are behind the memory (`Apart`). An approval
  that evicts passes through one wallet less, because what it chose is still
  tracked; that the choice exists needs the least of a set of numbers, which
  comes from the well-foundedness of `<`.

`Reconciliation_proofs`: `ExposureWorth`, from `WorthInv`, which speaks of each market
by itself: a market that nothing has set apart is balanced, which means that its
exposure and what the order in flight still owes it (`Owed`) are the worth of what is
held at its rate; hence a sale never meets the clamp at zero. And while a check is
under way, what it fetched of a market that it did not meet (`met`) is what is held
of it, so a correction balances that market whatever had set it apart before. That a listing without repetition
has every position is the pigeonhole theorem of the library.

`CommandBot_proofs`: `RepeatsBounded`, from `RepeatInv` (how often an update was
applied, plus its calls still to be applied, plus one if the bot may yet call it, is
at most one more than the repetitions with a cause), `SuccessKept`, from `WrittenInv`
(the handler the bot waits for is of the update in hand; past its change it has put
that update's value in memory, and past its save in the row, each for as long as
nobody else has written it since: a handler given up either, reconciliation the
memory), `NobodyWaitsInVain`, from `AnswerInv` (the handler of the call the bot waits for is at work, whatever failed or restarted), and `InboxRefined`,
from `InboxInv` (of the updates before the one in hand each command was answered).

`Notifier_proofs`, for any events, sizes of ring, page and memory, and any number of
polls:

- `TypeCorrect` with `RingInv`: the ring is the last events since the engine started,
  and is full or complete; hence (`RingPage`) a page of the ring is a page of all
  events until the engine restarts.
- `ToldOnce`, from `PollInv` and `OnceInv`. A poll that counts as alone really is, so
  its page holds every remembered id a later page can still show (`PollInv`), and what
  its prune forgets is past: older than any page, and in none that a poll still holds.
  What was shown is therefore remembered or past (`ShownInv`), what is being sent has
  not been shown and is sent by one poll (`SendInv`), and after a prune no poll of
  this engine reads the table (`PruneInv`).
- `NothingForgotten`, the safety half of `NoticeReachesChat`: an event worth telling is
  shown, being sent or `missed`, or it is unseen and on the page the next poll gets.
  From `NoticeInv`: an empty ring has no rows left to insert, and what a poll has
  worked off of its page is settled even if others pruned its id meanwhile.

`Supervision_proofs`: `HealthyLeftAlone`, from `HealthInv` (the watchdog aims at the
engine only if it ailed since the check began); it assumes `~HasSqlite3`, and the
run `healthy` shows the other case. `LeftOffForGood`, from `OffInv` (what requires a
unit that is off is off as well): the exception of `EngineServesAgain` is reached only
at a start limit, and is final, since whoever could restart the unit is off, too.

Only model-checked: the nine liveness properties, since fairness and `ENABLED` are
beyond the prover. Of five of them the safety half is proved: `PipelineEnds` for
`EveryBatchFinishes`, `TradesKept` for `NothingReceivedIsLost`, `NothingForgotten` for
`NoticeReachesChat`, `LockGivenBack` for `EveryCommandIsAnswered`, `NobodyWaitsInVain`
for `EveryUpdateIsConfirmed`. Nothing falls out of the way to the good state, and TLC
shows that the way is gone. Theorems without a property of a run were checked by TLC
on the runs' instances before they were proved.

## 5. What the models showed besides

Known behaviour of the code that the properties are worded around:

- `resume_wallet` does nothing for copying: it edits the list of stopped wallets
  (`performance.rs:200`), but the test judges the record (`performance.rs:153`), to
  which a stopped wallet adds no trade, so its next fill stops it again. Only a restart
  or other thresholds help. `performance.rs:199`, "Resume a stopped wallet", and
  `control-bot-ts/src/commands.ts:182`, "Resume copying a stopped wallet", promise
  otherwise; `StoppedWalletsTradeNoMore` leaves resumed wallets out, so that it does not
  depend on the defect.
- A restart empties the cache, so that old fills on the page are executed again
  (`ExecutionsBounded` counts the restarts, `IdsOrderedOnce` is per process), and the order row then conflicts.
- `InFlightWithinCaps` speaks of notionals the engine charges. A retried POST
  whose first answer was lost may execute twice; `ExecutionsBounded` says how often
  at most, and `ExposureIsWorth` names it among the causes of a wrong exposure.
- Exposure and holdings part at each partial fill (the order is charged in full), at
  an executed order whose row cannot be written (`main.rs:638`), at a UserFill of an
  order charged already (`main.rs:247`) and at a restart, which empties the exposure;
  only an automatic correction that meets no trade mends it.
- The pause of reconciliation is in memory only: it undoes a resume the chat was told
  of, and trading resumes with a restart. `SuccessLasts` speaks of memory and row
  separately for that reason.
- `max_open_positions` counts fills, and blocks sells too once it is reached.
- The retry step is at least half the limit offset; with the default offset of
  0.01 the deviation guard refuses the second attempt at any usual price.
- `panic_close` pauses and reports; it closes nothing.
- An approval that meets an `add_wallet` exceeds `MAX_ACTIVE_WALLETS`, and a
  restart loads however many rows there are.
- `auto_correct` keeps one of two outcomes held in a market.
- A source fill without any id field gets a new uuid at each poll
  (`signals.rs:474`), so it is copied again at every tick; `ExecutionsBounded`
  and `IdsOrderedOnce` are per id. README.md:107 and `tests/README.md:13` promise deduplication.
- `set_caps` with a good first and a bad second value keeps the first in memory,
  unsaved and unaudited (`rpc.rs:391`), against `docs/SECURITY.md:8`;
  `OnlyPartialsGoUnaudited` says that nothing else does.
- `consecutive_failures` (`ws_client.rs:83`) is reset only by a graceful close:
  failures add up over connections that succeeded, and the client then stops
  for good, logging that they were consecutive (`ws_client.rs:94`). The jitter of
  its backoff is cast from a negative number and added after the cap.
- A complaint that fails executes the whole batch again; pause and resume are
  idempotent, but their order is replayed. A command whose call timed out may be
  applied after the next one and undo it, although the chat was told it failed.
- A notification is repeated when overlapping polls prune each other's ids, or
  when the engine restarts after a prune and the table answers with events older
  than the ring's; it is lost when its message fails, when more than 120 events
  come between two polls, or when the bot restarts.
- No alert of the watchdog is ever sent: `systemctl restart` ends its own process
  first, since its unit requires the one restarted, against ARCHITECTURE.md:50,
  OPERATIONS.md:63 and `tests/README.md:14`. Restarts in a row use up the start
  limits of bot and watchdog (systemd's default, lower than the engine's) and
  leave them off. Without `sqlite3` a stale heartbeat is never noticed.

## 6. Plan

Done, in this order: risk rules, pipeline and ledger; dedupe; settings; rotation;
WebSocket; reconciliation; the bot's commands and inbox; event log and notifier;
watchdog and units; the proofs of every safety and action property of the runs;
executions across restarts, the largest caps, suggestions across restarts, units left
off, the safety halves of five liveness properties.

Next:

1. The safety halves of the liveness properties that are left: a tracked wallet on its
   way to be subscribed, an unknown position on its way to be noticed.
2. `CopyEngine`: the set and queue of its cache for any `MaxDedupe` (the window is
   proved for `DedupeWindow` and `WsFeed`); tracked wallets changed by
   `WalletRotation`.
3. `WsFeed`: both channels full, from an instance with a command channel of
   one; `handle_unsubscribe` if a caller appears.
4. The PnL tracker, if a task comes to write to it.

## 7. Not modelled

- Wallet scoring: a weighted sum without state; `WalletRotation` takes any table.
- The PnL tracker: no task of the engine writes to it.
- Configuration (its values are the constants), log retention, deletion of old rows.
- The ring that `main` creates for reconciliation: nothing reads it.
- Of the bot: `report_heartbeat`, whose row the watchdog never sees, and the
  parsing and texts of `commands.ts`.
- SQL, JSON parsing beyond the choice of an id, sockets and framing, read-only
  methods.
- `handle_unsubscribe` and `Shutdown` of the WebSocket client: no code sends the
  first, and the second only precedes the abort of the task.
- Dry-run orders in `Reconciliation`.

## 8. Running

    tlc -config MC_CopyEngine_core.cfg MC_CopyEngine.tla
    tlapm CopyEngine_proofs.tla

and so on for the module and the configuration of each run in `PROJECT.json`.
