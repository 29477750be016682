------------------------------- MODULE WsFeed -------------------------------
(***************************************************************************)
(* The WebSocket feed: WsClient::run (ws_client.rs) keeps a connection to  *)
(* the exchange and hands what arrives to ws_event_processor (main.rs),    *)
(* which hands the trades of tracked wallets to process_fill_event and     *)
(* tells the client which wallets to subscribe to.  Two bounded channels   *)
(* join the two tasks: events one way, commands the other.                 *)
(*                                                                         *)
(* Both trades and keys of the dedupe cache are trade ids: the cache's own  *)
(* module is extended, and HandleTrade is a step of it.                    *)
(*                                                                         *)
(* The exchange and the network are external: a link is good or broken,    *)
(* and the server sends what the connection is subscribed to.              *)
(***************************************************************************)
EXTENDS Integers, Sequences, FiniteSets, DedupeWindow

CONSTANTS
    Wallets,
    TradeOf,                \* trade id -> [maker, taker]
    Batches,                \* the trades of one message, a sequence
    EventCap, CommandCap,           \* 1000 and 100
    MaxFailures,                    \* config.max_consecutive_failures
    MaxSends, MaxRefusals, MaxBreaks, MaxCloses, MaxTracking     \* bounds

ASSUME CapAssumption == EventCap \in Nat \ {0} /\ CommandCap \in Nat \ {0}
ASSUME FailureAssumption == MaxFailures \in Nat
ASSUME BatchAssumption == Batches \subseteq Seq(Keys)

VARIABLES
    \* WsClient: its place, the event it is about to send, its state
    client, holding, failures, subscribed,
    \* the connection: none, good or broken, and what the server knows of it
    link, server,
    events, commands,       \* the channels
    \* ws_event_processor: its place, the rest of a message with the wallets
    \* tracked when it came, the wallets to tell the client
    proc, batch, known, told,
    syncDue,                \* more than wallet_sync_interval since the last sync
    \* EngineState
    tracked,
    sends, refusals, breaks, closes, tracking,      \* what the bounds count
    received, handled                               \* history

feed      == <<client, holding, failures, subscribed>>
network   == <<link, server>>
channels  == <<events, commands>>
processor == <<proc, batch, known, told>>
engine    == <<tracked, window>>
bounds    == <<sends, refusals, breaks, closes, tracking>>
history   == <<received, handled>>
vars == <<feed, network, channels, processor, syncDue, engine, bounds, history>>

Notice(kind) == [kind |-> kind, trades |-> <<>>]
TradeMessage(trades) == [kind |-> "trade", trades |-> trades]
Nothing == Notice("none")

Init ==
    /\ client = "connect" /\ holding = Nothing /\ failures = 0 /\ subscribed = {}
    /\ link = "none" /\ server = {}
    \* main sends the first Subscribe before the processor starts
    /\ tracked \in SUBSET Wallets
    /\ events = <<>> /\ commands = IF tracked = {} THEN <<>> ELSE <<tracked>>
    /\ proc = "recv" /\ batch = <<>> /\ known = {} /\ told = {}
    /\ syncDue = FALSE /\ EmptyWindow
    /\ sends = 0 /\ refusals = 0 /\ breaks = 0 /\ closes = 0 /\ tracking = 0
    /\ received = {} /\ handled = {}
-----------------------------------------------------------------------------
(* The client.                                                             *)

HasRoom == Len(events) < EventCap

\* connect_and_run ends with an error: count it, then back off or stop.
Fail ==
    /\ failures' = failures + 1
    /\ client' = IF failures + 1 >= MaxFailures THEN "giveUp" ELSE "backoff"
    /\ link' = "none" /\ server' = {}

ConnectFails ==
    /\ client = "connect"
    /\ refusals < MaxRefusals /\ refusals' = refusals + 1
    /\ Fail
    /\ UNCHANGED <<holding, subscribed, channels, processor, syncDue, engine,
                   sends, breaks, closes, tracking, history>>

Connect ==
    /\ client = "connect"
    /\ link' = "good" /\ server' = {}
    /\ client' = "announce"
    /\ UNCHANGED <<holding, failures, subscribed, channels, processor, syncDue, engine,
                   bounds, history>>

\* Every send to the engine waits for room in the channel.
Announce ==
    /\ client = "announce" /\ HasRoom
    /\ events' = Append(events, Notice("connected"))
    /\ client' = "resubscribe"
    /\ UNCHANGED <<holding, failures, subscribed, network, commands, processor,
                   syncDue, engine, bounds, history>>

ForgetToResubscribe ==                                      \* faulty variant
    /\ client = "resubscribe" /\ link = "good"
    /\ client' = "select"
    /\ UNCHANGED <<holding, failures, subscribed, network, channels, processor, syncDue,
                   engine, bounds, history>>
Resubscribe ==
    /\ client = "resubscribe" /\ link = "good"
    /\ server' = subscribed
    /\ client' = "select"
    /\ UNCHANGED <<holding, failures, subscribed, link, channels, processor, syncDue,
                   engine, bounds, history>>

\* On a broken link a send fails, or succeeds for nothing as long as the break has
\* not been noticed; with nothing to resubscribe nothing is sent.
ResubscribeOnBroken ==
    /\ client = "resubscribe" /\ link = "broken"
    /\ \/ client' = "select" /\ UNCHANGED <<failures, network>>
       \/ subscribed # {} /\ Fail
    /\ UNCHANGED <<holding, subscribed, channels, processor, syncDue, engine, bounds,
                   history>>

\* The loop's select!: a message of the server, ...
Receive(message) ==
    /\ client = "select" /\ link = "good"
    /\ holding' = message
    /\ client' = "forward"
    /\ UNCHANGED <<failures, subscribed, network, channels, processor, syncDue, engine,
                   refusals, breaks, closes, tracking, handled>>

Concerns(t, wallets) == {TradeOf[t].maker, TradeOf[t].taker} \cap wallets # {}

ReceiveTrades(trades) ==
    /\ \E i \in DOMAIN trades : Concerns(trades[i], server)
    /\ sends < MaxSends /\ sends' = sends + 1
    /\ Receive(TradeMessage(trades))
    /\ received' = received \cup {trades[i] : i \in DOMAIN trades}

\* ... one without trades (a pong, a book), of which there are always more, ...
ReceiveOther == Receive(Notice("other")) /\ UNCHANGED <<sends, received>>

ForwardOrDrop ==                                            \* faulty variant
    /\ client = "forward"
    /\ events' = IF HasRoom THEN Append(events, holding) ELSE events
    /\ holding' = Nothing /\ client' = "select"
    /\ UNCHANGED <<failures, subscribed, network, commands, processor, syncDue, engine,
                   bounds, history>>
Forward ==
    /\ client = "forward" /\ HasRoom
    /\ events' = Append(events, holding)
    /\ holding' = Nothing /\ client' = "select"
    /\ UNCHANGED <<failures, subscribed, network, commands, processor, syncDue, engine,
                   bounds, history>>

\* ... the end of the stream, by a close frame or by an error, ...
ServerCloses ==
    /\ client = "select" /\ link = "good"
    /\ closes < MaxCloses /\ closes' = closes + 1
    /\ client' = "closed"
    /\ UNCHANGED <<holding, failures, subscribed, network, channels, processor, syncDue,
                   engine, sends, refusals, breaks, tracking, history>>

StreamFails ==
    /\ client = "select" /\ link = "broken"
    /\ client' = "lost"
    /\ UNCHANGED <<holding, failures, subscribed, network, channels, processor, syncDue,
                   engine, bounds, history>>

SayDisconnected ==
    /\ client \in {"closed", "lost"} /\ HasRoom
    /\ events' = Append(events, Notice("disconnected"))
    /\ IF client = "lost" THEN Fail
       ELSE /\ client' = "connect" /\ failures' = 0
            /\ link' = "none" /\ server' = {}
    /\ UNCHANGED <<holding, subscribed, commands, processor, syncDue, engine, bounds,
                   history>>

\* ... the ping timer, when the ping cannot be sent or nothing came for long, ...
PingFails ==
    /\ client = "select" /\ link = "broken"
    /\ Fail
    /\ UNCHANGED <<holding, subscribed, channels, processor, syncDue, engine, bounds,
                   history>>

\* ... or a command.  handle_subscribe: what could not be sent is forgotten.
Subscribe ==
    /\ client = "select" /\ commands # <<>>
    /\ commands' = Tail(commands)
    /\ \/ subscribed' = subscribed \cup Head(commands)
          /\ server' = IF link = "good" THEN server \cup Head(commands) ELSE server
       \/ link = "broken" /\ UNCHANGED <<server, subscribed>>
    /\ UNCHANGED <<client, holding, failures, link, events, processor, syncDue, engine,
                   bounds, history>>

Retry ==
    /\ client = "backoff"
    /\ client' = "connect"
    /\ UNCHANGED <<holding, failures, subscribed, network, channels, processor, syncDue,
                   engine, bounds, history>>

Stop ==
    /\ client = "giveUp" /\ HasRoom
    /\ events' = Append(events, Notice("error"))
    /\ client' = "stopped"
    /\ UNCHANGED <<holding, failures, subscribed, network, commands, processor, syncDue,
                   engine, bounds, history>>
-----------------------------------------------------------------------------
(* ws_event_processor.                                                     *)

Ask(wallets, next) ==
    /\ told' = wallets
    /\ proc' = IF wallets = {} THEN next ELSE IF next = "due" THEN "greet" ELSE "remind"

TakeEvent ==
    /\ proc = "recv" /\ events # <<>>
    /\ events' = Tail(events)
    /\ CASE Head(events).kind = "connected" ->
                Ask(tracked, "due") /\ UNCHANGED <<batch, known>>
         [] Head(events).kind = "trade" ->
                /\ proc' = "trades" /\ batch' = Head(events).trades /\ known' = tracked
                /\ UNCHANGED told
         [] OTHER -> proc' = "due" /\ UNCHANGED <<batch, known, told>>
    /\ UNCHANGED <<feed, network, commands, syncDue, engine, bounds, history>>

\* A trade of a tracked wallet goes to process_fill_event, which asks the cache.
HandleTrade ==
    /\ proc = "trades" /\ batch # <<>>
    /\ LET t == Head(batch)
       IN  /\ IF Concerns(t, known) THEN Accept(t) \/ Reject(t) ELSE UNCHANGED window
           /\ handled' = handled \cup {t}
    /\ batch' = Tail(batch)
    /\ UNCHANGED <<feed, network, channels, proc, known, told, syncDue, tracked, bounds,
                   received>>

EndTrades ==
    /\ proc = "trades" /\ batch = <<>>
    /\ proc' = "due" /\ known' = {}
    /\ UNCHANGED <<feed, network, channels, batch, told, syncDue, engine, bounds, history>>

\* After every event: subscribe to the wallets of now when a minute has passed.
SyncNever ==                                                \* faulty variant
    /\ proc = "due"
    /\ syncDue' = FALSE
    /\ Ask({}, "recv")
    /\ UNCHANGED <<feed, network, channels, batch, known, engine, bounds, history>>
Sync ==
    /\ proc = "due"
    /\ syncDue' = FALSE
    /\ Ask(IF syncDue THEN tracked ELSE {}, "recv")
    /\ UNCHANGED <<feed, network, channels, batch, known, engine, bounds, history>>

\* The send waits for room, and fails once the client is gone.
Tell ==
    /\ proc \in {"greet", "remind"}
    /\ \/ client = "stopped" /\ UNCHANGED commands
       \/ client # "stopped" /\ Len(commands) < CommandCap /\ commands' = Append(commands, told)
    /\ proc' = IF proc = "greet" THEN "due" ELSE "recv"
    /\ told' = {}
    /\ UNCHANGED <<feed, network, events, batch, known, syncDue, engine, bounds, history>>

\* The client owns the sender: without it recv answers None.
EndOfEvents ==
    /\ proc = "recv" /\ events = <<>> /\ client = "stopped"
    /\ proc' = "ended"
    /\ UNCHANGED <<feed, network, channels, batch, known, told, syncDue, engine, bounds,
                   history>>
-----------------------------------------------------------------------------
(* The environment.                                                        *)

LinkBreaks ==
    /\ link = "good"
    /\ breaks < MaxBreaks /\ breaks' = breaks + 1
    /\ link' = "broken" /\ server' = {}
    /\ UNCHANGED <<feed, channels, processor, syncDue, engine, sends, refusals, closes,
                   tracking, history>>

\* add_wallet, remove_wallet and approvals.
Track(w) ==
    /\ tracking < MaxTracking /\ tracking' = tracking + 1
    /\ tracked' = IF w \in tracked THEN tracked \ {w} ELSE tracked \cup {w}
    /\ UNCHANGED <<feed, network, channels, processor, syncDue, window, sends, refusals,
                   breaks, closes, history>>

\* A minute is longer than a command waits in its channel.
MinutePasses ==
    /\ ~syncDue /\ commands = <<>> /\ proc \notin {"greet", "remind", "ended"}
    /\ syncDue' = TRUE
    /\ UNCHANGED <<feed, network, channels, processor, engine, bounds, history>>

Finished == client = "stopped" /\ proc = "ended" /\ UNCHANGED vars

Client ==
    \/ Connect \/ Announce \/ Resubscribe \/ ResubscribeOnBroken \/ Forward
    \/ StreamFails \/ SayDisconnected \/ PingFails \/ Retry \/ Stop
Processor == TakeEvent \/ HandleTrade \/ EndTrades \/ Sync \/ Tell \/ EndOfEvents
Environment ==
    \/ ConnectFails \/ ServerCloses \/ LinkBreaks \/ MinutePasses
    \/ \E w \in Wallets : Track(w)
    \/ \E trades \in Batches : ReceiveTrades(trades)

Next == Client \/ Subscribe \/ ReceiveOther \/ Processor \/ Environment \/ Finished

\* The tasks run; select! picks among its ready branches at random, so that a
\* command that waits is taken at last; the server answers the pings; a minute
\* passes.
Spec ==
    /\ Init /\ [][Next]_vars
    /\ WF_vars(Client) /\ WF_vars(Processor)
    /\ SF_vars(Subscribe) /\ SF_vars(ReceiveOther) /\ WF_vars(MinutePasses)
-----------------------------------------------------------------------------
Events == [kind : {"none", "connected", "disconnected", "other", "error", "trade"},
           trades : Seq(Keys)]

\* Type invariant of the feed; the channels stay within their capacities.
TypeOK ==
    /\ client \in {"connect", "announce", "resubscribe", "select", "forward", "closed",
                   "lost", "backoff", "giveUp", "stopped"}
    /\ holding \in Events /\ failures \in Nat /\ subscribed \in SUBSET Wallets
    /\ link \in {"none", "good", "broken"} /\ server \in SUBSET Wallets
    /\ events \in Seq(Events) /\ Len(events) <= EventCap
    /\ commands \in Seq(SUBSET Wallets) /\ Len(commands) <= CommandCap
    /\ proc \in {"recv", "trades", "due", "greet", "remind", "ended"}
    /\ batch \in Seq(Keys) /\ known \in SUBSET Wallets /\ told \in SUBSET Wallets
    /\ syncDue \in BOOLEAN /\ tracked \in SUBSET Wallets
    /\ WindowTypeOK
    /\ received \in SUBSET Keys /\ handled \in SUBSET Keys

\* What the client believes it is subscribed to, the server of this connection
\* knows: reconnects, broken links and commands that failed halfway included.
SubscriptionsSurviveReconnect ==
    client \in {"select", "forward"} /\ link = "good" => server = subscribed

\* What the client took from the connection reaches the processor, whatever
\* happens to the connection, however full the channel.
NothingReceivedIsLost == \A t \in Keys : t \in received ~> t \in handled

\* A wallet that stays tracked is subscribed to at last, wherever the
\* connection, the commands and the client are when it is added, unless the
\* client has stopped.
TrackedWalletsGetSubscribed ==
    \A w \in Wallets : w \in tracked ~> w \in server \/ w \notin tracked \/ client = "stopped"
=============================================================================
