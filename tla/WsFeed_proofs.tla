---------------------------- MODULE WsFeed_proofs ---------------------------
(***************************************************************************)
(* Theorems about DedupeWindow and WsFeed for any keys, wallets, messages, *)
(* cache sizes, capacities and bounds.  The dedupe cache inside the feed   *)
(* is an instance of the window: every step of the feed is one of the      *)
(* window or leaves it alone.                                              *)
(***************************************************************************)
EXTENDS WsFeed, Functions, TLAPS

-----------------------------------------------------------------------------
(* The window over the last MaxSize executions, for every key set and      *)
(* every size (the engine's is 100_000, out of TLC's reach).  The          *)
(* inductive invariant says where in the queue a key of a given age        *)
(* stands.                                                                 *)

Queue == cache.queue

\* The youngest key is last; every key that is not queued counts as too old.
AgeMatchesPosition ==
    /\ \A i \in DOMAIN Queue : age[Queue[i]] = Len(Queue) - i
    /\ \A k \in Keys \ cache.seen : age[k] = MaxSize

WindowInv == WindowTypeOK /\ SetMatchesQueue /\ AgeMatchesPosition

LEMMA InitWindow == EmptyWindow => WindowInv
BY MaxSizeAssumption
   DEF EmptyWindow, WindowInv, WindowTypeOK, SetMatchesQueue, AgeMatchesPosition,
       EmptyCache, Queue

\* The queue after an accepted key, as a function of the queue before.
LEMMA AcceptedQueue ==
  ASSUME WindowInv, NEW k \in Keys, Accept(k)
  PROVE  LET full == Len(Queue) = MaxSize
             n    == IF full THEN Len(Queue) ELSE Len(Queue) + 1
             from == IF full THEN 1 ELSE 0
         IN  /\ Queue' \in Seq(Keys) /\ Len(Queue') = n
             /\ \A i \in 1..n : Queue'[i] = IF i = n THEN k ELSE Queue[i + from]
             /\ cache'.seen = (cache.seen \cup {k})
                                 \ (IF full THEN {Queue[1]} ELSE {})
             /\ cache' \in [seen : SUBSET Keys, queue : Seq(Keys)]
<1>1. Queue \in Seq(Keys) /\ Len(Queue) \in 0..MaxSize /\ cache.seen \subseteq Keys
  BY DEF WindowInv, WindowTypeOK, Queue
<1>2. cache' = AddKey(cache, k, MaxSize)
  BY DEF Accept
<1> DEFINE longer == Append(Queue, k)
<1>3. /\ longer \in Seq(Keys) /\ Len(longer) = Len(Queue) + 1 /\ longer # <<>>
      /\ \A i \in 1..Len(Queue) : longer[i] = Queue[i]
      /\ longer[Len(Queue) + 1] = k
  BY <1>1
<1>4. /\ Tail(longer) \in Seq(Keys) /\ Len(Tail(longer)) = Len(Queue)
      /\ \A i \in 1..Len(Queue) : Tail(longer)[i] = longer[i + 1]
      /\ Head(longer) = longer[1]
  BY <1>1, <1>3
<1>5. MaxSize \in Nat /\ MaxSize > 0
  BY MaxSizeAssumption
<1>6. CASE Len(Queue) = MaxSize
  <2>1. /\ Queue' = Tail(longer)
        /\ cache' = [seen |-> (cache.seen \cup {k}) \ {Head(longer)},
                     queue |-> Tail(longer)]
    <3>1. Len(longer) > MaxSize
      BY <1>3, <1>5, <1>6
    <3>2. cache' = [seen |-> (cache.seen \cup {k}) \ {Head(longer)},
                    queue |-> Tail(longer)]
      BY <1>2, <3>1, Zenon DEF AddKey, Queue
    <3>3. QED
      BY <3>2 DEF Queue
  <2>2. Head(longer) = Queue[1]
    BY <1>3, <1>4, <1>5, <1>6
  <2> HIDE DEF longer
  <2>3. \A i \in 1..Len(Queue) :
            Tail(longer)[i] = IF i = Len(Queue) THEN k ELSE Queue[i + 1]
    BY <1>1, <1>3, <1>4
  <2>4. /\ cache'.seen = (cache.seen \cup {k}) \ {Queue[1]}
        /\ cache' \in [seen : SUBSET Keys, queue : Seq(Keys)]
    BY <1>1, <1>4, <2>1, <2>2
  <2>5. Queue' \in Seq(Keys) /\ Len(Queue') = Len(Queue)
        /\ \A i \in 1..Len(Queue) :
               Queue'[i] = IF i = Len(Queue) THEN k ELSE Queue[i + 1]
    BY <1>4, <2>1, <2>3
  <2>6. QED
    BY <1>6, <2>4, <2>5
<1>7. CASE Len(Queue) # MaxSize
  <2>1. /\ Queue' = longer
        /\ cache' = [seen |-> cache.seen \cup {k}, queue |-> longer]
    BY <1>1, <1>2, <1>3, <1>5, <1>7 DEF AddKey, Queue
  <2> HIDE DEF longer
  <2>2. QED
    BY <1>1, <1>3, <1>7, <2>1
<1>8. QED
  BY <1>6, <1>7

LEMMA AcceptWindow == ASSUME WindowInv, NEW k \in Keys, Accept(k) PROVE WindowInv'
<1> DEFINE full == Len(Queue) = MaxSize
           n    == IF full THEN Len(Queue) ELSE Len(Queue) + 1
           from == IF full THEN 1 ELSE 0
<1>1. /\ Queue' \in Seq(Keys) /\ Len(Queue') = n
      /\ \A i \in 1..n : Queue'[i] = IF i = n THEN k ELSE Queue[i + from]
      /\ cache'.seen = (cache.seen \cup {k}) \ (IF full THEN {Queue[1]} ELSE {})
      /\ cache' \in [seen : SUBSET Keys, queue : Seq(Keys)]
  BY AcceptedQueue
<1>2. /\ Queue \in Seq(Keys) /\ Len(Queue) \in 0..MaxSize /\ cache.seen \subseteq Keys
      /\ age \in [Keys -> 0..MaxSize] /\ MaxSize \in Nat /\ MaxSize > 0
  BY MaxSizeAssumption DEF WindowInv, WindowTypeOK, Queue
<1>3. /\ cache.seen = {Queue[i] : i \in 1..Len(Queue)}
      /\ \A i, j \in 1..Len(Queue) : Queue[i] = Queue[j] => i = j
  BY <1>2 DEF WindowInv, SetMatchesQueue, Queue
<1>4. /\ \A i \in 1..Len(Queue) : age[Queue[i]] = Len(Queue) - i
      /\ \A j \in Keys \ cache.seen : age[j] = MaxSize
  BY <1>2 DEF WindowInv, AgeMatchesPosition
<1>5. k \notin cache.seen /\ age' = [j \in Keys |-> IF j = k THEN 0 ELSE Older(age[j])]
  BY DEF Accept, IsFresh
<1>6. n \in 1..MaxSize /\ n = Len(Queue) + 1 - from /\ from \in {0, 1}
      /\ (full => n = MaxSize)
  BY <1>2
<1>7. \A i \in 1..n : i # n => i + from \in 1..Len(Queue) /\ i + from > from
  BY <1>2, <1>6
<1>8. WindowTypeOK'
  <2>1. age' \in [Keys -> 0..MaxSize]
    BY <1>2, <1>5 DEF Older
  <2>2. QED
    BY <1>1, <1>6, <2>1 DEF WindowTypeOK, Queue
<1>9. \A i \in 1..n : i # n => Queue'[i] # k
  BY <1>1, <1>3, <1>5, <1>7
<1>10. SetMatchesQueue'
  <2>1. \A i, j \in 1..n : Queue'[i] = Queue'[j] => i = j
    <3>1. SUFFICES ASSUME NEW i \in 1..n, NEW j \in 1..n, Queue'[i] = Queue'[j]
                   PROVE  i = j
      OBVIOUS
    <3>2. CASE i = n \/ j = n
      BY <1>1, <1>6, <1>9, <3>1, <3>2
    <3>3. CASE i # n /\ j # n
      <4>1. i + from = j + from
        BY <1>1, <1>3, <1>7, <3>1, <3>3
      <4>2. QED
        BY <1>6, <4>1
    <3>4. QED
      BY <3>2, <3>3
  <2>2. \A j \in Keys : j \in cache'.seen <=> \E i \in 1..n : Queue'[i] = j
    <3>1. SUFFICES ASSUME NEW j \in Keys
                   PROVE  j \in cache'.seen <=> \E i \in 1..n : Queue'[i] = j
      OBVIOUS
    <3>2. CASE j = k
      <4>1. Queue'[n] = k
        BY <1>1, <1>6
      <4>2. full => Queue[1] # k
        BY <1>2, <1>3, <1>5
      <4>3. QED
        BY <1>1, <1>6, <3>2, <4>1, <4>2
    <3>3. CASE j # k
      <4>1. ASSUME j \in cache'.seen PROVE \E i \in 1..n : Queue'[i] = j
        <5>1. PICK i \in 1..Len(Queue) : Queue[i] = j
          BY <1>1, <1>3, <3>3, <4>1
        <5>2. i - from \in 1..n /\ i - from # n
          BY <1>1, <1>2, <1>6, <4>1, <5>1
        <5>3. Queue'[i - from] = j
          BY <1>1, <1>6, <5>1, <5>2
        <5>4. QED
          BY <5>2, <5>3
      <4>2. ASSUME NEW i \in 1..n, Queue'[i] = j PROVE j \in cache'.seen
        <5>1. i # n /\ Queue[i + from] = j
          BY <1>1, <1>6, <3>3, <4>2
        <5>2. i + from \in 1..Len(Queue)
          BY <1>7, <5>1
        <5>3. full => Queue[1] # j
          <6>1. full => i + from # 1
            BY <1>6
          <6>2. QED
            BY <1>2, <1>3, <5>1, <5>2, <6>1
        <5>4. QED
          BY <1>1, <1>3, <5>1, <5>2, <5>3
      <4>3. QED
        BY <4>1, <4>2
    <3>4. QED
      BY <3>2, <3>3
  <2>3. \A i \in 1..n : Queue'[i] \in Keys
    BY <1>1
  <2>4. cache'.seen = {Queue'[i] : i \in 1..n}
    BY <1>1, <2>2, <2>3
  <2>5. DOMAIN Queue' = 1..n
    BY <1>1
  <2>6. QED
    BY <2>1, <2>4, <2>5 DEF SetMatchesQueue, Queue
<1>11. AgeMatchesPosition'
  <2>1. \A i \in 1..n : age'[Queue'[i]] = n - i
    <3>1. SUFFICES ASSUME NEW i \in 1..n PROVE age'[Queue'[i]] = n - i
      OBVIOUS
    <3>2. CASE i = n
      BY <1>1, <1>5, <1>6, <3>2
    <3>3. CASE i # n
      <4>1. Queue'[i] = Queue[i + from] /\ i + from \in 1..Len(Queue)
        BY <1>1, <1>7, <3>3
      <4>2. Queue[i + from] \in Keys /\ age[Queue[i + from]] = Len(Queue) - (i + from)
        BY <1>2, <1>4, <4>1
      <4>3. Queue'[i] # k
        BY <1>9, <3>3
      <4>4. age'[Queue'[i]] = Older(Len(Queue) - (i + from))
        BY <1>5, <4>1, <4>2, <4>3
      <4>5. Len(Queue) - (i + from) < MaxSize
        BY <1>2, <1>6
      <4>6. QED
        BY <1>2, <1>6, <4>4, <4>5 DEF Older
    <3>4. QED
      BY <3>2, <3>3
  <2>2. \A j \in Keys \ cache'.seen : age'[j] = MaxSize
    <3>1. SUFFICES ASSUME NEW j \in Keys, j \notin cache'.seen PROVE age'[j] = MaxSize
      OBVIOUS
    <3>2. j # k
      BY <1>1, <1>2, <1>3, <1>5, <3>1
    <3>3. age[j] = MaxSize \/ age[j] = MaxSize - 1
      <4>1. CASE j \notin cache.seen
        BY <1>4, <4>1
      <4>2. CASE j \in cache.seen
        <5>1. full /\ j = Queue[1]
          BY <1>1, <3>1, <4>2
        <5>2. QED
          BY <1>2, <1>4, <5>1
      <4>3. QED
        BY <4>1, <4>2
    <3>4. QED
      BY <1>2, <1>5, <3>2, <3>3 DEF Older
  <2>3. DOMAIN Queue' = 1..n
    BY <1>1
  <2>4. QED
    BY <1>1, <2>1, <2>2, <2>3 DEF AgeMatchesPosition
<1>12. QED
  BY <1>8, <1>10, <1>11 DEF WindowInv

LEMMA WindowInductive == WindowInv /\ [AddOrRefuse]_window => WindowInv'
<1>1. ASSUME WindowInv, UNCHANGED window PROVE WindowInv'
  BY <1>1 DEF WindowInv, WindowTypeOK, SetMatchesQueue, AgeMatchesPosition, window, Queue
<1>2. QED
  BY <1>1, AcceptWindow DEF AddOrRefuse, Reject

\* The set and the queue of the cache never disagree.
THEOREM SetAndQueueAgree == WindowSpec => []SetMatchesQueue
<1>1. WindowInv => SetMatchesQueue
  BY DEF WindowInv
<1>2. QED
  BY <1>1, InitWindow, WindowInductive, PTL DEF WindowSpec

\* A replay is refused exactly while fewer than MaxSize other keys came since.
THEOREM WindowOfMaxSize == WindowSpec => []RemembersLastMaxSize
<1>1. ASSUME WindowInv PROVE RemembersLastMaxSize
  <2>1. \A k \in cache.seen : age[k] < MaxSize
    <3>1. SUFFICES ASSUME NEW k \in cache.seen PROVE age[k] < MaxSize
      OBVIOUS
    <3>2. Queue \in Seq(Keys) /\ Len(Queue) \in 0..MaxSize /\ MaxSize \in Nat
      BY <1>1, MaxSizeAssumption DEF WindowInv, WindowTypeOK, Queue
    <3>3. PICK i \in DOMAIN Queue : Queue[i] = k
      BY <1>1, <3>1 DEF WindowInv, SetMatchesQueue, Queue
    <3>4. age[k] = Len(Queue) - i /\ i \in 1..Len(Queue)
      BY <1>1, <3>2, <3>3 DEF WindowInv, AgeMatchesPosition
    <3>5. QED
      BY <3>2, <3>4
  <2>2. \A k \in Keys \ cache.seen : ~(age[k] < MaxSize)
    BY <1>1, MaxSizeAssumption DEF WindowInv, AgeMatchesPosition
  <2>3. QED
    BY <2>1, <2>2 DEF RemembersLastMaxSize
<1>2. QED
  BY <1>1, InitWindow, WindowInductive, PTL DEF WindowSpec
-----------------------------------------------------------------------------
(* Types.  FeedType is what TypeOK says of everything but the window.      *)

FeedType ==
    /\ client \in {"connect", "announce", "resubscribe", "select", "forward", "closed",
                   "lost", "backoff", "giveUp", "stopped"}
    /\ holding \in Events /\ failures \in Nat /\ subscribed \in SUBSET Wallets
    /\ link \in {"none", "good", "broken"} /\ server \in SUBSET Wallets
    /\ events \in Seq(Events) /\ Len(events) <= EventCap
    /\ commands \in Seq(SUBSET Wallets) /\ Len(commands) <= CommandCap
    /\ proc \in {"recv", "trades", "due", "greet", "remind", "ended"}
    /\ batch \in Seq(Keys) /\ known \in SUBSET Wallets /\ told \in SUBSET Wallets
    /\ syncDue \in BOOLEAN /\ tracked \in SUBSET Wallets
    /\ received \in SUBSET Keys /\ handled \in SUBSET Keys

LEMMA NoticeType ==
  \A kind \in {"none", "connected", "disconnected", "other", "error"} :
      Notice(kind) \in Events
<1>1. <<>> \in Seq(Keys)
  OBVIOUS
<1>2. QED
  BY <1>1 DEF Notice, Events

\* One more event, where there is room.
LEMMA AppendType ==
  ASSUME FeedType, HasRoom, NEW e \in Events, events' = Append(events, e)
  PROVE  events' \in Seq(Events) /\ Len(events') <= EventCap
<1>1. Len(events') = Len(events) + 1 /\ Len(events) \in Nat /\ EventCap \in Nat
  BY CapAssumption DEF FeedType
<1>2. QED
  BY <1>1 DEF FeedType, HasRoom

LEMMA ClientType == ASSUME FeedType, Client PROVE FeedType'
<1> USE DEF FeedType
<1>1. CASE Connect \/ Resubscribe \/ StreamFails \/ Retry
  BY <1>1 DEF Connect, Resubscribe, StreamFails, Retry, channels, processor, engine,
              bounds, history, network
<1>2. CASE Announce
  BY <1>2, NoticeType, AppendType
     DEF Announce, network, processor, engine, bounds, history
<1>3. CASE ResubscribeOnBroken
  BY <1>3 DEF ResubscribeOnBroken, Fail, network, channels, processor, engine, bounds,
              history
<1>4. CASE Forward
  BY <1>4, NoticeType, AppendType
     DEF Forward, Nothing, network, processor, engine, bounds, history
<1>5. CASE SayDisconnected
  BY <1>5, NoticeType, AppendType
     DEF SayDisconnected, Fail, processor, engine, bounds, history
<1>6. CASE PingFails
  BY <1>6 DEF PingFails, Fail, channels, processor, engine, bounds, history
<1>7. CASE Stop
  BY <1>7, NoticeType, AppendType
     DEF Stop, network, processor, engine, bounds, history
<1>8. QED
  BY <1>1, <1>2, <1>3, <1>4, <1>5, <1>6, <1>7 DEF Client

LEMMA SelectType ==
  ASSUME FeedType, Subscribe \/ ReceiveOther \/ \E trades \in Batches : ReceiveTrades(trades)
  PROVE  FeedType'
<1> USE DEF FeedType
<1>1. CASE Subscribe
  <2>1. commands # <<>> /\ commands' = Tail(commands)
    BY <1>1 DEF Subscribe
  <2>2. Head(commands) \in SUBSET Wallets /\ commands' \in Seq(SUBSET Wallets)
        /\ Len(commands') <= CommandCap
    BY <2>1, CapAssumption
  <2>3. QED
    BY <1>1, <2>2 DEF Subscribe, processor, engine, bounds, history
<1>2. CASE ReceiveOther
  BY <1>2, NoticeType
     DEF ReceiveOther, Receive, network, channels, processor, engine
<1>3. ASSUME NEW trades \in Batches, ReceiveTrades(trades) PROVE FeedType'
  <2>1. trades \in Seq(Keys)
    BY BatchAssumption
  <2>2. TradeMessage(trades) \in Events /\ \A i \in DOMAIN trades : trades[i] \in Keys
    BY <2>1 DEF TradeMessage, Events
  <2>3. received' \in SUBSET Keys
    BY <1>3, <2>2 DEF ReceiveTrades
  <2>4. QED
    BY <1>3, <2>2, <2>3
       DEF ReceiveTrades, Receive, network, channels, processor, engine
<1>4. QED
  BY <1>1, <1>2, <1>3

LEMMA ProcessorType == ASSUME FeedType, Processor PROVE FeedType'
<1> USE DEF FeedType
<1>1. CASE TakeEvent
  <2>1. events # <<>> /\ events' = Tail(events)
    BY <1>1 DEF TakeEvent
  <2>2. Head(events) \in Events /\ events' \in Seq(Events) /\ Len(events') <= EventCap
    BY <2>1, CapAssumption
  <2>3. Head(events).trades \in Seq(Keys)
    BY <2>2 DEF Events
  <2>4. /\ proc' \in {"greet", "due", "trades"} /\ batch' \in Seq(Keys)
        /\ known' \in SUBSET Wallets /\ told' \in SUBSET Wallets
    <3>1. CASE Head(events).kind = "connected"
      BY <1>1, <3>1 DEF TakeEvent, Ask
    <3>2. CASE Head(events).kind = "trade"
      BY <1>1, <2>3, <3>2 DEF TakeEvent
    <3>3. CASE Head(events).kind \notin {"connected", "trade"}
      BY <1>1, <3>3 DEF TakeEvent
    <3>4. QED
      BY <3>1, <3>2, <3>3
  <2>5. QED
    BY <1>1, <2>2, <2>4 DEF TakeEvent, feed, network, engine, bounds, history
<1>2. CASE HandleTrade
  <2>1. batch # <<>> /\ batch' = Tail(batch) /\ handled' = handled \cup {Head(batch)}
    BY <1>2 DEF HandleTrade
  <2>2. batch' \in Seq(Keys) /\ handled' \in SUBSET Keys
    BY <2>1
  <2>3. QED
    BY <1>2, <2>2 DEF HandleTrade, feed, network, channels, bounds
<1>3. CASE EndTrades \/ EndOfEvents
  BY <1>3 DEF EndTrades, EndOfEvents, feed, network, channels, engine, bounds, history
<1>4. CASE Sync
  BY <1>4 DEF Sync, Ask, feed, network, channels, engine, bounds, history
<1>5. CASE Tell
  <2>1. commands' \in Seq(SUBSET Wallets) /\ Len(commands') <= CommandCap
    BY <1>5, CapAssumption DEF Tell
  <2>2. QED
    BY <1>5, <2>1 DEF Tell, feed, network, engine, bounds, history
<1>6. QED
  BY <1>1, <1>2, <1>3, <1>4, <1>5 DEF Processor

LEMMA FeedTypeStep == FeedType /\ [Next]_vars => FeedType'
<1> SUFFICES ASSUME FeedType, [Next]_vars PROVE FeedType'
  OBVIOUS
<1>0. CASE ConnectFails \/ LinkBreaks
  BY <1>0 DEF FeedType, ConnectFails, LinkBreaks, Fail, feed, channels, processor, engine,
              history
<1>1. CASE ServerCloses \/ MinutePasses
  BY <1>1 DEF FeedType, ServerCloses, MinutePasses, feed, network, channels, processor,
              engine, bounds, history
<1>2. ASSUME NEW w \in Wallets, Track(w) PROVE FeedType'
  BY <1>2 DEF FeedType, Track, feed, network, channels, processor, history
<1>3. CASE Finished \/ UNCHANGED vars
  BY <1>3 DEF FeedType, Finished, vars, feed, network, channels, processor, engine,
              history
<1>4. QED
  BY <1>0, <1>1, <1>2, <1>3, ClientType, SelectType, ProcessorType DEF Next, Environment

LEMMA FeedTypeInit == Init => FeedType
<1> SUFFICES ASSUME Init PROVE FeedType
  OBVIOUS
<1>1. commands \in Seq(SUBSET Wallets) /\ Len(commands) <= CommandCap
  <2>1. CASE tracked = {}
    BY <2>1, CapAssumption DEF Init
  <2>2. CASE tracked # {}
    <3>1. commands = <<tracked>> /\ tracked \in SUBSET Wallets
      BY <2>2 DEF Init
    <3>2. QED
      BY <3>1, CapAssumption
  <2>3. QED
    BY <2>1, <2>2
<1>2. Nothing \in Events
  BY NoticeType DEF Nothing
<1>3. QED
  <2>1. events \in Seq(Events) /\ batch \in Seq(Keys) /\ Len(events) <= EventCap
    BY CapAssumption DEF Init
  <2>2. /\ client = "connect" /\ holding \in Events /\ failures = 0 /\ subscribed = {}
        /\ link = "none" /\ server = {} /\ proc = "recv" /\ known = {} /\ told = {}
        /\ syncDue = FALSE /\ tracked \in SUBSET Wallets /\ received = {} /\ handled = {}
    BY <1>2 DEF Init
  <2>3. QED
    BY <1>1, <2>1, <2>2 DEF FeedType
-----------------------------------------------------------------------------
(* The cache.                                                              *)

LEMMA WindowStep == FeedType /\ [Next]_vars => [AddOrRefuse]_window
<1> SUFFICES ASSUME FeedType, [Next]_vars PROVE [AddOrRefuse]_window
  OBVIOUS
<1>1. CASE HandleTrade
  <2>1. Head(batch) \in Keys
    BY <1>1 DEF HandleTrade, FeedType
  <2>2. QED
    BY <1>1, <2>1 DEF HandleTrade, AddOrRefuse
<1>2. CASE ~HandleTrade
  BY <1>2 DEF Next, Client, Connect, Announce, Resubscribe, ResubscribeOnBroken, Forward,
              StreamFails, SayDisconnected, PingFails, Retry, Stop, Subscribe,
              ReceiveOther, Receive, Processor, TakeEvent, EndTrades, Sync, Tell,
              EndOfEvents, Environment, ConnectFails, ServerCloses, LinkBreaks,
              MinutePasses, Track, ReceiveTrades, Finished, vars, engine
<1>3. QED
  BY <1>1, <1>2

\* The cache of the running feed behaves as the window: nothing but the trades the
\* processor takes from a message touches it.
THEOREM FeedUsesWindow == Spec => WindowSpec
<1>1. Init => EmptyWindow
  BY DEF Init
<1>2. QED
  BY <1>1, FeedTypeInit, FeedTypeStep, WindowStep, PTL DEF Spec, WindowSpec

\* A trade the feed repeats is refused exactly while fewer than MaxSize others
\* came since, whatever happens to connection and channels.
THEOREM FeedRemembers == Spec => []RemembersLastMaxSize
BY FeedUsesWindow, WindowOfMaxSize, PTL

\* Feed, channels, processor and cache keep their types; no channel exceeds its
\* capacity.
THEOREM TypeCorrect == Spec => []TypeOK
<1>1. WindowSpec => []WindowTypeOK
  <2>1. WindowInv => WindowTypeOK
    BY DEF WindowInv
  <2>2. QED
    BY <2>1, InitWindow, WindowInductive, PTL DEF WindowSpec
<1>2. FeedType /\ WindowTypeOK => TypeOK
  BY DEF FeedType, TypeOK
<1>3. QED
  BY <1>1, <1>2, FeedTypeInit, FeedTypeStep, FeedUsesWindow, PTL DEF Spec
-----------------------------------------------------------------------------
(* Subscriptions.                                                          *)

LEMMA SubscribedStep ==
  SubscriptionsSurviveReconnect /\ [Next]_vars => SubscriptionsSurviveReconnect'
<1> SUFFICES ASSUME SubscriptionsSurviveReconnect, [Next]_vars
             PROVE  SubscriptionsSurviveReconnect'
  OBVIOUS
<1> USE DEF SubscriptionsSurviveReconnect
<1>1. CASE Client
  BY <1>1 DEF Client, Connect, Announce, Resubscribe, ResubscribeOnBroken, Forward,
              StreamFails, SayDisconnected, PingFails, Retry, Stop, Fail, network
<1>2. CASE Subscribe
  BY <1>2 DEF Subscribe
<1>3. CASE ReceiveOther \/ \E trades \in Batches : ReceiveTrades(trades)
  BY <1>3 DEF ReceiveOther, ReceiveTrades, Receive, network
<1>4. CASE Processor
  BY <1>4 DEF Processor, TakeEvent, HandleTrade, EndTrades, Sync, Tell, EndOfEvents, feed,
              network
<1>5. CASE ConnectFails \/ ServerCloses \/ LinkBreaks \/ MinutePasses
           \/ \E w \in Wallets : Track(w)
  BY <1>5 DEF ConnectFails, ServerCloses, LinkBreaks, MinutePasses, Track, Fail, feed,
              network
<1>6. CASE Finished \/ UNCHANGED vars
  BY <1>6 DEF Finished, vars, feed, network
<1>7. QED
  BY <1>1, <1>2, <1>3, <1>4, <1>5, <1>6 DEF Next, Environment

\* What the client counts as subscribed the server of the connection knows,
\* through reconnects, broken links and commands that failed halfway.
THEOREM SubscriptionsSurvive == Spec => []SubscriptionsSurviveReconnect
<1>1. Init => SubscriptionsSurviveReconnect
  BY DEF Init, SubscriptionsSurviveReconnect
<1>2. QED
  BY <1>1, SubscribedStep, PTL DEF Spec
-----------------------------------------------------------------------------
(* Trades not dropped.                                                     *)

Mentions(e, t) == e.kind = "trade" /\ t \in Range(e.trades)

\* The places of a trade between the connection and process_fill_event.
UnderWay(t) ==
    \/ Mentions(holding, t)
    \/ \E e \in Range(events) : Mentions(e, t)
    \/ t \in Range(batch)

\* The safety half of NothingReceivedIsLost: full channels, reconnects and the stop of
\* the client drop no trade on its way, and the processor ends with all handled.
NothingDropped ==
    /\ \A t \in received : t \in handled \/ UnderWay(t)
    /\ proc = "ended" => received \subseteq handled

\* Nothing is held outside the places that say so.
PlacesInv ==
    /\ client # "forward" => holding = Nothing
    /\ proc # "trades" => batch = <<>>
    /\ proc = "ended" => events = <<>> /\ client = "stopped"

TradeInv == PlacesInv /\ \A t \in received : t \in handled \/ UnderWay(t)

LEMMA NoticeMentions ==
  \A t : \A kind \in {"none", "connected", "disconnected", "other", "error"} :
      ~Mentions(Notice(kind), t)
BY DEF Mentions, Notice

LEMMA AppendRange ==
  ASSUME NEW S, NEW s \in Seq(S), NEW e \in S
  PROVE  Range(Append(s, e)) = Range(s) \cup {e}
<1>1. Len(Append(s, e)) = Len(s) + 1 /\ Len(s) \in Nat
      /\ DOMAIN Append(s, e) = 1..(Len(s) + 1) /\ DOMAIN s = 1..Len(s)
      /\ Append(s, e)[Len(s) + 1] = e /\ \A i \in 1..Len(s) : Append(s, e)[i] = s[i]
  OBVIOUS
<1>2. ASSUME NEW x \in Range(Append(s, e)) PROVE x \in Range(s) \cup {e}
  <2>1. PICK i \in 1..(Len(s) + 1) : x = Append(s, e)[i]
    BY <1>1, <1>2 DEF Range
  <2>2. i = Len(s) + 1 \/ i \in 1..Len(s)
    BY <1>1
  <2>3. QED
    BY <1>1, <2>1, <2>2 DEF Range
<1>3. ASSUME NEW x \in Range(s) PROVE x \in Range(Append(s, e))
  <2>1. PICK i \in 1..Len(s) : x = s[i]
    BY <1>1, <1>3 DEF Range
  <2>2. i \in 1..(Len(s) + 1)
    BY <1>1
  <2>3. QED
    BY <1>1, <2>1, <2>2 DEF Range
<1>4. e \in Range(Append(s, e))
  <2>1. Len(s) + 1 \in 1..(Len(s) + 1)
    BY <1>1
  <2>2. QED
    BY <1>1, <2>1 DEF Range
<1>5. QED
  BY <1>2, <1>3, <1>4

LEMMA TailRange ==
  ASSUME NEW S, NEW s \in Seq(S), s # <<>>
  PROVE  Range(s) \subseteq Range(Tail(s)) \cup {Head(s)}
<1>1. /\ Len(s) \in Nat /\ DOMAIN s = 1..Len(s) /\ Head(s) = s[1]
      /\ DOMAIN Tail(s) = 1..(Len(s) - 1)
      /\ \A i \in 1..(Len(s) - 1) : Tail(s)[i] = s[i + 1]
  OBVIOUS
<1>2. ASSUME NEW x \in Range(s) PROVE x \in Range(Tail(s)) \cup {Head(s)}
  <2>1. PICK i \in 1..Len(s) : x = s[i]
    BY <1>1, <1>2 DEF Range
  <2>2. CASE i = 1
    BY <1>1, <2>1, <2>2
  <2>3. CASE i # 1
    <3>1. i - 1 \in 1..(Len(s) - 1) /\ (i - 1) + 1 = i
      BY <1>1, <2>3
    <3>2. x = Tail(s)[i - 1]
      BY <1>1, <2>1, <3>1
    <3>3. QED
      BY <1>1, <3>1, <3>2 DEF Range
  <2>4. QED
    BY <2>2, <2>3
<1>3. QED
  BY <1>2

\* One more event in the channel takes nothing from it.
LEMMA AppendKeeps ==
  ASSUME FeedType, NEW e \in Events, events' = Append(events, e)
  PROVE  Range(events)' = Range(events) \cup {e}
<1>1. Range(Append(events, e)) = Range(events) \cup {e}
  BY AppendRange DEF FeedType
<1>2. QED
  BY <1>1 DEF Range

\* A client that has stopped takes no step, so the processor's end is final.
LEMMA ClientTrades ==
  ASSUME FeedType, TradeInv, Client \/ Subscribe \/ ReceiveOther
                             \/ \E trades \in Batches : ReceiveTrades(trades)
  PROVE  TradeInv'
<1> USE DEF TradeInv, PlacesInv
<1>1. UNCHANGED <<proc, batch, handled>> /\ client # "stopped" /\ proc # "ended"
  BY DEF Client, Connect, Announce, Resubscribe, ResubscribeOnBroken, Forward,
         StreamFails, SayDisconnected, PingFails, Retry, Stop, Subscribe, ReceiveOther,
         ReceiveTrades, Receive, processor, history
<1>2. CASE Connect \/ Resubscribe \/ ResubscribeOnBroken \/ StreamFails \/ PingFails
           \/ Retry \/ Subscribe
  <2>1. UNCHANGED <<holding, events, received>> /\ client # "forward" /\ client' # "forward"
    BY <1>2 DEF Connect, Resubscribe, ResubscribeOnBroken, StreamFails, PingFails, Retry,
                Subscribe, Fail, channels, history
  <2>2. QED
    BY <1>1, <2>1 DEF UnderWay, Mentions, Range
<1>3. CASE Announce \/ SayDisconnected \/ Stop
  <2>1. /\ UNCHANGED <<holding, received>> /\ client # "forward" /\ client' # "forward"
        /\ \E kind \in {"connected", "disconnected", "error"} :
              events' = Append(events, Notice(kind))
    BY <1>3 DEF Announce, SayDisconnected, Stop, Fail, history
  <2>2. Range(events) \subseteq Range(events)'
    BY <2>1, NoticeType, AppendKeeps
  <2>3. QED
    BY <1>1, <2>1, <2>2 DEF UnderWay, Mentions, Range
<1>4. CASE Forward
  <2>1. /\ events' = Append(events, holding) /\ holding \in Events
        /\ holding' = Nothing /\ client' = "select" /\ UNCHANGED received
    BY <1>4 DEF Forward, FeedType, history
  <2>2. Range(events)' = Range(events) \cup {holding}
    BY <2>1, AppendKeeps
  <2>3. ASSUME NEW t, UnderWay(t) PROVE UnderWay(t)'
    BY <1>1, <2>2, <2>3 DEF UnderWay, Mentions, Range
  <2>4. QED
    BY <1>1, <2>1, <2>3
<1>5. CASE ReceiveOther
  <2>1. /\ UNCHANGED <<events, received>> /\ client # "forward" /\ client' = "forward"
        /\ holding = Nothing
    BY <1>5 DEF ReceiveOther, Receive, channels
  <2>2. \A t : ~Mentions(holding, t)
    BY <2>1, NoticeMentions DEF Nothing
  <2>3. QED
    BY <1>1, <2>1, <2>2 DEF UnderWay, Mentions, Range
<1>6. ASSUME NEW trades \in Batches, ReceiveTrades(trades) PROVE TradeInv'
  <2>1. /\ UNCHANGED events /\ client # "forward" /\ client' = "forward"
        /\ holding = Nothing /\ holding' = TradeMessage(trades)
        /\ received' = received \cup Range(trades)
    BY <1>6 DEF ReceiveTrades, Receive, channels, Range
  <2>2. \A t : ~Mentions(holding, t)
    BY <2>1, NoticeMentions DEF Nothing
  <2>3. \A t \in Range(trades) : UnderWay(t)'
    BY <2>1 DEF UnderWay, Mentions, TradeMessage
  <2>4. ASSUME NEW t, UnderWay(t) PROVE UnderWay(t)'
    <3>1. (\E e \in Range(events) : Mentions(e, t)) \/ t \in Range(batch)
      BY <2>2, <2>4 DEF UnderWay
    <3>2. UNCHANGED <<events, batch>>
      BY <1>1, <2>1
    <3>3. QED
      BY <3>1, <3>2 DEF UnderWay, Mentions, Range
  <2>5. QED
    BY <1>1, <2>1, <2>3, <2>4
<1>7. QED
  BY <1>2, <1>3, <1>4, <1>5, <1>6 DEF Client

LEMMA ProcessorTrades ==
  ASSUME FeedType, TradeInv, Processor PROVE TradeInv'
<1> USE DEF TradeInv, PlacesInv
<1>1. UNCHANGED <<client, holding, received>>
  BY DEF Processor, TakeEvent, HandleTrade, EndTrades, Sync, Tell, EndOfEvents, feed,
         history
<1>2. CASE TakeEvent
  <2>1. /\ events # <<>> /\ events' = Tail(events) /\ UNCHANGED handled /\ batch = <<>>
        /\ proc' # "ended"
    BY <1>2 DEF TakeEvent, Ask, history
  <2>2. Range(events) \subseteq Range(events)' \cup {Head(events)}
    <3>1. Range(events) \subseteq Range(Tail(events)) \cup {Head(events)}
      BY <2>1, TailRange DEF FeedType
    <3>2. QED
      BY <2>1, <3>1 DEF Range
  <2>3. Range(batch) = {}
    BY <2>1 DEF Range
  <2>4. IF Head(events).kind = "trade"
        THEN proc' = "trades" /\ batch' = Head(events).trades
        ELSE batch' = batch
    BY <1>2 DEF TakeEvent
  <2>5. ASSUME NEW t, UnderWay(t) PROVE UnderWay(t)'
    <3>1. CASE Mentions(Head(events), t)
      BY <2>4, <3>1 DEF UnderWay, Mentions, Range
    <3>2. CASE ~Mentions(Head(events), t)
      BY <1>1, <2>2, <2>3, <2>5, <3>2 DEF UnderWay, Mentions, Range
    <3>3. QED
      BY <3>1, <3>2
  <2>6. PlacesInv'
    BY <1>1, <2>1, <2>4
  <2>7. QED
    BY <1>1, <2>1, <2>5, <2>6
<1>3. CASE HandleTrade
  <2>1. /\ batch # <<>> /\ batch' = Tail(batch) /\ handled' = handled \cup {Head(batch)}
        /\ UNCHANGED <<events, proc>> /\ proc = "trades"
    BY <1>3 DEF HandleTrade, channels
  <2>2. Range(batch) \subseteq Range(batch)' \cup {Head(batch)}
    <3>1. Range(batch) \subseteq Range(Tail(batch)) \cup {Head(batch)}
      BY <2>1, TailRange DEF FeedType
    <3>2. QED
      BY <2>1, <3>1 DEF Range
  <2>3. \A t : UnderWay(t) => UnderWay(t)' \/ t \in handled'
    BY <1>1, <2>1, <2>2 DEF UnderWay, Mentions, Range
  <2>4. QED
    BY <1>1, <2>1, <2>3
<1>4. CASE EndTrades \/ Sync \/ Tell \/ EndOfEvents
  <2>1. /\ UNCHANGED <<events, batch, handled>> /\ batch = <<>> /\ proc # "ended"
        /\ proc' = "ended" => events = <<>> /\ client = "stopped"
    BY <1>4 DEF EndTrades, Sync, Tell, Ask, EndOfEvents, channels, history
  <2>2. QED
    BY <1>1, <2>1 DEF UnderWay, Mentions, Range
<1>5. QED
  BY <1>2, <1>3, <1>4 DEF Processor

LEMMA TradeStep == FeedType /\ TradeInv /\ [Next]_vars => TradeInv'
<1> SUFFICES ASSUME FeedType, TradeInv, [Next]_vars PROVE TradeInv'
  OBVIOUS
<1>1. CASE ConnectFails \/ ServerCloses \/ LinkBreaks \/ MinutePasses
           \/ (\E w \in Wallets : Track(w)) \/ Finished \/ UNCHANGED vars
  <2>1. /\ UNCHANGED <<holding, events, proc, batch, received, handled>>
        /\ client' = client \/ (client' # "forward" /\ client # "forward"
                                /\ client # "stopped")
    BY <1>1 DEF ConnectFails, ServerCloses, LinkBreaks, MinutePasses, Track, Finished, Fail,
                vars, feed, channels, processor, history
  <2>2. QED
    BY <2>1 DEF TradeInv, PlacesInv, UnderWay, Mentions, Range
<1>2. QED
  BY <1>1, ClientTrades, ProcessorTrades DEF Next, Environment

\* A trade taken from the connection is never dropped, however full the channels and
\* whatever becomes of the connection; a client that gives up leaves none behind.
THEOREM TradesKept == Spec => []NothingDropped
<1>1. Init => TradeInv
  BY DEF Init, TradeInv, PlacesInv
<1>2. TradeInv => NothingDropped
  <2> SUFFICES ASSUME TradeInv PROVE NothingDropped
    OBVIOUS
  <2>1. ASSUME proc = "ended", NEW t \in received PROVE t \in handled
    <3>1. events = <<>> /\ batch = <<>> /\ holding = Nothing
      BY <2>1 DEF TradeInv, PlacesInv
    <3>2. ~UnderWay(t)
      BY <3>1, NoticeMentions DEF UnderWay, Range, Nothing
    <3>3. QED
      BY <3>2 DEF TradeInv
  <2>2. QED
    BY <2>1 DEF NothingDropped, TradeInv
<1>3. QED
  BY <1>1, <1>2, FeedTypeInit, FeedTypeStep, TradeStep, PTL DEF Spec
=============================================================================
