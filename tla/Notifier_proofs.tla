--------------------------- MODULE Notifier_proofs --------------------------
(***************************************************************************)
(* Theorems about Notifier for any number of polls, any sizes of the ring, *)
(* the page and the set of seen ids, and any number of events and          *)
(* failures.                                                               *)
(***************************************************************************)
EXTENDS Notifier, FiniteSetTheorems, TLAPS

-----------------------------------------------------------------------------
(* Pages.                                                                  *)

\* The newest n of an interval are what the number of newer ones says.
LEMMA NewestOfInterval ==
  ASSUME NEW m \in Nat, NEW b \in 0..m, NEW n \in Nat
  PROVE  Newest(n, (b + 1)..m) = {e \in (b + 1)..m : e > m - n}
<1>1. ASSUME NEW e \in (b + 1)..m
      PROVE  Cardinality({d \in (b + 1)..m : d > e}) = m - e
  <2>1. {d \in (b + 1)..m : d > e} = (e + 1)..m
    OBVIOUS
  <2>2. Cardinality((e + 1)..m) = IF e + 1 > m THEN 0 ELSE m - (e + 1) + 1
    <3>1. e + 1 \in Int /\ m \in Int
      OBVIOUS
    <3>2. QED
      BY <3>1, FS_Interval
  <2>3. (IF e + 1 > m THEN 0 ELSE m - (e + 1) + 1) = m - e
    OBVIOUS
  <2>4. QED
    BY <2>1, <2>2, <2>3, Zenon
<1>2. ASSUME NEW e \in (b + 1)..m
      PROVE  Cardinality({d \in (b + 1)..m : d > e}) < n <=> e > m - n
  <2>1. m - e < n <=> e > m - n
    OBVIOUS
  <2>2. QED
    BY <1>1, <2>1, Zenon
<1>3. QED
  BY <1>2 DEF Newest

\* The ring holds the latest events since the engine started, all that fit.
RingInv ==
    \E b \in 0..events :
        /\ ring = (b + 1)..events /\ events - b <= RingMax
        /\ rebooted \/ b = 0 \/ events - b = RingMax

\* The last n of all events.
Top(n) == {e \in Known : e > events - n}

\* As long as the engine did not restart, a page of the ring is one of all events.
LEMMA RingPage ==
  ASSUME TypeOK, RingInv, ~rebooted
  PROVE  Newest(Page, ring) = Top(Page) /\ (events > 0 => ring # {})
<1>1. PICK b \in 0..events :
        ring = (b + 1)..events /\ (b = 0 \/ events - b = RingMax)
  BY DEF RingInv
<1>2. events \in Nat /\ Page \in Nat /\ Page <= RingMax /\ RingMax \in Nat /\ RingMax >= 1
  BY RingAssumption DEF TypeOK
<1>3. Newest(Page, ring) = {e \in (b + 1)..events : e > events - Page}
  BY <1>1, <1>2, NewestOfInterval
<1>4. {e \in (b + 1)..events : e > events - Page} = Top(Page)
  BY <1>1, <1>2 DEF Top, Known
<1>5. events > 0 => events \in ring
  BY <1>1, <1>2
<1>6. QED
  BY <1>3, <1>4, <1>5

\* A push adds the new event to the interval and drops the oldest beyond RingMax.
LEMMA PushRing ==
  ASSUME TypeOK, Push, NEW b \in 0..events, ring = (b + 1)..events
  PROVE  /\ events' = events + 1 /\ rebooted' = rebooted
         /\ ring' = {e \in (b + 1)..(events + 1) : e > events + 1 - RingMax}
<1>1. events \in Nat /\ RingMax \in Nat
  BY RingAssumption DEF TypeOK
<1>2. events' = events + 1 /\ rebooted' = rebooted
      /\ ring' = Newest(RingMax, ring \cup {events + 1})
  BY DEF Push
<1>3. ring \cup {events + 1} = (b + 1)..(events + 1)
  BY <1>1
<1>4. events + 1 \in Nat /\ b \in 0..(events + 1)
  BY <1>1
<1>5. Newest(RingMax, (b + 1)..(events + 1))
        = {e \in (b + 1)..(events + 1) : e > events + 1 - RingMax}
  BY <1>1, <1>4, NewestOfInterval
<1>6. QED
  BY <1>2, <1>3, <1>5, Zenon

LEMMA RingStep == ASSUME TypeOK, RingInv, [Next]_vars PROVE RingInv'
<1>1. CASE Push
  <2>1. PICK b \in 0..events :
          /\ ring = (b + 1)..events /\ events - b <= RingMax
          /\ rebooted \/ b = 0 \/ events - b = RingMax
    BY DEF RingInv
  <2>2. events \in Nat /\ RingMax \in Nat /\ RingMax >= 1
    BY RingAssumption DEF TypeOK
  <2>3. /\ events' = events + 1 /\ rebooted' = rebooted
        /\ ring' = {e \in (b + 1)..(events + 1) : e > events + 1 - RingMax}
    BY <1>1, <2>1, PushRing
  <2>4. CASE events + 1 - b <= RingMax
    <3>1. {e \in (b + 1)..(events + 1) : e > events + 1 - RingMax} = (b + 1)..(events + 1)
      BY <2>2, <2>4
    <3>2. ring' = (b + 1)..events'
      BY <2>3, <3>1, Zenon
    <3>3. b \in 0..events' /\ events' - b <= RingMax
      BY <2>2, <2>3, <2>4
    <3>4. rebooted' \/ b = 0 \/ events' - b = RingMax
      BY <2>1, <2>2, <2>3, <2>4
    <3>5. QED
      BY <3>2, <3>3, <3>4 DEF RingInv
  <2>5. CASE events - b = RingMax
    <3>1. {e \in (b + 1)..(events + 1) : e > events + 1 - RingMax}
            = ((b + 1) + 1)..(events + 1)
      BY <2>2, <2>5
    <3>2. ring' = ((b + 1) + 1)..events'
      BY <2>3, <3>1, Zenon
    <3>3. b + 1 \in 0..events' /\ events' - (b + 1) = RingMax
      BY <2>2, <2>3, <2>5
    <3>4. QED
      BY <2>2, <3>2, <3>3 DEF RingInv
  <2>6. QED
    BY <2>1, <2>2, <2>4, <2>5
<1>2. CASE EngineRestarts
  <2>1. ring' = {} /\ events' = events /\ rebooted' = TRUE /\ events \in Nat
    BY <1>2 DEF EngineRestarts, TypeOK
  <2>2. (events + 1)..events = {} /\ events - events = 0
    BY <2>1
  <2>3. QED
    BY <2>1, <2>2, RingAssumption DEF RingInv
<1>3. CASE UNCHANGED <<events, ring, rebooted>>
  BY <1>3 DEF RingInv
<1>4. ~Push /\ ~EngineRestarts => UNCHANGED <<events, ring, rebooted>>
  BY DEF Next, vars, Insert, InsertFails, BotRestarts, StartPoll, Polling, RpcFails,
         SendFails, TailRing, TailTable, Prime, SendNext, Sent, FinishPoll, engine, history
<1>5. QED
  BY <1>1, <1>2, <1>3, <1>4

LEMMA RingBounded ==
  ASSUME RingInv, events \in Nat
  PROVE  ring \subseteq Known /\ Cardinality(ring) <= RingMax
<1>1. PICK b \in 0..events : ring = (b + 1)..events /\ events - b <= RingMax
  BY DEF RingInv
<1>2. Cardinality((b + 1)..events) = IF b + 1 > events THEN 0 ELSE events - (b + 1) + 1
  <2>1. b + 1 \in Int /\ events \in Int
    OBVIOUS
  <2>2. QED
    BY <2>1, FS_Interval
<1>3. QED
  BY <1>1, <1>2, RingAssumption DEF Known
-----------------------------------------------------------------------------
(* Types.                                                                  *)

PollRec == [at : Places, rest : SUBSET Known, page : SUBSET Known,
            sending : 0..events, alone : BOOLEAN]

\* A message on its way is of an event.
SendingInv == \A p \in Polls : poll[p].at = "sending" => poll[p].sending \in Known

TypeInv == TypeOK /\ RingInv /\ SendingInv

\* A poll that takes a slot takes a free one.
LEMMA SlotFree == {q \in Polls : Busy(q)} # Polls => Slot \in Polls /\ ~Busy(Slot)
BY DEF Slot

LEMMA IdleType == ASSUME TypeOK PROVE IdlePoll \in PollRec
BY DEF IdlePoll, PollRec, TypeOK, Places, Known

\* What becomes of the polls when one of them moves: each keeps its type.
LEMMA AnswerType ==
  ASSUME TypeOK, NEW p \in Polls, NEW page \in SUBSET Known, Answer(p, page)
  PROVE  /\ poll' \in [Polls -> PollRec]
         /\ \A q \in Polls \ {p} : poll'[q] = poll[q]
         /\ poll'[p].at = "answered" /\ poll'[p].rest = page /\ poll'[p].page = page
         /\ poll'[p].alone = poll[p].alone
<1>1. poll \in [Polls -> PollRec]
  BY DEF TypeOK, PollRec
<1>2. poll[p] \in PollRec
  BY <1>1
<1>3. poll' = [poll EXCEPT ![p] = [poll[p] EXCEPT !.at = "answered", !.rest = page,
                                                  !.page = page]]
  BY DEF Answer
<1>4. [poll[p] EXCEPT !.at = "answered", !.rest = page, !.page = page] \in PollRec
  BY <1>2 DEF PollRec, Places
<1>5. QED
  BY <1>1, <1>2, <1>3, <1>4 DEF PollRec

LEMMA AtType ==
  ASSUME TypeOK, NEW p \in Polls, NEW place \in Places, At(p, place)
  PROVE  /\ poll' \in [Polls -> PollRec]
         /\ \A q \in Polls \ {p} : poll'[q] = poll[q]
         /\ poll'[p] = [poll[p] EXCEPT !.at = place]
         /\ poll'[p].at = place /\ poll'[p].rest = poll[p].rest
         /\ poll'[p].page = poll[p].page /\ poll'[p].alone = poll[p].alone
<1>1. poll \in [Polls -> PollRec]
  BY DEF TypeOK, PollRec
<1>2. poll[p] \in PollRec
  BY <1>1
<1>3. poll' = [poll EXCEPT ![p] = [poll[p] EXCEPT !.at = place]]
  BY DEF At
<1>4. [poll[p] EXCEPT !.at = place] \in PollRec
  BY <1>2 DEF PollRec
<1>5. QED
  BY <1>1, <1>2, <1>3, <1>4 DEF PollRec

LEMMA EndType ==
  ASSUME TypeOK, NEW p \in Polls, EndPoll(p)
  PROVE  /\ poll' \in [Polls -> PollRec]
         /\ \A q \in Polls \ {p} : poll'[q] = poll[q]
         /\ poll'[p].at = "idle" /\ poll'[p].rest = {} /\ poll'[p].page = {}
<1>1. poll \in [Polls -> PollRec]
  BY DEF TypeOK, PollRec
<1>2. QED
  BY <1>1, IdleType DEF EndPoll, IdlePoll

\* The step to the next message, e.
LEMMA SendType ==
  ASSUME TypeOK, NEW p \in Polls, NEW e \in Unsent(p),
         poll' = [poll EXCEPT ![p].at = "sending", ![p].sending = e,
                              ![p].rest = @ \ UpTo(@, e)]
  PROVE  /\ poll' \in [Polls -> PollRec]
         /\ \A q \in Polls \ {p} : poll'[q] = poll[q]
         /\ poll'[p].at = "sending" /\ poll'[p].sending = e /\ e \in Known
         /\ poll'[p].rest = poll[p].rest \ UpTo(poll[p].rest, e)
         /\ poll'[p].page = poll[p].page /\ poll'[p].alone = poll[p].alone
<1>1. poll \in [Polls -> PollRec]
  BY DEF TypeOK, PollRec
<1>2. poll[p] \in PollRec
  BY <1>1
<1> DEFINE left == poll[p].rest \ UpTo(poll[p].rest, e)
<1>3. poll' = [poll EXCEPT ![p] = [poll[p] EXCEPT !.at = "sending", !.sending = e,
                                                  !.rest = left]]
  OBVIOUS
<1>4. e \in Known /\ left \in SUBSET Known
  BY <1>2 DEF Unsent, PollRec
<1>5. e \in 0..events
  BY <1>4 DEF TypeOK, Known
<1> HIDE DEF left
<1>6. [poll[p] EXCEPT !.at = "sending", !.sending = e, !.rest = left] \in PollRec
  BY <1>2, <1>4, <1>5 DEF PollRec, Places
<1>7. poll'[p] = [poll[p] EXCEPT !.at = "sending", !.sending = e, !.rest = left]
  BY <1>1, <1>3
<1>8. poll'[p].rest = left
  BY <1>2, <1>7 DEF PollRec
<1>9. QED
  BY <1>1, <1>2, <1>3, <1>4, <1>6, <1>7, <1>8 DEF PollRec, left

LEMMA AloneType ==
  ASSUME NEW r \in PollRec, NEW b \in BOOLEAN
  PROVE  /\ [r EXCEPT !.alone = b] \in PollRec
         /\ [r EXCEPT !.alone = b].at = r.at
         /\ [r EXCEPT !.alone = b].rest = r.rest
         /\ [r EXCEPT !.alone = b].page = r.page
         /\ [r EXCEPT !.alone = b].sending = r.sending
         /\ [r EXCEPT !.alone = b].alone = b
BY DEF PollRec

LEMMA AskedType ==
  ASSUME TypeOK, NEW b \in BOOLEAN
  PROVE  LET new == [IdlePoll EXCEPT !.at = "asked", !.alone = b]
         IN  /\ new \in PollRec
             /\ new.at = "asked" /\ new.rest = {} /\ new.page = {} /\ new.alone = b
<1>1. [IdlePoll EXCEPT !.at = "asked"] \in PollRec
  BY IdleType DEF PollRec, Places
<1>2. [IdlePoll EXCEPT !.at = "asked", !.alone = b]
        = [[IdlePoll EXCEPT !.at = "asked"] EXCEPT !.alone = b]
  OBVIOUS
<1>3. /\ [IdlePoll EXCEPT !.at = "asked"].at = "asked"
      /\ [IdlePoll EXCEPT !.at = "asked"].rest = {}
      /\ [IdlePoll EXCEPT !.at = "asked"].page = {}
  BY DEF IdlePoll
<1>4. QED
  BY <1>1, <1>2, <1>3, AloneType

LEMMA StartType ==
  ASSUME TypeOK, StartPoll
  PROVE  /\ poll' \in [Polls -> PollRec] /\ Slot \in Polls /\ ~Busy(Slot)
         /\ \A q \in Polls \ {Slot} :
               /\ poll'[q].at = poll[q].at /\ poll'[q].rest = poll[q].rest
               /\ poll'[q].page = poll[q].page /\ poll'[q].sending = poll[q].sending
               /\ poll'[q].alone <=> ~Busy(q)
         /\ poll'[Slot].at = "asked" /\ poll'[Slot].rest = {} /\ poll'[Slot].page = {}
         /\ poll'[Slot].alone <=> \A q \in Polls : ~Busy(q)
<1>1. poll \in [Polls -> PollRec]
  BY DEF TypeOK, PollRec
<1>2. Slot \in Polls /\ ~Busy(Slot)
  BY SlotFree DEF StartPoll
<1> DEFINE none == {q \in Polls : Busy(q)} = {}
           new == [IdlePoll EXCEPT !.at = "asked", !.alone = none]
           other(q) == [poll[q] EXCEPT !.alone = ~Busy(q)]
<1>3. poll' = [q \in Polls |-> IF q = Slot THEN new ELSE other(q)]
  BY DEF StartPoll
<1>4. none \in BOOLEAN /\ \A q \in Polls : (~Busy(q)) \in BOOLEAN
  BY Zenon
<1>5. none <=> \A q \in Polls : ~Busy(q)
  BY Zenon
<1>6. ASSUME NEW q \in Polls
      PROVE  /\ other(q) \in PollRec /\ other(q).at = poll[q].at
             /\ other(q).rest = poll[q].rest /\ other(q).page = poll[q].page
             /\ other(q).sending = poll[q].sending /\ other(q).alone = ~Busy(q)
  <2>1. poll[q] \in PollRec
    BY <1>1
  <2>2. (~Busy(q)) \in BOOLEAN
    BY <1>4
  <2>3. QED
    BY <2>1, <2>2, AloneType, Zenon
<1> HIDE DEF none
<1>7. new \in PollRec /\ new.at = "asked" /\ new.rest = {} /\ new.page = {} /\ new.alone = none
  BY <1>4, AskedType, Zenon
<1> HIDE DEF new, other
<1>8. poll' \in [Polls -> PollRec]
  BY <1>3, <1>6, <1>7
<1>9. poll'[Slot] = new /\ \A q \in Polls \ {Slot} : poll'[q] = other(q)
  BY <1>2, <1>3
<1>10. QED
  BY <1>2, <1>5, <1>6, <1>7, <1>8, <1>9, Zenon

\* One more message of an event shown.
LEMMA ShowType ==
  ASSUME TypeOK, NEW p \in Polls, poll[p].sending \in Known, Show(p)
  PROVE  /\ delivered' \in [Events -> Nat] /\ poll[p].sending \in Events
         /\ \A e \in Events :
               delivered'[e] = delivered[e] + (IF e = poll[p].sending THEN 1 ELSE 0)
<1>1. Known \subseteq Events
  BY EventAssumption DEF TypeOK, Known, Events
<1>2. delivered \in [Events -> Nat] /\ poll[p].sending \in Events
  BY <1>1 DEF TypeOK
<1> DEFINE e0 == poll[p].sending
<1> HIDE DEF e0
<1>3. e0 \in Events /\ delivered' = [delivered EXCEPT ![e0] = delivered[e0] + 1]
  BY <1>2 DEF Show, e0
<1>4. delivered' \in [Events -> Nat]
  BY <1>2, <1>3
<1>5. \A e \in Events : delivered'[e] = delivered[e] + (IF e = e0 THEN 1 ELSE 0)
  BY <1>2, <1>3
<1>6. QED
  BY <1>2, <1>4, <1>5 DEF e0

LEMMA FaultType == ASSUME TypeOK, Fault PROVE faults' \in 0..MaxFaults
BY EventAssumption DEF TypeOK, Fault

\* A page the engine answers with is of events it knows.
LEMMA PageKnown ==
  ASSUME TypeOK
  PROVE  /\ Newest(Page, ring) \in SUBSET Known /\ Newest(Page, table) \in SUBSET Known
         /\ \A p \in Polls : poll[p].page \subseteq Known /\ poll[p].rest \subseteq Known
<1>1. poll \in [Polls -> PollRec]
  BY DEF TypeOK, PollRec
<1>2. \A p \in Polls : poll[p].page \subseteq Known /\ poll[p].rest \subseteq Known
  BY <1>1 DEF PollRec
<1>3. QED
  BY <1>2 DEF TypeOK, Newest

\* A step that leaves the number of events alone has to mind only what it changes.
LEMMA TypeFrame ==
  ASSUME TypeInv, UNCHANGED <<events, ring, rebooted>>,
         UNCHANGED <<table, unsaved>> \/ (table' \subseteq Known /\ unsaved' \subseteq Known
                                          /\ table' \cap unsaved' = {}),
         primed' \in BOOLEAN, seen' \subseteq Known, poll' \in [Polls -> PollRec],
         \A p \in Polls : poll'[p].at = "sending" => poll'[p].sending \in Known,
         delivered' \in [Events -> Nat], faults' \in 0..MaxFaults, missed' \subseteq Known,
         overlapped' \in BOOLEAN, pruned' \in BOOLEAN
  PROVE  TypeInv'
<1>1. Known' = Known /\ PollRec' = PollRec
  BY DEF Known, PollRec
<1>2. RingInv'
  BY DEF TypeInv, RingInv
<1>3. SendingInv'
  BY <1>1 DEF SendingInv
<1>4. TypeOK'
  BY <1>1 DEF TypeInv, TypeOK, PollRec
<1>5. QED
  BY <1>2, <1>3, <1>4 DEF TypeInv

LEMMA TypeStep == ASSUME TypeInv, [Next]_vars PROVE TypeInv'
<1>1. TypeOK /\ RingInv /\ SendingInv
  BY DEF TypeInv
<1>2. poll \in [Polls -> PollRec] /\ events \in Nat
  BY <1>1 DEF TypeOK, PollRec
<1>3. /\ table \subseteq Known /\ unsaved \subseteq Known /\ table \cap unsaved = {}
      /\ primed \in BOOLEAN /\ seen \subseteq Known /\ delivered \in [Events -> Nat]
      /\ faults \in 0..MaxFaults /\ missed \subseteq Known
      /\ overlapped \in BOOLEAN /\ pruned \in BOOLEAN /\ rebooted \in BOOLEAN
  BY <1>1 DEF TypeOK
<1>4. \A p \in Polls : poll[p].at = "sending" => poll[p].sending \in Known
  BY <1>1 DEF SendingInv
<1>5. CASE Push
  <2>1. events' = events + 1 /\ events' \in 0..MaxEvents
    BY <1>2, <1>5, EventAssumption DEF Push
  <2>2. Known \subseteq Known' /\ events' \in Known' /\ events' \notin Known
        /\ 0..events \subseteq 0..events'
    BY <1>2, <2>1 DEF Known
  <2>3. UNCHANGED <<table, primed, seen, poll, delivered, faults, overlapped, pruned,
                    rebooted>>
    BY <1>5 DEF Push, bot
  <2>4. unsaved' = unsaved \cup {events'} /\ missed' \subseteq Known'
    BY <1>3, <1>5, <2>1, <2>2 DEF Push, HiddenByPush
  <2>5. PollRec \subseteq PollRec'
    BY <2>2 DEF PollRec
  <2>6. poll' \in [Polls -> PollRec']
    BY <1>2, <2>3, <2>5
  <2>7. RingInv'
    BY <1>1, <1>5, RingStep
  <2>8. ring' \subseteq Known' /\ (Cardinality(ring) <= RingMax)'
    <3>1. events' \in Nat
      BY <1>2, <2>1
    <3>2. (events \in Nat /\ RingInv => ring \subseteq Known /\ Cardinality(ring) <= RingMax)'
      BY RingBounded, PTL
    <3>3. QED
      BY <2>7, <3>1, <3>2
  <2>9. TypeOK'
    BY <1>3, <2>1, <2>2, <2>3, <2>4, <2>6, <2>8 DEF TypeOK, PollRec
  <2>10. SendingInv'
    BY <1>4, <2>2, <2>3 DEF SendingInv
  <2>11. QED
    BY <2>7, <2>9, <2>10 DEF TypeInv
<1>6. ASSUME NEW e \in Events, Insert(e) \/ InsertFails(e) PROVE TypeInv'
  <2>1. UNCHANGED <<events, ring, bot, delivered, history>>
    BY <1>6 DEF Insert, InsertFails
  <2>2. faults' \in 0..MaxFaults
    BY <1>1, <1>3, <1>6, FaultType DEF Insert, InsertFails
  <2>3. table' \subseteq Known /\ unsaved' \subseteq Known /\ table' \cap unsaved' = {}
    BY <1>3, <1>6 DEF Insert, InsertFails
  <2>4. QED
    BY <1>2, <1>3, <1>4, <2>1, <2>2, <2>3, TypeFrame DEF bot, history
<1>7. CASE EngineRestarts
  <2>1. UNCHANGED <<events, table, primed, seen, delivered, overlapped, pruned>>
        /\ ring' = {} /\ unsaved' = {} /\ rebooted' = TRUE
    BY <1>7 DEF EngineRestarts
  <2>2. Known' = Known /\ PollRec' = PollRec
    BY <2>1 DEF Known, PollRec
  <2>3. poll' \in [Polls -> PollRec]
    BY <1>1, <1>2, <1>7, IdleType DEF EngineRestarts
  <2>4. \A p \in Polls : poll'[p] = IdlePoll \/ poll'[p] = poll[p]
    BY <1>7 DEF EngineRestarts
  <2>5. SendingInv'
    BY <1>4, <2>2, <2>4 DEF SendingInv, IdlePoll
  <2>6. faults' \in 0..MaxFaults /\ missed' \subseteq Known
    BY <1>1, <1>3, <1>7, FaultType DEF EngineRestarts
  <2>7. RingInv'
    BY <1>1, <1>7, RingStep
  <2>8. Cardinality(ring') <= RingMax
    BY <2>1, FS_EmptySet, RingAssumption
  <2>9. events' \in 0..MaxEvents
    BY <1>1, <2>1 DEF TypeOK
  <2>10. TypeOK'
    BY <1>3, <2>1, <2>2, <2>3, <2>6, <2>8, <2>9 DEF TypeOK, PollRec
  <2>11. QED
    BY <2>5, <2>7, <2>10 DEF TypeInv
<1>8. CASE StartPoll
  <2>1. UNCHANGED <<engine, primed, seen, delivered, faults, history>>
    BY <1>8 DEF StartPoll
  <2>2. poll' \in [Polls -> PollRec]
    BY <1>1, <1>8, StartType
  <2>3. \A p \in Polls : poll'[p].at = "sending" => poll'[p].sending \in Known
    BY <1>1, <1>4, <1>8, StartType
  <2>4. QED
    BY <1>3, <2>1, <2>2, <2>3, TypeFrame DEF engine, history
<1>9. CASE BotRestarts
  <2>1. UNCHANGED <<engine, rebooted>> /\ primed' = FALSE /\ seen' = {}
        /\ poll' = [p \in Polls |-> IdlePoll] /\ overlapped' = FALSE /\ pruned' = FALSE
        /\ delivered' = [e \in Events |-> 0] /\ missed' = missed \cup Known
    BY <1>9 DEF BotRestarts
  <2>2. poll' \in [Polls -> PollRec] /\ \A p \in Polls : poll'[p].at = "idle"
    BY <1>1, <2>1, IdleType DEF IdlePoll
  <2>3. faults' \in 0..MaxFaults
    BY <1>1, <1>9, FaultType DEF BotRestarts
  <2>4. delivered' \in [Events -> Nat] /\ missed' \subseteq Known
    BY <1>3, <2>1
  <2>5. QED
    BY <2>1, <2>2, <2>3, <2>4, TypeFrame DEF engine
<1>10. ASSUME NEW p \in Polls, TailRing(p) \/ TailTable(p) PROVE TypeInv'
  <2>1. UNCHANGED <<engine, primed, seen, delivered, faults, history>>
    BY <1>10 DEF TailRing, TailTable
  <2>2. \/ \E page \in SUBSET Known : Answer(p, page)
        \/ At(p, "query")
    BY <1>1, <1>10, PageKnown DEF TailRing, TailTable
  <2>3. /\ poll' \in [Polls -> PollRec]
        /\ \A q \in Polls : poll'[q].at = "sending" => poll'[q] = poll[q]
    BY <1>1, <2>2, AnswerType, AtType DEF Places
  <2>4. QED
    BY <1>3, <1>4, <2>1, <2>3, TypeFrame DEF engine, history
<1>11. ASSUME NEW p \in Polls, RpcFails(p) PROVE TypeInv'
  <2>1. UNCHANGED <<engine, primed, seen, delivered, history>> /\ EndPoll(p) /\ Fault
    BY <1>11 DEF RpcFails
  <2>2. /\ poll' \in [Polls -> PollRec]
        /\ \A q \in Polls : poll'[q].at = "sending" => poll'[q] = poll[q]
    BY <1>1, <2>1, EndType
  <2>3. QED
    BY <1>1, <1>3, <1>4, <2>1, <2>2, FaultType, TypeFrame DEF engine, history
<1>12. ASSUME NEW p \in Polls, Prime(p) PROVE TypeInv'
  <2>1. /\ UNCHANGED <<engine, delivered, faults, overlapped, pruned, rebooted>> /\ EndPoll(p)
        /\ primed' = TRUE /\ seen' = seen \cup poll[p].page
        /\ missed' = missed \cup poll[p].page
    BY <1>12 DEF Prime
  <2>2. /\ poll' \in [Polls -> PollRec]
        /\ \A q \in Polls : poll'[q].at = "sending" => poll'[q] = poll[q]
    BY <1>1, <2>1, EndType
  <2>3. seen' \subseteq Known /\ missed' \subseteq Known
    BY <1>1, <1>3, <2>1, PageKnown
  <2>4. QED
    BY <1>3, <1>4, <2>1, <2>2, <2>3, TypeFrame DEF engine
<1>13. ASSUME NEW p \in Polls, SendNext(p) PROVE TypeInv'
  <2>1. PICK e \in Unsent(p) :
          /\ Mark(p, e)
          /\ poll' = [poll EXCEPT ![p].at = "sending", ![p].sending = e,
                                  ![p].rest = @ \ UpTo(@, e)]
    BY <1>13 DEF SendNext
  <2>2. UNCHANGED <<engine, primed, delivered, faults, history>>
    BY <1>13 DEF SendNext
  <2>3. /\ poll' \in [Polls -> PollRec]
        /\ \A q \in Polls \ {p} : poll'[q] = poll[q]
        /\ poll'[p].sending = e /\ e \in Known
    BY <1>1, <2>1, SendType
  <2>4. seen' \subseteq Known
    BY <1>1, <1>3, <2>1, PageKnown DEF Mark, UpTo
  <2>5. \A q \in Polls : poll'[q].at = "sending" => poll'[q].sending \in Known
    BY <1>4, <2>3
  <2>6. QED
    BY <1>3, <2>2, <2>3, <2>4, <2>5, TypeFrame DEF engine, history
<1>14. ASSUME NEW p \in Polls, Sent(p) PROVE TypeInv'
  <2>1. /\ UNCHANGED <<engine, primed, seen, faults, history>>
        /\ Show(p) /\ At(p, "answered") /\ poll[p].sending \in Known
    BY <1>4, <1>14 DEF Sent
  <2>2. /\ poll' \in [Polls -> PollRec]
        /\ \A q \in Polls : poll'[q].at = "sending" => poll'[q] = poll[q]
    BY <1>1, <2>1, AtType DEF Places
  <2>3. delivered' \in [Events -> Nat]
    BY <1>1, <2>1, ShowType
  <2>4. QED
    BY <1>3, <1>4, <2>1, <2>2, <2>3, TypeFrame DEF engine, history
<1>15. ASSUME NEW p \in Polls, SendFails(p) PROVE TypeInv'
  <2>1. /\ UNCHANGED <<engine, primed, seen, overlapped, pruned, rebooted>> /\ EndPoll(p)
        /\ Fault /\ (Show(p) \/ UNCHANGED delivered)
        /\ missed' = missed \cup {poll[p].sending} /\ poll[p].sending \in Known
    BY <1>4, <1>15 DEF SendFails
  <2>2. /\ poll' \in [Polls -> PollRec]
        /\ \A q \in Polls : poll'[q].at = "sending" => poll'[q] = poll[q]
    BY <1>1, <2>1, EndType
  <2>3. delivered' \in [Events -> Nat] /\ missed' \subseteq Known
    BY <1>1, <1>3, <2>1, ShowType
  <2>4. QED
    BY <1>1, <1>3, <1>4, <2>1, <2>2, <2>3, FaultType, TypeFrame DEF engine
<1>16. ASSUME NEW p \in Polls, FinishPoll(p) PROVE TypeInv'
  <2>1. /\ UNCHANGED <<engine, primed, delivered, faults, missed, rebooted>> /\ EndPoll(p)
        /\ seen' = Prune(seen \cup poll[p].rest, poll[p].page)
        /\ pruned' \in BOOLEAN /\ overlapped' \in BOOLEAN
    BY <1>3, <1>16 DEF FinishPoll
  <2>2. /\ poll' \in [Polls -> PollRec]
        /\ \A q \in Polls : poll'[q].at = "sending" => poll'[q] = poll[q]
    BY <1>1, <2>1, EndType
  <2>3. seen' \subseteq Known
    BY <1>1, <1>3, <2>1, PageKnown DEF Prune
  <2>4. QED
    BY <1>3, <1>4, <2>1, <2>2, <2>3, TypeFrame DEF engine
<1>17. CASE UNCHANGED vars
  BY <1>2, <1>3, <1>4, <1>17, TypeFrame DEF vars, engine, bot, history
<1>18. QED
  BY <1>5, <1>6, <1>7, <1>8, <1>9, <1>10, <1>11, <1>12, <1>13, <1>14, <1>15, <1>16,
     <1>17 DEF Next, Polling

LEMMA TypeInvariant == Spec => []TypeInv
<1>1. Init => TypeInv
  <2> SUFFICES ASSUME Init PROVE TypeInv
    OBVIOUS
  <2>1. events = 0 /\ Known = {} /\ ring = {} /\ Cardinality(ring) = 0
    BY FS_EmptySet DEF Init, Known
  <2>2. poll \in [Polls -> PollRec] /\ \A p \in Polls : poll[p].at = "idle"
    BY <2>1 DEF Init, IdlePoll, PollRec, Places
  <2>3. /\ delivered \in [Events -> Nat] /\ events \in 0..MaxEvents
        /\ faults \in 0..MaxFaults /\ 0 <= RingMax
    BY <2>1, EventAssumption, RingAssumption DEF Init
  <2>4. TypeOK
    BY <2>1, <2>2, <2>3 DEF Init, TypeOK, PollRec
  <2>5. RingInv
    BY <2>1, RingAssumption DEF RingInv
  <2>6. QED
    BY <2>2, <2>4, <2>5 DEF TypeInv, SendingInv
<1>2. TypeInv /\ [Next]_vars => TypeInv'
  BY TypeStep
<1>3. QED
  BY <1>1, <1>2, PTL DEF Spec

\* The event store, the bot's memory and its polls keep their types; the ring never
\* outgrows RingMax, whatever is pushed and however often the engine restarts.
THEOREM TypeCorrect == Spec => []TypeOK
<1>1. TypeInv => TypeOK
  BY DEF TypeInv
<1>2. QED
  BY <1>1, TypeInvariant, PTL
-----------------------------------------------------------------------------
(* Events told once.                                                       *)

\* A poll that counts as alone is the only one under way, so nothing was marked
\* since it asked: as long as the engine did not restart, its page holds every id
\* remembered that a page may still show.
PollInv ==
    \A p \in Polls :
        /\ poll[p].rest \subseteq poll[p].page /\ (~Busy(p) => poll[p].rest = {})
        /\ Busy(p) /\ poll[p].alone => \A q \in Polls \ {p} : ~Busy(q)
        /\ ~rebooted /\ poll[p].alone =>
              /\ poll[p].at = "query" => seen = {}
              /\ poll[p].at \in {"answered", "sending"} =>
                    seen \cap Top(Page) \subseteq poll[p].page

\* A step of poll p needs a look at p only: whoever else is under way is not alone.
LEMMA PollMoves ==
  ASSUME PollInv, NEW p \in Polls, Busy(p), UNCHANGED <<events, rebooted>>,
         \A q \in Polls \ {p} : poll'[q] = poll[q],
         poll'[p].rest \subseteq poll'[p].page,
         \/ poll'[p].at = "idle" /\ poll'[p].rest = {}
         \/ /\ poll'[p].at # "idle" /\ poll'[p].alone = poll[p].alone
            /\ ~rebooted /\ poll[p].alone =>
                  /\ poll'[p].at = "query" => seen' = {}
                  /\ poll'[p].at \in {"answered", "sending"} =>
                        seen' \cap Top(Page) \subseteq poll'[p].page
  PROVE  PollInv'
<1>1. Top(Page)' = Top(Page)
  BY DEF Top, Known
<1>2. ASSUME NEW q \in Polls \ {p}
      PROVE  /\ Busy(q)' <=> Busy(q)
             /\ Busy(q) => ~poll[q].alone
  BY DEF PollInv, Busy
<1>3. \A q \in Polls \ {p} :
        /\ (poll[q].rest \subseteq poll[q].page /\ (~Busy(q) => poll[q].rest = {}))'
        /\ ~(Busy(q) /\ poll[q].alone)'
        /\ (~Busy(q) => poll[q].at = "idle")'
  BY <1>2 DEF PollInv, Busy
<1>4. (poll[p].rest \subseteq poll[p].page /\ (~Busy(p) => poll[p].rest = {}))'
  BY DEF Busy
<1>5. (Busy(p) /\ poll[p].alone => \A q \in Polls \ {p} : ~Busy(q))'
  BY <1>2 DEF PollInv, Busy
<1>6. QED
  BY <1>1, <1>3, <1>4, <1>5 DEF PollInv, Busy

LEMMA PollStep == ASSUME TypeInv, TypeInv', PollInv, [Next]_vars PROVE PollInv'
<1>1. TypeOK /\ RingInv /\ seen \subseteq Known /\ events \in Nat
  BY DEF TypeInv, TypeOK
<1>2. CASE UNCHANGED <<poll, seen, rebooted>> /\ events' \in {events, events + 1}
  <2>1. seen \cap Top(Page)' \subseteq seen \cap Top(Page)
    BY <1>1, <1>2, RingAssumption DEF Top, Known
  <2>2. QED
    BY <1>2, <2>1 DEF PollInv, Busy
<1>3. CASE EngineRestarts
  <2>1. rebooted' = TRUE /\ \A p \in Polls : poll'[p] = poll[p] \/ poll'[p] = IdlePoll
    BY <1>3 DEF EngineRestarts
  <2>2. \A p \in Polls : Busy(p)' => poll'[p] = poll[p] /\ Busy(p)
    BY <2>1 DEF Busy, IdlePoll
  <2>3. \A p \in Polls : ~Busy(p)' => poll'[p].rest = {}
    BY <2>1 DEF Busy, IdlePoll, PollInv
  <2>4. QED
    BY <2>1, <2>2, <2>3 DEF PollInv
<1>4. CASE BotRestarts
  <2>1. \A p \in Polls : poll'[p] = IdlePoll
    BY <1>4 DEF BotRestarts
  <2>2. QED
    BY <2>1 DEF PollInv, Busy, IdlePoll
<1>5. CASE StartPoll
  <2>1. UNCHANGED <<events, seen, rebooted>>
    BY <1>5 DEF StartPoll, engine, history
  <2>2. /\ Slot \in Polls /\ ~Busy(Slot)
        /\ \A q \in Polls \ {Slot} :
              /\ poll'[q].at = poll[q].at /\ poll'[q].rest = poll[q].rest
              /\ poll'[q].page = poll[q].page /\ (poll'[q].alone <=> ~Busy(q))
        /\ poll'[Slot].at = "asked" /\ poll'[Slot].rest = {} /\ poll'[Slot].page = {}
        /\ (poll'[Slot].alone <=> \A q \in Polls : ~Busy(q))
    BY <1>1, <1>5, StartType
  <2>3. \A q \in Polls \ {Slot} : Busy(q)' <=> Busy(q)
    BY <2>2 DEF Busy
  <2>4. QED
    BY <2>1, <2>2, <2>3 DEF PollInv, Busy
<1>6. ASSUME NEW p \in Polls, TailRing(p), ring # {} PROVE PollInv'
  <2>1. Answer(p, Newest(Page, ring)) /\ Busy(p) /\ UNCHANGED <<events, rebooted>>
        /\ Newest(Page, ring) \in SUBSET Known
    BY <1>1, <1>6, PageKnown DEF TailRing, engine, history, Busy
  <2>2. ~rebooted => seen' \cap Top(Page) \subseteq Newest(Page, ring)
    BY <1>1, RingPage
  <2>3. QED
    BY <1>1, <2>1, <2>2, AnswerType, PollMoves
<1>7. ASSUME NEW p \in Polls, TailRing(p), ring = {} PROVE PollInv'
  <2>1. At(p, "query") /\ Busy(p) /\ UNCHANGED <<events, seen, rebooted>>
    BY <1>7 DEF TailRing, engine, history, Busy
  <2>2. ~rebooted => seen = {}
    <3>1. ~rebooted => events = 0
      BY <1>1, <1>7, RingPage
    <3>2. QED
      BY <1>1, <3>1 DEF Known
  <2>3. poll[p].rest \subseteq poll[p].page
    BY DEF PollInv
  <2>4. QED
    BY <1>1, <2>1, <2>2, <2>3, AtType, PollMoves DEF Places
<1>8. ASSUME NEW p \in Polls, TailTable(p) PROVE PollInv'
  <2>1. Answer(p, Newest(Page, table)) /\ Busy(p) /\ UNCHANGED <<events, seen, rebooted>>
        /\ Newest(Page, table) \in SUBSET Known /\ poll[p].at = "query"
    BY <1>1, <1>8, PageKnown DEF TailTable, engine, history, Busy
  <2>2. ~rebooted /\ poll[p].alone => seen = {}
    BY <2>1 DEF PollInv
  <2>3. QED
    BY <1>1, <2>1, <2>2, AnswerType, PollMoves
<1>9. ASSUME NEW p \in Polls, RpcFails(p) \/ Prime(p) \/ SendFails(p) \/ FinishPoll(p)
      PROVE  PollInv'
  <2>1. EndPoll(p) /\ Busy(p) /\ UNCHANGED <<events, rebooted>>
    BY <1>9 DEF RpcFails, Prime, SendFails, FinishPoll, engine, history, Busy
  <2>2. QED
    BY <1>1, <2>1, EndType, PollMoves
<1>10. ASSUME NEW p \in Polls, SendNext(p) PROVE PollInv'
  <2>1. PICK e \in Unsent(p) :
          /\ Mark(p, e)
          /\ poll' = [poll EXCEPT ![p].at = "sending", ![p].sending = e,
                                  ![p].rest = @ \ UpTo(@, e)]
    BY <1>10 DEF SendNext
  <2>2. Busy(p) /\ UNCHANGED <<events, rebooted>> /\ poll[p].at = "answered"
    BY <1>10 DEF SendNext, engine, history, Busy
  <2>3. seen' \subseteq seen \cup poll[p].page /\ poll[p].rest \subseteq poll[p].page
    BY <2>1 DEF Mark, UpTo, PollInv
  <2>4. ~rebooted /\ poll[p].alone => seen' \cap Top(Page) \subseteq poll[p].page
    BY <2>2, <2>3 DEF PollInv
  <2>5. /\ \A q \in Polls \ {p} : poll'[q] = poll[q]
        /\ poll'[p].at = "sending" /\ poll'[p].rest \subseteq poll[p].rest
        /\ poll'[p].page = poll[p].page /\ poll'[p].alone = poll[p].alone
    BY <1>1, <2>1, SendType
  <2>6. QED
    BY <2>2, <2>3, <2>4, <2>5, PollMoves
<1>11. ASSUME NEW p \in Polls, Sent(p) PROVE PollInv'
  <2>1. At(p, "answered") /\ Busy(p) /\ UNCHANGED <<events, seen, rebooted>>
        /\ poll[p].at = "sending"
    BY <1>11 DEF Sent, engine, history, Busy
  <2>2. poll[p].rest \subseteq poll[p].page
        /\ (~rebooted /\ poll[p].alone => seen \cap Top(Page) \subseteq poll[p].page)
    BY <2>1 DEF PollInv
  <2>3. QED
    BY <1>1, <2>1, <2>2, AtType, PollMoves DEF Places
<1>12. CASE Push \/ (\E e \in Events : Insert(e) \/ InsertFails(e)) \/ UNCHANGED vars
  <2>1. UNCHANGED <<poll, seen, rebooted>> /\ events' \in {events, events + 1}
    BY <1>12 DEF Push, Insert, InsertFails, vars, engine, bot, history
  <2>2. QED
    BY <1>2, <2>1
<1>13. QED
  BY <1>3, <1>4, <1>5, <1>6, <1>7, <1>8, <1>9, <1>10, <1>11, <1>12 DEF Next, Polling

Sending(p, e) == poll[p].at = "sending" /\ poll[p].sending = e
Shown(e) == delivered[e] > 0 \/ \E p \in Polls : Sending(p, e)

\* What the property asks: no prune of a poll that was not alone, and no prune
\* together with a restart of the engine.
Trusted == ~overlapped /\ ~(pruned /\ rebooted)

\* An event that was pruned from memory for good: newer ones fill a page, and no
\* page in work holds it.
Past(e) ==
    /\ pruned /\ e \in Known \ Top(Page)
    /\ \A p \in Polls : e \notin poll[p].rest

\* An event that was shown, or is on its way, is remembered or past.
ShownInv == \A e \in Events : Shown(e) => e \in seen \/ Past(e)

\* One message at a time of an event, and none after it was shown.
SendInv ==
    \A e \in Events :
        /\ delivered[e] <= 1
        /\ \A p \in Polls : Sending(p, e) =>
              delivered[e] = 0 /\ \A q \in Polls \ {p} : ~Sending(q, e)

\* After a prune there are events, so that no poll of this engine reads the table.
PruneInv == pruned => events > 0 /\ \A p \in Polls : poll[p].at # "query"

OnceInv == Trusted => ShownInv /\ SendInv /\ PruneInv

\* What is past stays past, as long as no new page is read.
LEMMA PastStays ==
  ASSUME TypeOK, NEW e, Past(e), pruned', events' \in {events, events + 1},
         \A p \in Polls : poll'[p].rest \subseteq poll[p].rest \cup Top(Page)
  PROVE  Past(e)'
<1>1. events \in Nat /\ Page \in Nat
  BY RingAssumption DEF TypeOK
<1>2. (e \in Known \ Top(Page))'
  BY <1>1 DEF Past, Known, Top
<1>3. \A p \in Polls : e \notin poll'[p].rest
  BY DEF Past
<1>4. QED
  BY <1>2, <1>3 DEF Past

\* A step after which no more is shown or on its way and no less is remembered.
LEMMA QuietStep ==
  ASSUME TypeOK, OnceInv, Trusted' => Trusted, UNCHANGED <<delivered, pruned>>,
         seen \subseteq seen', events' \in {events, events + 1},
         \A p \in Polls : poll'[p].at = "sending" => poll'[p] = poll[p],
         Trusted /\ pruned => \A p \in Polls :
             poll'[p].at # "query" /\ poll'[p].rest \subseteq poll[p].rest \cup Top(Page)
  PROVE  OnceInv'
<1> SUFFICES ASSUME Trusted' PROVE (ShownInv /\ SendInv /\ PruneInv)'
  BY DEF OnceInv
<1>1. Trusted /\ ShownInv /\ SendInv /\ PruneInv
  BY DEF OnceInv
<1>2. \A e \in Events, p \in Polls : Sending(p, e)' => Sending(p, e)
  BY DEF Sending
<1>3. \A e \in Events : Past(e) => Past(e)'
  BY <1>1, PastStays DEF Past
<1>4. ShownInv'
  BY <1>1, <1>2, <1>3 DEF ShownInv, Shown
<1>5. SendInv'
  BY <1>1, <1>2 DEF SendInv
<1>6. PruneInv'
  <2>1. events \in Nat
    BY DEF TypeOK
  <2>2. QED
    BY <1>1, <2>1 DEF PruneInv
<1>7. QED
  BY <1>4, <1>5, <1>6

\* A poll takes up the next message only of an event neither shown nor on its way.
LEMMA SendStep ==
  ASSUME TypeOK, OnceInv, NEW p \in Polls, SendNext(p)
  PROVE  OnceInv'
<1>1. PICK e \in Unsent(p) :
        /\ Mark(p, e)
        /\ poll' = [poll EXCEPT ![p].at = "sending", ![p].sending = e,
                                ![p].rest = @ \ UpTo(@, e)]
  BY DEF SendNext
<1>2. UNCHANGED <<events, delivered, overlapped, pruned, rebooted>>
  BY DEF SendNext, engine, history
<1> SUFFICES ASSUME Trusted' PROVE (ShownInv /\ SendInv /\ PruneInv)'
  BY DEF OnceInv
<1>3. Trusted /\ ShownInv /\ SendInv /\ PruneInv
  BY <1>2 DEF OnceInv, Trusted
<1>4. /\ \A q \in Polls \ {p} : poll'[q] = poll[q]
      /\ poll'[p].at = "sending" /\ poll'[p].sending = e /\ e \in Known
      /\ poll'[p].rest \subseteq poll[p].rest
  BY <1>1, SendType
<1>5. e \in Events /\ e \in poll[p].rest /\ e \notin seen
  BY <1>1, <1>4, EventAssumption DEF TypeOK, Unsent, Known, Events
<1>6. ~Shown(e)
  BY <1>3, <1>5 DEF ShownInv, Past
<1>7. e \in seen' /\ seen \subseteq seen'
  <2>1. seen' = seen \cup UpTo(poll[p].rest, e) /\ e \in Nat
    BY <1>1, <1>4 DEF Mark, Known
  <2>2. QED
    BY <1>5, <2>1 DEF UpTo
<1>8. \A d \in Events, q \in Polls :
         /\ Sending(q, d)' => Sending(q, d) \/ (q = p /\ d = e)
         /\ d # e /\ Sending(q, d)' => q # p
  BY <1>4 DEF Sending
<1>9. \A d \in Events : Past(d) => Past(d)'
  BY <1>2, <1>4, PastStays DEF Past
<1>10. ShownInv'
  BY <1>2, <1>3, <1>7, <1>8, <1>9 DEF ShownInv, Shown
<1>11. SendInv'
  <2>1. delivered[e] = 0 /\ \A q \in Polls : ~Sending(q, e)
    <3>1. delivered[e] \in Nat
      BY <1>5 DEF TypeOK
    <3>2. QED
      BY <1>6, <3>1 DEF Shown
  <2>2. ASSUME NEW d \in Events PROVE delivered'[d] <= 1
    BY <1>2, <1>3 DEF SendInv
  <2>3. ASSUME NEW d \in Events, NEW q \in Polls, Sending(q, d)'
        PROVE  delivered'[d] = 0 /\ \A r \in Polls \ {q} : ~Sending(r, d)'
    <3>1. CASE d = e
      BY <1>2, <1>8, <2>1, <2>3, <3>1
    <3>2. CASE d # e
      BY <1>2, <1>3, <1>8, <2>3, <3>2 DEF SendInv
    <3>3. QED
      BY <3>1, <3>2
  <2>4. QED
    BY <2>2, <2>3 DEF SendInv
<1>12. PruneInv'
  BY <1>2, <1>3, <1>4 DEF PruneInv
<1>13. QED
  BY <1>10, <1>11, <1>12

\* The message was shown, or may have been, and the poll goes on or ends.
LEMMA SentStep ==
  ASSUME TypeOK, OnceInv, NEW p \in Polls, poll[p].at = "sending",
         poll[p].sending \in Known, Show(p) \/ UNCHANGED delivered,
         UNCHANGED <<events, seen, overlapped, pruned, rebooted>>,
         \A q \in Polls \ {p} : poll'[q] = poll[q],
         poll'[p].at \in {"idle", "answered"}, poll'[p].rest \subseteq poll[p].rest
  PROVE  OnceInv'
<1> DEFINE e == poll[p].sending
<1> SUFFICES ASSUME Trusted' PROVE (ShownInv /\ SendInv /\ PruneInv)'
  BY DEF OnceInv
<1>1. Trusted /\ ShownInv /\ SendInv /\ PruneInv
  BY DEF OnceInv, Trusted
<1>2. e \in Events
  BY EventAssumption DEF TypeOK, Known, Events
<1>3. Sending(p, e) /\ delivered[e] = 0 /\ \A q \in Polls \ {p} : ~Sending(q, e)
  BY <1>1, <1>2 DEF Sending, SendInv
<1>4. \A d \in Events : delivered'[d] = delivered[d] \/ (d = e /\ delivered'[d] = 1)
  <2>1. CASE Show(p)
    <3>1. \A d \in Events : delivered'[d] = delivered[d] + (IF d = e THEN 1 ELSE 0)
      BY <2>1, ShowType
    <3>2. \A d \in Events : delivered[d] \in Nat
      BY DEF TypeOK
    <3>3. QED
      BY <1>3, <3>1, <3>2
  <2>2. CASE UNCHANGED delivered
    BY <2>2
  <2>3. QED
    BY <2>1, <2>2
<1>5. \A d \in Events, q \in Polls : Sending(q, d)' => Sending(q, d) /\ q # p
  BY DEF Sending
<1>6. \A d \in Events : Past(d) => Past(d)'
  BY PastStays DEF Past
<1>7. ShownInv'
  <2>1. \A d \in Events : Shown(d)' => Shown(d)
    BY <1>3, <1>4, <1>5 DEF Shown
  <2>2. QED
    BY <1>1, <1>6, <2>1 DEF ShownInv
<1>8. SendInv'
  <2>1. ASSUME NEW d \in Events PROVE delivered'[d] <= 1
    BY <1>1, <1>4 DEF SendInv
  <2>2. ASSUME NEW d \in Events, NEW q \in Polls, Sending(q, d)'
        PROVE  delivered'[d] = 0 /\ \A r \in Polls \ {q} : ~Sending(r, d)'
    <3>1. Sending(q, d) /\ q # p
      BY <1>5, <2>2
    <3>2. d # e
      BY <1>3, <3>1
    <3>3. QED
      BY <1>1, <1>4, <1>5, <3>1, <3>2 DEF SendInv
  <2>3. QED
    BY <2>1, <2>2 DEF SendInv
<1>9. PruneInv'
  BY <1>1 DEF PruneInv
<1>10. QED
  BY <1>7, <1>8, <1>9

\* A prune that counts is by a poll alone: its page keeps what may come again.
LEMMA PruneStep ==
  ASSUME TypeInv, PollInv, OnceInv, NEW p \in Polls, FinishPoll(p),
         Cardinality(seen \cup poll[p].rest) > SeenMax
  PROVE  OnceInv'
<1>1. /\ seen' = poll[p].page /\ pruned' = TRUE /\ EndPoll(p) /\ poll[p].at = "answered"
      /\ overlapped' = (overlapped \/ ~poll[p].alone)
      /\ UNCHANGED <<events, delivered, rebooted>>
  BY DEF FinishPoll, Prune, engine
<1>2. TypeOK /\ seen \subseteq Known /\ events \in Nat
  BY DEF TypeInv, TypeOK
<1> SUFFICES ASSUME Trusted' PROVE (ShownInv /\ SendInv /\ PruneInv)'
  BY DEF OnceInv
<1>3. /\ ~rebooted /\ ~overlapped /\ poll[p].alone
      /\ Trusted /\ ShownInv /\ SendInv /\ PruneInv
  BY <1>1 DEF Trusted, OnceInv
<1>4. /\ \A q \in Polls \ {p} : poll'[q] = poll[q]
      /\ poll'[p].at = "idle" /\ poll'[p].rest = {}
  BY <1>1, <1>2, EndType
<1>5. \A q \in Polls : poll'[q].at = "idle" /\ poll'[q].rest = {}
  <2>1. \A q \in Polls \ {p} : ~Busy(q) /\ poll[q].rest = {}
    BY <1>1, <1>3 DEF PollInv, Busy
  <2>2. QED
    BY <1>4, <2>1 DEF Busy
<1>6. seen \cap Top(Page) \subseteq seen'
  BY <1>1, <1>3 DEF PollInv
<1>7. Top(Page)' = Top(Page) /\ Known' = Known
  BY <1>1 DEF Top, Known
<1>8. ASSUME NEW e \in Events, Shown(e)' PROVE e \in seen' \/ Past(e)'
  <2>1. Shown(e)
    BY <1>1, <1>5, <1>8 DEF Shown, Sending
  <2>2. e \in seen \/ e \in Known \ Top(Page)
    BY <1>3, <2>1 DEF ShownInv, Past
  <2>3. e \in seen' \/ e \in Known \ Top(Page)
    BY <1>2, <1>6, <2>2
  <2>4. QED
    BY <1>1, <1>5, <1>7, <2>3 DEF Past
<1>9. SendInv'
  BY <1>1, <1>3, <1>5 DEF SendInv, Sending
<1>10. events > 0
  <2>1. seen \cup poll[p].rest # {}
    BY FS_EmptySet, RingAssumption
  <2>2. seen \cup poll[p].rest \subseteq Known
    BY <1>2, PageKnown
  <2>3. QED
    BY <1>2, <2>1, <2>2 DEF Known
<1>11. PruneInv'
  BY <1>1, <1>5, <1>10 DEF PruneInv
<1>12. QED
  BY <1>8, <1>9, <1>11 DEF ShownInv

LEMMA OnceStep == ASSUME TypeInv, PollInv, OnceInv, [Next]_vars PROVE OnceInv'
<1>1. TypeOK /\ RingInv /\ SendingInv
  BY DEF TypeInv
<1>2. CASE Push \/ (\E e \in Events : Insert(e) \/ InsertFails(e)) \/ UNCHANGED vars
  <2>1. /\ UNCHANGED <<poll, seen, delivered, overlapped, pruned, rebooted>>
        /\ events' \in {events, events + 1}
    BY <1>2 DEF Push, Insert, InsertFails, vars, engine, bot, history
  <2>2. Trusted' => Trusted
    BY <2>1 DEF Trusted
  <2>3. Trusted /\ pruned => \A p \in Polls : poll[p].at # "query"
    BY DEF OnceInv, PruneInv
  <2>4. QED
    BY <1>1, <2>1, <2>2, <2>3, QuietStep
<1>3. CASE EngineRestarts
  <2>1. UNCHANGED <<events, seen, delivered, overlapped, pruned>> /\ rebooted' = TRUE
        /\ \A p \in Polls : poll'[p] = poll[p] \/ poll'[p] = IdlePoll
    BY <1>3 DEF EngineRestarts
  <2>2. Trusted' => Trusted /\ ~pruned
    BY <2>1 DEF Trusted
  <2>3. \A p \in Polls : poll'[p].at = "sending" => poll'[p] = poll[p]
    BY <2>1 DEF IdlePoll
  <2>4. \A p \in Polls : poll'[p].at # "query"
    BY <1>3 DEF EngineRestarts, IdlePoll
  <2>5. \A p \in Polls : poll'[p].rest \subseteq poll[p].rest
    BY <2>1 DEF IdlePoll
  <2>6. QED
    BY <1>1, <2>1, <2>2, <2>3, <2>4, <2>5, QuietStep
<1>4. CASE BotRestarts
  <2>1. /\ \A p \in Polls : poll'[p].at = "idle"
        /\ delivered' = [e \in Events |-> 0] /\ pruned' = FALSE
    BY <1>4 DEF BotRestarts, IdlePoll
  <2>2. QED
    BY <2>1 DEF OnceInv, ShownInv, SendInv, PruneInv, Shown, Sending
<1>5. CASE StartPoll
  <2>1. UNCHANGED <<events, seen, delivered, overlapped, pruned, rebooted>>
    BY <1>5 DEF StartPoll, engine, history
  <2>2. /\ Slot \in Polls
        /\ \A q \in Polls \ {Slot} :
              /\ poll'[q].at = poll[q].at /\ poll'[q].rest = poll[q].rest
              /\ poll'[q].sending = poll[q].sending
        /\ poll'[Slot].at = "asked" /\ poll'[Slot].rest = {}
    BY <1>1, <1>5, StartType
  <2> SUFFICES ASSUME Trusted' PROVE (ShownInv /\ SendInv /\ PruneInv)'
    BY DEF OnceInv
  <2>3. Trusted /\ ShownInv /\ SendInv /\ PruneInv
    BY <2>1 DEF OnceInv, Trusted
  <2>4. \A e \in Events, p \in Polls : Sending(p, e)' => Sending(p, e)
    BY <2>2 DEF Sending
  <2>5. \A e \in Events : Past(e) => Past(e)'
    <3>1. \A p \in Polls : poll'[p].rest \subseteq poll[p].rest
      BY <2>2
    <3>2. QED
      BY <1>1, <2>1, <3>1, PastStays DEF Past
  <2>6. ShownInv'
    BY <2>1, <2>3, <2>4, <2>5 DEF ShownInv, Shown
  <2>7. SendInv'
    BY <2>1, <2>3, <2>4 DEF SendInv
  <2>8. PruneInv'
    BY <2>1, <2>2, <2>3 DEF PruneInv
  <2>9. QED
    BY <2>6, <2>7, <2>8
<1>6. ASSUME NEW p \in Polls, TailRing(p) \/ TailTable(p) PROVE OnceInv'
  <2>1. UNCHANGED <<events, seen, delivered, overlapped, pruned, rebooted>>
    BY <1>6 DEF TailRing, TailTable, engine, history
  <2>2. Trusted' => Trusted
    BY <2>1 DEF Trusted
  <2>3. /\ Newest(Page, ring) \in SUBSET Known /\ Newest(Page, table) \in SUBSET Known
        /\ "query" \in Places
    BY <1>1, PageKnown DEF Places
  <2>4. /\ \A q \in Polls \ {p} : poll'[q] = poll[q]
        /\ poll'[p].at # "sending"
    BY <1>1, <1>6, <2>3, AnswerType, AtType DEF TailRing, TailTable
  <2>5. ASSUME Trusted, pruned
        PROVE  poll'[p].at # "query" /\ poll'[p].rest = Top(Page)
    <3>1. ~rebooted /\ events > 0 /\ \A q \in Polls : poll[q].at # "query"
      BY <2>5 DEF OnceInv, Trusted, PruneInv
    <3>2. ring # {} /\ Newest(Page, ring) = Top(Page)
      BY <1>1, <3>1, RingPage
    <3>3. Answer(p, Newest(Page, ring))
      BY <1>6, <3>1, <3>2 DEF TailRing, TailTable
    <3>4. QED
      BY <1>1, <2>3, <3>2, <3>3, AnswerType
  <2>6. Trusted /\ pruned => \A q \in Polls : poll[q].at # "query"
    BY DEF OnceInv, PruneInv
  <2>7. QED
    BY <1>1, <2>1, <2>2, <2>4, <2>5, <2>6, QuietStep
<1>7. ASSUME NEW p \in Polls, RpcFails(p) \/ Prime(p) PROVE OnceInv'
  <2>1. /\ UNCHANGED <<events, delivered, overlapped, pruned, rebooted>> /\ EndPoll(p)
        /\ seen \subseteq seen'
    BY <1>7 DEF RpcFails, Prime, engine, history
  <2>2. /\ \A q \in Polls \ {p} : poll'[q] = poll[q]
        /\ poll'[p].at = "idle" /\ poll'[p].rest = {}
    BY <1>1, <2>1, EndType
  <2>3. Trusted /\ pruned => \A q \in Polls : poll[q].at # "query"
    BY DEF OnceInv, PruneInv
  <2>4. Trusted' => Trusted
    BY <2>1 DEF Trusted
  <2>5. QED
    BY <1>1, <2>1, <2>2, <2>3, <2>4, QuietStep
<1>8. ASSUME NEW p \in Polls, SendNext(p) PROVE OnceInv'
  BY <1>1, <1>8, SendStep
<1>9. ASSUME NEW p \in Polls, Sent(p) PROVE OnceInv'
  <2>1. /\ UNCHANGED <<events, seen, overlapped, pruned, rebooted>> /\ Show(p)
        /\ At(p, "answered") /\ poll[p].at = "sending" /\ poll[p].sending \in Known
    BY <1>1, <1>9 DEF Sent, engine, history, SendingInv
  <2>2. /\ \A q \in Polls \ {p} : poll'[q] = poll[q]
        /\ poll'[p].at = "answered" /\ poll'[p].rest = poll[p].rest
    BY <1>1, <2>1, AtType DEF Places
  <2>3. QED
    BY <1>1, <2>1, <2>2, SentStep
<1>10. ASSUME NEW p \in Polls, SendFails(p) PROVE OnceInv'
  <2>1. /\ UNCHANGED <<events, seen, overlapped, pruned, rebooted>>
        /\ (Show(p) \/ UNCHANGED delivered) /\ EndPoll(p)
        /\ poll[p].at = "sending" /\ poll[p].sending \in Known
    BY <1>1, <1>10 DEF SendFails, engine, SendingInv
  <2>2. /\ \A q \in Polls \ {p} : poll'[q] = poll[q]
        /\ poll'[p].at = "idle" /\ poll'[p].rest = {}
    BY <1>1, <2>1, EndType
  <2>3. QED
    BY <1>1, <2>1, <2>2, SentStep
<1>11. ASSUME NEW p \in Polls, FinishPoll(p) PROVE OnceInv'
  <2>1. CASE Cardinality(seen \cup poll[p].rest) > SeenMax
    BY <1>11, <2>1, PruneStep
  <2>2. CASE ~(Cardinality(seen \cup poll[p].rest) > SeenMax)
    <3>1. /\ UNCHANGED <<events, delivered, rebooted>> /\ EndPoll(p)
          /\ seen \subseteq seen' /\ pruned' = pruned /\ overlapped' = overlapped
      BY <1>1, <1>11, <2>2 DEF FinishPoll, Prune, engine, TypeOK
    <3>2. /\ \A q \in Polls \ {p} : poll'[q] = poll[q]
          /\ poll'[p].at = "idle" /\ poll'[p].rest = {}
      BY <1>1, <3>1, EndType
    <3>3. Trusted /\ pruned => \A q \in Polls : poll[q].at # "query"
      BY DEF OnceInv, PruneInv
    <3>4. Trusted' => Trusted
      BY <3>1 DEF Trusted
    <3>5. QED
      BY <1>1, <3>1, <3>2, <3>3, <3>4, QuietStep
  <2>3. QED
    BY <2>1, <2>2
<1>12. QED
  BY <1>2, <1>3, <1>4, <1>5, <1>6, <1>7, <1>8, <1>9, <1>10, <1>11 DEF Next, Polling

\* Whatever overlaps, repeats, fails and restarts, an event is told once, unless a
\* poll that was not alone pruned, or a prune met a restart of the engine.
THEOREM ToldOnce == Spec => []NotifiedOnce
<1>1. Init => PollInv /\ OnceInv
  <2> SUFFICES ASSUME Init PROVE PollInv /\ OnceInv
    OBVIOUS
  <2>1. /\ \A p \in Polls : poll[p].at = "idle" /\ poll[p].rest = {} /\ poll[p].page = {}
        /\ \A e \in Events : delivered[e] = 0
        /\ pruned = FALSE
    BY DEF Init, IdlePoll
  <2>2. PollInv
    BY <2>1 DEF PollInv, Busy
  <2>3. OnceInv
    BY <2>1 DEF OnceInv, ShownInv, SendInv, PruneInv, Shown, Sending
  <2>4. QED
    BY <2>2, <2>3
<1>2. TypeInv /\ TypeInv' /\ PollInv /\ [Next]_vars => PollInv'
  BY PollStep
<1>3. TypeInv /\ PollInv /\ OnceInv /\ [Next]_vars => OnceInv'
  BY OnceStep
<1>4. OnceInv => NotifiedOnce
  BY DEF OnceInv, SendInv, Trusted, NotifiedOnce
<1>5. QED
  BY <1>1, <1>2, <1>3, <1>4, TypeInvariant, PTL DEF Spec
-----------------------------------------------------------------------------
(* Events not forgotten.                                                   *)

\* What a poll that starts now is answered with.
NextPage == Newest(Page, IF ring = {} THEN table ELSE ring)
Awaiting(e) == e \notin seen /\ e \in NextPage

\* Nothing more is owed of an event.
Settled(e) == e \in missed \/ Shown(e)

\* What the chat is owed, the next page shows and the bot does not take for seen:
\* an id is marked by nobody who does not see to its message, and no page that is
\* old or comes from the table hides an event that is not counted as missed.
NoNoticeForgotten == \A e \in Notable \cap Known : Settled(e) \/ Awaiting(e)

\* The part of a page a poll has worked off is settled even if its ids were pruned
\* meanwhile; an empty ring has nothing left to insert.
NoticeInv ==
    /\ ring = {} => unsaved = {}
    /\ NoNoticeForgotten
    /\ \A p \in Polls : \A e \in Notable \cap (poll[p].page \ poll[p].rest) : Settled(e)

\* What is settled stays settled, but for a bot that starts anew and so misses all.
LEMMA SettledStays ==
  ASSUME TypeInv, [Next]_vars, NEW e \in Known, Settled(e)
  PROVE  Settled(e)'
<1>1. TypeOK /\ SendingInv /\ e \in Events /\ delivered[e] \in Nat
  BY EventAssumption DEF TypeInv, TypeOK, Known, Events
<1>2. CASE e \in missed
  BY <1>2 DEF Next, vars, Push, Insert, InsertFails, EngineRestarts, BotRestarts, StartPoll,
              Polling, RpcFails, SendFails, TailRing, TailTable, Prime, SendNext, Sent,
              FinishPoll, engine, history, Settled
<1>3. CASE delivered[e] > 0
  <2>1. CASE BotRestarts
    BY <2>1 DEF BotRestarts, Settled
  <2>2. ASSUME NEW p \in Polls, Sent(p) \/ SendFails(p) PROVE Settled(e)'
    <3>1. (Show(p) \/ UNCHANGED delivered) /\ poll[p].sending \in Known
      BY <1>1, <2>2 DEF Sent, SendFails, SendingInv
    <3>2. delivered'[e] = delivered[e] + 1 \/ delivered'[e] = delivered[e] + 0
      BY <1>1, <3>1, ShowType
    <3>3. delivered'[e] > 0
      BY <1>1, <1>3, <3>2
    <3>4. QED
      BY <3>3 DEF Settled, Shown
  <2>3. CASE UNCHANGED delivered
    BY <1>3, <2>3 DEF Settled, Shown
  <2>4. QED
    BY <2>1, <2>2, <2>3
       DEF Next, vars, Push, Insert, InsertFails, EngineRestarts, StartPoll, Polling,
           RpcFails, TailRing, TailTable, Prime, SendNext, FinishPoll
<1>4. ASSUME NEW p \in Polls, Sending(p, e) PROVE Settled(e)'
  <2>1. CASE BotRestarts
    BY <2>1 DEF BotRestarts, Settled
  <2>2. CASE Sent(p)
    <3>1. delivered'[e] = delivered[e] + 1
      BY <1>1, <1>4, <2>2, ShowType DEF Sent, Sending, SendingInv
    <3>2. QED
      BY <1>1, <3>1 DEF Settled, Shown
  <2>3. CASE SendFails(p)
    BY <1>4, <2>3 DEF SendFails, Sending, Settled
  <2>4. CASE StartPoll
    <3>1. Sending(p, e)'
      BY <1>1, <1>4, <2>4, StartType DEF Sending, Busy
    <3>2. QED
      BY <3>1 DEF Settled, Shown
  <2>5. CASE EngineRestarts
    <3>1. Sending(p, e)'
      BY <1>4, <2>5 DEF EngineRestarts, Sending
    <3>2. QED
      BY <3>1 DEF Settled, Shown
  <2>6. ASSUME NEW q \in Polls, q # p, Polling(q) \/ RpcFails(q) \/ SendFails(q)
        PROVE  Settled(e)'
    <3> USE <1>1 DEF TypeOK
    <3>1. poll'[p] = poll[p]
      BY <2>6 DEF Polling, TailRing, TailTable, Prime, SendNext, Sent, FinishPoll, RpcFails,
                  SendFails, Answer, At, EndPoll
    <3>2. QED
      BY <1>4, <3>1 DEF Settled, Shown, Sending
  <2>7. ~(TailRing(p) \/ TailTable(p) \/ Prime(p) \/ SendNext(p) \/ FinishPoll(p)
          \/ RpcFails(p))
    BY <1>4 DEF TailRing, TailTable, Prime, SendNext, FinishPoll, RpcFails, Sending
  <2>8. CASE UNCHANGED poll
    BY <1>4, <2>8 DEF Settled, Shown, Sending
  <2>9. QED
    BY <2>1, <2>2, <2>3, <2>4, <2>5, <2>6, <2>7, <2>8
       DEF Next, Polling, vars, bot, Push, Insert, InsertFails
<1>5. QED
  BY <1>2, <1>3, <1>4 DEF Settled, Shown

\* Of the ring, too, the newest are those within reach of the last event.
LEMMA RingNewest ==
  ASSUME events \in Nat, RingInv
  PROVE  Newest(Page, ring) = {e \in ring : e > events - Page}
<1>1. PICK b \in 0..events : ring = (b + 1)..events
  BY DEF RingInv
<1>2. Page \in Nat
  BY RingAssumption
<1>3. QED
  BY <1>1, <1>2, NewestOfInterval

\* A step that leaves the next page alone has to answer for the ids it marks and for
\* what it strikes off a page.
LEMMA NoticeFrame ==
  ASSUME TypeInv, NoticeInv, [Next]_vars,
         UNCHANGED <<events, ring>>, unsaved' \subseteq unsaved, NextPage' = NextPage,
         \A e \in Notable \cap (seen' \ seen) : e \in Known => Settled(e)',
         \A p \in Polls : \A e \in Notable \cap (poll'[p].page \ poll'[p].rest) :
            Settled(e)' \/ e \in poll[p].page \ poll[p].rest
  PROVE  NoticeInv'
<1>1. Known' = Known /\ \A p \in Polls : poll[p].page \subseteq Known
  BY PageKnown DEF Known, TypeInv
<1>2. \A e \in Known : Settled(e) => Settled(e)'
  BY SettledStays
<1>3. (ring = {} => unsaved = {})'
  BY DEF NoticeInv
<1>4. ASSUME NEW e \in Notable \cap Known PROVE Settled(e)' \/ Awaiting(e)'
  <2>1. Settled(e) \/ Awaiting(e)
    BY <1>4 DEF NoticeInv, NoNoticeForgotten
  <2>2. CASE Awaiting(e) /\ e \notin seen'
    BY <2>2 DEF Awaiting
  <2>3. CASE Awaiting(e) /\ e \in seen'
    BY <1>4, <2>3 DEF Awaiting
  <2>4. QED
    BY <1>2, <1>4, <2>1, <2>2, <2>3
<1>5. NoNoticeForgotten'
  BY <1>1, <1>4 DEF NoNoticeForgotten
<1>6. ASSUME NEW p \in Polls, NEW e \in Notable \cap (poll'[p].page \ poll'[p].rest)
      PROVE  Settled(e)'
  <2>1. CASE e \in poll[p].page \ poll[p].rest
    BY <1>1, <1>2, <2>1 DEF NoticeInv
  <2>2. QED
    BY <2>1
<1>7. QED
  BY <1>3, <1>5, <1>6 DEF NoticeInv

LEMMA NoticePush == ASSUME TypeInv, NoticeInv, Push PROVE NoticeInv'
<1>1. TypeOK /\ RingInv /\ events \in Nat /\ seen \subseteq Known
  BY DEF TypeInv, TypeOK
<1>2. Page \in Nat /\ Page >= 1 /\ Page <= RingMax /\ RingMax \in Nat
  BY RingAssumption
<1>3. [Next]_vars
  BY DEF Next
<1>4. \A e \in Known : Settled(e) => Settled(e)'
  BY <1>3, SettledStays
<1>5. PICK b \in 0..events : ring = (b + 1)..events
  BY <1>1 DEF RingInv
<1>6. /\ events' = events + 1
      /\ ring' = {e \in (b + 1)..(events + 1) : e > events + 1 - RingMax}
  BY <1>1, <1>5, PushRing
<1>7. seen' = seen /\ poll' = poll
  BY DEF Push, bot
<1>8. Newest(Page, ring)' = {e \in ring' : e > events' - Page}
  <2>1. RingInv' /\ events' \in Nat
    BY <1>1, <1>3, <1>6, RingStep
  <2>2. (events \in Nat /\ RingInv => Newest(Page, ring) = {e \in ring : e > events - Page})'
    BY RingNewest, PTL
  <2>3. QED
    BY <2>1, <2>2 DEF Newest
<1>9. events + 1 \in ring'
  BY <1>1, <1>2, <1>5, <1>6
<1>10. NextPage' = {e \in ring' : e > events' - Page}
  <2>1. ring' # {}
    BY <1>9
  <2>2. NextPage' = Newest(Page, ring)'
    BY <2>1 DEF NextPage, Newest
  <2>3. QED
    BY <1>8, <2>2, Zenon
<1>11. ASSUME NEW e \in Notable \cap Known, Awaiting(e)
       PROVE  Settled(e)' \/ Awaiting(e)'
  <2>1. e \in Known /\ e \notin seen /\ e \in Nat
    BY <1>11 DEF Awaiting, Known
  <2>2. CASE ring = {} \/ e \notin Newest(Page - 1, Known)
    BY <2>1, <2>2 DEF Push, HiddenByPush, Settled
  <2>3. CASE ring # {} /\ e \in Newest(Page - 1, Known)
    <3>1. Newest(Page - 1, Known) = {d \in Known : d > events - (Page - 1)}
      <4>1. Known = (0 + 1)..events /\ 0 \in 0..events /\ Page - 1 \in Nat
        BY <1>1, <1>2 DEF Known
      <4>2. QED
        BY <1>1, <4>1, NewestOfInterval
    <3>2. e > events - (Page - 1)
      BY <2>3, <3>1
    <3>3. e \in ring
      BY <1>11, <2>3 DEF Awaiting, NextPage, Newest
    <3>4. e \in ring' /\ e > events + 1 - Page
      BY <1>1, <1>2, <1>5, <1>6, <2>1, <3>2, <3>3
    <3>5. e > events' - Page
      <4>1. events' = events + 1
        BY <1>6
      <4>2. QED
        BY <1>1, <1>2, <2>1, <3>4, <4>1
    <3>6. QED
      BY <1>7, <1>10, <2>1, <3>4, <3>5 DEF Awaiting
  <2>4. QED
    BY <2>2, <2>3
<1>12. ASSUME NEW e, e = events + 1 PROVE Awaiting(e)'
  <2>1. e \notin seen'
    BY <1>1, <1>7, <1>12 DEF Known
  <2>2. e \in NextPage'
    BY <1>1, <1>2, <1>6, <1>9, <1>10, <1>12
  <2>3. QED
    BY <2>1, <2>2 DEF Awaiting
<1>13. NoNoticeForgotten'
  <2>1. ASSUME NEW e \in Notable \cap Known' PROVE Settled(e)' \/ Awaiting(e)'
    <3>1. e \in Known \/ e = events + 1
      BY <1>1, <1>6 DEF Known
    <3>2. CASE e \in Known
      <4>1. Settled(e) \/ Awaiting(e)
        BY <3>2 DEF NoticeInv, NoNoticeForgotten
      <4>2. QED
        BY <1>4, <1>11, <3>2, <4>1
    <3>3. CASE e = events + 1
      BY <1>12, <3>3
    <3>4. QED
      BY <3>1, <3>2, <3>3
  <2>2. QED
    BY <2>1 DEF NoNoticeForgotten
<1>14. ASSUME NEW p \in Polls, NEW e \in Notable \cap (poll'[p].page \ poll'[p].rest)
       PROVE  Settled(e)'
  <2>1. e \in Notable \cap (poll[p].page \ poll[p].rest) /\ e \in Known
    BY <1>1, <1>7, PageKnown
  <2>2. QED
    BY <1>4, <2>1 DEF NoticeInv
<1>15. QED
  BY <1>9, <1>13, <1>14 DEF NoticeInv

\* The table answers after a restart of the engine: it holds no more events newer than
\* one of the last page than there are.
LEMMA NoticeReboot == ASSUME TypeInv, NoticeInv, EngineRestarts PROVE NoticeInv'
<1>1. /\ TypeOK /\ RingInv /\ events \in Nat /\ table \subseteq Known
      /\ \A p \in Polls : poll[p].page \subseteq Known
  BY PageKnown DEF TypeInv, TypeOK
<1>2. Page \in Nat
  BY RingAssumption
<1>3. \A e \in Known : Settled(e) => Settled(e)'
  BY SettledStays DEF Next
<1>4. /\ UNCHANGED <<events, table, seen>> /\ ring' = {} /\ unsaved' = {}
      /\ Known' = Known /\ NextPage' = Newest(Page, table)
      /\ missed' = missed \cup (Known \ (seen \cup table))
  BY DEF EngineRestarts, Known, NextPage, Newest
<1>5. ASSUME NEW e \in Notable \cap Known, Awaiting(e), e \in table
      PROVE  e \in Newest(Page, table)
  <2>1. CASE ring = {}
    BY <1>5, <2>1 DEF Awaiting, NextPage
  <2>2. CASE ring # {}
    <3> DEFINE newer == {d \in table : d > e}
    <3>1. e \in Nat /\ e > events - Page
      BY <1>1, <1>5, <2>2, RingNewest DEF Awaiting, NextPage, Known
    <3>2. newer \subseteq (e + 1)..events
      <4>1. ASSUME NEW d \in newer PROVE d \in (e + 1)..events
        BY <1>1, <3>1, <4>1 DEF Known
      <4>2. QED
        BY <4>1
    <3>3. IsFiniteSet((e + 1)..events)
          /\ Cardinality((e + 1)..events)
               = IF e + 1 > events THEN 0 ELSE events - (e + 1) + 1
      <4>1. e + 1 \in Int /\ events \in Int
        BY <1>1, <3>1
      <4>2. QED
        BY <4>1, FS_Interval
    <3>4. /\ IsFiniteSet(newer) /\ Cardinality(newer) \in Nat
          /\ Cardinality(newer) <= Cardinality((e + 1)..events)
      BY <3>2, <3>3, FS_Subset, FS_CardinalityType
    <3>5. e <= events
      BY <1>1, <1>5 DEF Known
    <3> HIDE DEF newer
    <3>6. Cardinality(newer) < Page
      BY <1>1, <1>2, <3>1, <3>3, <3>4, <3>5
    <3>7. QED
      BY <1>5, <3>6 DEF newer, Newest
  <2>3. QED
    BY <2>1, <2>2
<1>6. ASSUME NEW e \in Notable \cap Known PROVE Settled(e)' \/ Awaiting(e)'
  <2>1. Settled(e) \/ Awaiting(e)
    BY DEF NoticeInv, NoNoticeForgotten
  <2>2. CASE Awaiting(e) /\ e \in table
    BY <1>4, <1>5, <2>2 DEF Awaiting
  <2>3. CASE Awaiting(e) /\ e \notin table
    BY <1>4, <2>3 DEF Awaiting, Settled
  <2>4. QED
    BY <1>3, <2>1, <2>2, <2>3
<1>7. ASSUME NEW p \in Polls, NEW e \in Notable \cap (poll'[p].page \ poll'[p].rest)
      PROVE  Settled(e)'
  <2>1. e \in poll[p].page \ poll[p].rest
    BY DEF EngineRestarts, IdlePoll
  <2>2. QED
    BY <1>1, <1>3, <2>1 DEF NoticeInv
<1>8. QED
  BY <1>4, <1>6, <1>7 DEF NoticeInv, NoNoticeForgotten

\* Ids are marked up to the message that goes out now: the others were seen before.
LEMMA NoticeSend ==
  ASSUME TypeInv, NoticeInv, [Next]_vars, NEW p \in Polls, SendNext(p)
  PROVE  NoticeInv'
<1>1. TypeOK /\ \A q \in Polls : poll[q].rest \subseteq Known
  BY PageKnown DEF TypeInv
<1>2. PICK e0 \in Unsent(p) :
        /\ \A d \in Unsent(p) : e0 <= d
        /\ Mark(p, e0)
        /\ poll' = [poll EXCEPT ![p].at = "sending", ![p].sending = e0,
                                ![p].rest = @ \ UpTo(@, e0)]
  BY DEF SendNext
<1>3. /\ \A q \in Polls \ {p} : poll'[q] = poll[q]
      /\ poll'[p].at = "sending" /\ poll'[p].sending = e0 /\ e0 \in Known
      /\ poll'[p].rest = poll[p].rest \ UpTo(poll[p].rest, e0)
      /\ poll'[p].page = poll[p].page
  BY <1>1, <1>2, SendType
<1>4. UNCHANGED <<events, ring, table, unsaved>> /\ NextPage' = NextPage
  BY DEF SendNext, engine, NextPage, Newest
<1>5. Settled(e0)'
  BY <1>3 DEF Settled, Shown, Sending
<1>6. ASSUME NEW e \in Notable \cap UpTo(poll[p].rest, e0) PROVE e \in seen \/ e = e0
  <2>1. e \in poll[p].rest /\ e <= e0 /\ e \in Known
    BY <1>1 DEF UpTo
  <2>2. CASE e \notin seen
    <3>1. e0 <= e
      BY <1>2, <2>1, <2>2 DEF Unsent
    <3>2. e \in Int /\ e0 \in Int
      BY <1>3, <2>1 DEF Known
    <3>3. QED
      BY <2>1, <3>1, <3>2
  <2>3. QED
    BY <2>2
<1>7. \A e \in Notable \cap Known : e \in seen => Settled(e)'
  BY SettledStays DEF NoticeInv, NoNoticeForgotten, Awaiting
<1>8. \A e \in Notable \cap (seen' \ seen) : Settled(e)'
  BY <1>2, <1>5, <1>6 DEF Mark
<1>9. ASSUME NEW q \in Polls, NEW e \in Notable \cap (poll'[q].page \ poll'[q].rest)
      PROVE  Settled(e)' \/ e \in poll[q].page \ poll[q].rest
  <2>1. CASE q # p
    BY <1>3, <2>1
  <2>2. CASE q = p /\ e \in UpTo(poll[p].rest, e0)
    BY <1>1, <1>5, <1>6, <1>7, <2>2 DEF UpTo
  <2>3. CASE q = p /\ e \notin UpTo(poll[p].rest, e0)
    BY <1>3, <2>3
  <2>4. QED
    BY <2>1, <2>2, <2>3
<1>10. QED
  BY <1>4, <1>8, <1>9, NoticeFrame

LEMMA NoticeStep == ASSUME TypeInv, NoticeInv, [Next]_vars PROVE NoticeInv'
<1>1. /\ TypeOK /\ SendingInv
      /\ Newest(Page, ring) \in SUBSET Known /\ Newest(Page, table) \in SUBSET Known
      /\ \A p \in Polls : poll[p].page \subseteq Known
  BY PageKnown DEF TypeInv
<1>2. CASE Push
  BY <1>2, NoticePush
<1>3. CASE EngineRestarts
  BY <1>3, NoticeReboot
<1>4. CASE BotRestarts
  <2>1. UNCHANGED <<events, ring, unsaved>> /\ Known' = Known /\ Known \subseteq missed'
    BY <1>4 DEF BotRestarts, engine, Known
  <2>2. \A p \in Polls : poll'[p].page = {}
    BY <1>4 DEF BotRestarts, IdlePoll
  <2>3. QED
    BY <2>1, <2>2 DEF NoticeInv, NoNoticeForgotten, Settled
<1>5. CASE UNCHANGED vars
  BY <1>5, NoticeFrame DEF vars, engine, bot, NextPage, Newest
<1>6. ASSUME NEW e \in Events, Insert(e) \/ InsertFails(e) PROVE NoticeInv'
  <2>1. /\ UNCHANGED <<events, ring, bot>> /\ e \in unsaved /\ unsaved' \subseteq unsaved
    BY <1>6 DEF Insert, InsertFails
  <2>2. ring # {}
    BY <2>1 DEF NoticeInv
  <2>3. NextPage' = NextPage
    BY <2>1, <2>2 DEF NextPage, Newest
  <2>4. QED
    BY <2>1, <2>3, NoticeFrame DEF bot
<1>7. CASE StartPoll
  <2>1. UNCHANGED <<events, ring, table, unsaved, seen>> /\ NextPage' = NextPage
    BY <1>7 DEF StartPoll, engine, NextPage, Newest
  <2>2. \A q \in Polls : \/ poll'[q].page = {}
                         \/ poll'[q].page = poll[q].page /\ poll'[q].rest = poll[q].rest
    BY <1>1, <1>7, StartType
  <2>3. QED
    BY <2>1, <2>2, NoticeFrame
<1>8. ASSUME NEW p \in Polls, TailRing(p) \/ TailTable(p) PROVE NoticeInv'
  <2>1. UNCHANGED <<events, ring, table, unsaved, seen>> /\ NextPage' = NextPage
    BY <1>8 DEF TailRing, TailTable, engine, NextPage, Newest
  <2>2. \/ At(p, "query")
        \/ \E page \in SUBSET Known : Answer(p, page)
    BY <1>1, <1>8 DEF TailRing, TailTable
  <2>3. \A q \in Polls : \/ poll'[q].page = poll'[q].rest
                         \/ poll'[q].page = poll[q].page /\ poll'[q].rest = poll[q].rest
    BY <1>1, <2>2, AnswerType, AtType DEF Places
  <2>4. QED
    BY <2>1, <2>3, NoticeFrame
<1>9. ASSUME NEW p \in Polls, RpcFails(p) \/ SendFails(p) \/ Sent(p) PROVE NoticeInv'
  <2>1. UNCHANGED <<events, ring, table, unsaved, seen>> /\ NextPage' = NextPage
    BY <1>9 DEF RpcFails, SendFails, Sent, engine, NextPage, Newest
  <2>2. EndPoll(p) \/ At(p, "answered")
    BY <1>9 DEF RpcFails, SendFails, Sent
  <2>3. \A q \in Polls : \/ poll'[q].page = {}
                         \/ poll'[q].page = poll[q].page /\ poll'[q].rest = poll[q].rest
    BY <1>1, <2>2, EndType, AtType DEF Places
  <2>4. QED
    BY <2>1, <2>3, NoticeFrame
<1>10. ASSUME NEW p \in Polls, Prime(p) PROVE NoticeInv'
  <2>1. /\ UNCHANGED <<events, ring, table, unsaved>> /\ NextPage' = NextPage /\ EndPoll(p)
        /\ seen' = seen \cup poll[p].page /\ missed' = missed \cup poll[p].page
    BY <1>10 DEF Prime, engine, NextPage, Newest
  <2>2. \A e \in seen' \ seen : Settled(e)'
    BY <2>1 DEF Settled
  <2>3. \A q \in Polls : poll'[q].page = {} \/ poll'[q] = poll[q]
    BY <1>1, <2>1, EndType
  <2>4. QED
    BY <2>1, <2>2, <2>3, NoticeFrame
<1>11. ASSUME NEW p \in Polls, SendNext(p) PROVE NoticeInv'
  BY <1>11, NoticeSend
<1>12. ASSUME NEW p \in Polls, FinishPoll(p) PROVE NoticeInv'
  <2>1. /\ UNCHANGED <<events, ring, table, unsaved>> /\ NextPage' = NextPage /\ EndPoll(p)
        /\ Unsent(p) = {} /\ seen' \subseteq seen \cup poll[p].rest \cup poll[p].page
    BY <1>12 DEF FinishPoll, Prune, engine, NextPage, Newest
  <2>2. ASSUME NEW e \in Notable \cap (seen' \ seen) PROVE Settled(e)'
    <3>1. e \in poll[p].page \ poll[p].rest /\ e \in Known
      BY <1>1, <2>1 DEF Unsent
    <3>2. QED
      BY <3>1, SettledStays DEF NoticeInv
  <2>3. \A q \in Polls : poll'[q].page = {} \/ poll'[q] = poll[q]
    BY <1>1, <2>1, EndType
  <2>4. QED
    BY <2>1, <2>2, <2>3, NoticeFrame
<1>13. QED
  BY <1>2, <1>3, <1>4, <1>5, <1>6, <1>7, <1>8, <1>9, <1>10, <1>11, <1>12 DEF Next, Polling

\* The safety half of NoticeReachesChat: nothing the chat is still owed has been
\* marked, pruned away or hidden, whatever overlaps, fails and restarts.
THEOREM NothingForgotten == Spec => []NoNoticeForgotten
<1>1. Init => NoticeInv
  <2> SUFFICES ASSUME Init PROVE NoticeInv
    OBVIOUS
  <2>1. events = 0 /\ unsaved = {} /\ Known = {} /\ \A p \in Polls : poll[p].page = {}
    BY DEF Init, IdlePoll, Known
  <2>2. QED
    BY <2>1 DEF NoticeInv, NoNoticeForgotten
<1>2. TypeInv /\ NoticeInv /\ [Next]_vars => NoticeInv'
  BY NoticeStep
<1>3. NoticeInv => NoNoticeForgotten
  BY DEF NoticeInv
<1>4. QED
  BY <1>1, <1>2, <1>3, TypeInvariant, PTL DEF Spec
=============================================================================
