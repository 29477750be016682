------------------------------ MODULE Notifier ------------------------------
(***************************************************************************)
(* How an event of the engine reaches the chat: the ring of recent events  *)
(* (engine-rs/src/state.rs), the table of all of them (db.rs), tail_events *)
(* (rpc.rs), and the control bot's notifier (control-bot-ts/src/main.ts),  *)
(* which polls it and remembers what it has seen.                          *)
(*                                                                         *)
(* Events are numbered in the order push_event gives them to the ring,     *)
(* which is also the order of their created_at: a page of tail_events is a *)
(* set of numbers, read in that order.  setInterval starts a poll whether  *)
(* or not the one before is still sending.                                 *)
(***************************************************************************)
EXTENDS Integers, FiniteSets

CONSTANTS
    Polls,          \* bound: polls under way at the same time
    RingMax,        \* 5000, the ring of EngineState
    Page,           \* 120, the limit the bot asks for
    SeenMax,        \* 5000, ids the bot remembers before it prunes
    Notable,        \* the events eventMessage has a text for
    MaxEvents, MaxFaults    \* bounds on the environment

ASSUME PollAssumption == IsFiniteSet(Polls) /\ Polls # {}
ASSUME RingAssumption ==
    /\ RingMax \in Nat /\ Page \in 1..RingMax
    /\ SeenMax \in Nat /\ Page <= SeenMax
ASSUME EventAssumption ==
    /\ MaxEvents \in Nat /\ MaxFaults \in Nat
    /\ Notable \subseteq 1..MaxEvents

VARIABLES
    events,         \* how many were pushed: event e is the e-th
    ring, table,    \* EngineState.event_buffer, execution_events
    unsaved,        \* pushed, their insert_event not ended
    primed, seen,   \* the bot: notifierPrimed, seenEventIds
    poll,           \* its polls: place, events left, whole page, event on
                    \* its way, no other poll under way since it began
    delivered,      \* the chat: how often this bot has shown each event
    faults,         \* what the bound counts
    missed,         \* history: events nobody can promise any more
    overlapped,     \* history: a poll of this bot pruned and was not alone
    pruned, rebooted    \* history: this bot pruned, the engine restarted

engine  == <<events, ring, table, unsaved>>
bot     == <<primed, seen, poll>>
history == <<missed, overlapped, pruned, rebooted>>
vars    == <<engine, bot, delivered, faults, history>>

Events == 1..MaxEvents
Fault == faults < MaxFaults /\ faults' = faults + 1

\* The last n of a set of events.
NewestUnbounded(n, S) == S                                  \* faulty variant
Newest(n, S) == {e \in S : Cardinality({d \in S : d > e}) < n}

IdlePoll == [at |-> "idle", rest |-> {}, page |-> {}, sending |-> 0, alone |-> TRUE]

Init ==
    /\ events = 0 /\ ring = {} /\ table = {} /\ unsaved = {}
    /\ primed = FALSE /\ seen = {} /\ poll = [p \in Polls |-> IdlePoll]
    /\ delivered = [e \in Events |-> 0] /\ faults = 0
    /\ missed = {} /\ overlapped = FALSE /\ pruned = FALSE /\ rebooted = FALSE
-----------------------------------------------------------------------------
(* The engine.                                                             *)

Known == 1..events

\* What a new event hides from the next page: what no longer fits it, and the
\* whole table if the ring was empty.
HiddenByPush == IF ring = {} THEN Known ELSE Known \ Newest(Page - 1, Known)

\* push_event, under the state lock: commands, the pipeline and rotation alike.
Push ==
    LET e == events + 1
    IN  /\ events < MaxEvents /\ events' = e
        /\ ring' = Newest(RingMax, ring \cup {e})
        /\ unsaved' = unsaved \cup {e}
        /\ missed' = missed \cup (HiddenByPush \ seen)
        /\ UNCHANGED <<table, bot, delivered, faults, overlapped, pruned, rebooted>>

\* insert_event follows, without the lock.
Insert(e) ==
    /\ e \in unsaved /\ unsaved' = unsaved \ {e}
    /\ table' = table \cup {e}
    /\ UNCHANGED <<events, ring, bot, delivered, faults, history>>

InsertFails(e) ==
    /\ e \in unsaved /\ unsaved' = unsaved \ {e} /\ Fault
    /\ UNCHANGED <<events, ring, table, bot, delivered, history>>

At(p, place) == poll' = [poll EXCEPT ![p].at = place]

\* The ring is gone, and with it what was not inserted; requests in progress end
\* with their sockets.
EngineRestarts ==
    /\ Fault
    /\ ring' = {} /\ unsaved' = {}
    /\ poll' = [p \in Polls |-> IF poll[p].at \in {"asked", "query"} THEN IdlePoll
                                ELSE poll[p]]
    /\ missed' = missed \cup (Known \ (seen \cup table)) /\ rebooted' = TRUE
    /\ UNCHANGED <<events, table, primed, seen, delivered, overlapped, pruned>>
-----------------------------------------------------------------------------
(* tail_events: the ring, and the table only if the ring was empty.        *)

Answer(p, page) == poll' = [poll EXCEPT ![p].at = "answered", ![p].rest = page,
                                        ![p].page = page]

TailRing(p) ==
    /\ poll[p].at = "asked"
    /\ IF ring # {} THEN Answer(p, Newest(Page, ring)) ELSE At(p, "query")
    /\ UNCHANGED <<engine, primed, seen, delivered, faults, history>>

TailTable(p) ==
    /\ poll[p].at = "query"
    /\ Answer(p, Newest(Page, table))
    /\ UNCHANGED <<engine, primed, seen, delivered, faults, history>>
-----------------------------------------------------------------------------
(* The notifier.  Between two awaits the callback runs undisturbed.        *)

Busy(p) == poll[p].at # "idle"
EndPoll(p) == poll' = [poll EXCEPT ![p] = IdlePoll]

\* The interval fires.  A poll takes a free slot, any one: they are names only.
Slot == CHOOSE p \in Polls : ~Busy(p)

StartPoll ==
    LET others == {q \in Polls : Busy(q)}
    IN  /\ others # Polls
        /\ poll' = [q \in Polls |->
                IF q = Slot
                THEN [IdlePoll EXCEPT !.at = "asked", !.alone = others = {}]
                ELSE [poll[q] EXCEPT !.alone = ~Busy(q)]]
        /\ UNCHANGED <<engine, primed, seen, delivered, faults, history>>

\* The request fails or runs into its timeout.
RpcFails(p) ==
    /\ poll[p].at \in {"asked", "query"}
    /\ Fault /\ EndPoll(p)
    /\ UNCHANGED <<engine, primed, seen, delivered, history>>

\* The first page is taken as known.
Prime(p) ==
    /\ poll[p].at = "answered" /\ ~primed
    /\ primed' = TRUE /\ seen' = seen \cup poll[p].page
    /\ missed' = missed \cup poll[p].page
    /\ EndPoll(p)
    /\ UNCHANGED <<engine, delivered, faults, overlapped, pruned, rebooted>>

Unsent(p) == {e \in poll[p].rest : e \in Notable /\ e \notin seen}
UpTo(S, e) == {d \in S : d <= e}

\* Ids are marked on the way to the next event to send, that one included, and
\* before its message is sent.
MarkPage(p, e) == seen' = seen \cup poll[p].rest            \* faulty variant
Mark(p, e) == seen' = seen \cup UpTo(poll[p].rest, e)

SendNext(p) ==
    \E e \in Unsent(p) :
        /\ poll[p].at = "answered" /\ primed
        /\ \A d \in Unsent(p) : e <= d
        /\ Mark(p, e)
        /\ poll' = [poll EXCEPT ![p].at = "sending", ![p].sending = e,
                                ![p].rest = @ \ UpTo(@, e)]
        /\ UNCHANGED <<engine, primed, delivered, faults, history>>

Show(p) == delivered' = [delivered EXCEPT ![poll[p].sending] = @ + 1]

Sent(p) ==
    /\ poll[p].at = "sending"
    /\ Show(p) /\ At(p, "answered")
    /\ UNCHANGED <<engine, primed, seen, faults, history>>

\* sendMessage throws, though the chat may show the message: the poll ends, and
\* what it had not come to stays unmarked.
SendFails(p) ==
    /\ poll[p].at = "sending" /\ Fault
    /\ Show(p) \/ UNCHANGED delivered
    /\ missed' = missed \cup {poll[p].sending}
    /\ EndPoll(p)
    /\ UNCHANGED <<engine, primed, seen, overlapped, pruned, rebooted>>

\* The end of the page: too many ids are cut down to this page's.
PruneAll(marked, page) ==                                   \* faulty variant
    IF Cardinality(marked) > SeenMax THEN {} ELSE marked
Prune(marked, page) ==
    IF Cardinality(marked) > SeenMax THEN page ELSE marked

FinishPoll(p) ==
    LET marked == seen \cup poll[p].rest
        prunes == Cardinality(marked) > SeenMax
    IN  /\ poll[p].at = "answered" /\ primed /\ Unsent(p) = {}
        /\ seen' = Prune(marked, poll[p].page)
        /\ pruned' = (pruned \/ prunes)
        /\ overlapped' = (overlapped \/ (prunes /\ ~poll[p].alone))
        /\ EndPoll(p)
        /\ UNCHANGED <<engine, primed, delivered, faults, missed, rebooted>>

\* systemd starts the bot anew: it takes the next page as known.
BotRestarts ==
    /\ Fault
    /\ primed' = FALSE /\ seen' = {} /\ poll' = [p \in Polls |-> IdlePoll]
    /\ delivered' = [e \in Events |-> 0] /\ overlapped' = FALSE /\ pruned' = FALSE
    /\ missed' = missed \cup Known
    /\ UNCHANGED <<engine, rebooted>>
-----------------------------------------------------------------------------
Polling(p) == TailRing(p) \/ TailTable(p) \/ Prime(p) \/ SendNext(p) \/ Sent(p)
              \/ FinishPoll(p)

Next ==
    \/ Push
    \/ \E e \in Events : Insert(e) \/ InsertFails(e)
    \/ EngineRestarts \/ BotRestarts \/ StartPoll
    \/ \E p \in Polls : Polling(p) \/ RpcFails(p) \/ SendFails(p)

\* The interval keeps firing; the engine answers or the request times out, and
\* fetch gives up on a send that is not answered.
Spec ==
    /\ Init /\ [][Next]_vars
    /\ WF_vars(StartPoll)
    /\ \A p \in Polls : WF_vars(Polling(p) \/ RpcFails(p) \/ SendFails(p))
-----------------------------------------------------------------------------
Places == {"idle", "asked", "query", "answered", "sending"}

\* Type invariant of the event store and the notifier.
TypeOK ==
    /\ events \in 0..MaxEvents
    /\ ring \subseteq Known /\ Cardinality(ring) <= RingMax
    /\ table \subseteq Known /\ unsaved \subseteq Known /\ table \cap unsaved = {}
    /\ primed \in BOOLEAN /\ seen \subseteq Known
    /\ poll \in [Polls -> [at : Places, rest : SUBSET Known, page : SUBSET Known,
                           sending : 0..events, alone : BOOLEAN]]
    /\ delivered \in [Events -> Nat] /\ faults \in 0..MaxFaults
    /\ missed \subseteq Known /\ overlapped \in BOOLEAN /\ pruned \in BOOLEAN
    /\ rebooted \in BOOLEAN

\* A bot tells of an event once, at any overlap of polls and any repetition of
\* pages: only a prune by a poll that was not alone can forget an id that comes
\* back, and only together with a restart of the engine can a prune by a lone
\* poll do so, when the table answers with older events than the ring did.
NotifiedOnce ==
    ~overlapped /\ ~(pruned /\ rebooted)
        => \A e \in Events : delivered[e] <= 1

\* A notable event reaches the chat, unless more than a page of newer ones came
\* before a poll, or the engine restarted before it was read and its row is
\* missing or hidden by new events, or its message failed, or the bot (re)started:
\* a failed send costs no other event, nor does an overlap or a prune.
NoticeReachesChat ==
    \A e \in Notable : e \in Known ~> delivered[e] > 0 \/ e \in missed
=============================================================================
