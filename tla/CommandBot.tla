----------------------------- MODULE CommandBot -----------------------------
(***************************************************************************)
(* Commands from a chat to the engine: Telegram's queue of updates, the    *)
(* control bot's loop over them (control-bot-ts/src/main.ts), its RPC      *)
(* client with a timeout (rpcClient.ts), and the engine's handler          *)
(* (engine-rs/src/rpc.rs), which changes the memory, then the row, then    *)
(* answers, whether or not anybody still waits.  Reconciliation pauses    *)
(* trading beside them, in memory only.                                    *)
(*                                                                         *)
(* pause_trading and resume_trading stand for the commands: the order of   *)
(* two of them matters.  Update u is the u-th; Telegram forgets an update  *)
(* once getUpdates asks for a later one.                                   *)
(***************************************************************************)
EXTENDS Integers, Sequences

CONSTANTS
    BatchMax,               \* updates in one answer of getUpdates, 100
    MaxUpdates, MaxFaults   \* bounds on the environment

ASSUME BotAssumption ==
    BatchMax \in Nat \ {0} /\ MaxUpdates \in Nat /\ MaxFaults \in Nat

VARIABLES
    updates, confirmed,         \* Telegram: all updates, how many it forgot
    answered, outcome,          \* the chat: updates answered, and how, of the
                                \* last execution of each
    pc, offset, next, last,     \* the bot: offset - 1, and the batch in hand
    waiting,                    \* the call it waits for, 0 if none
    requests, calls,            \* calls the engine works on; calls so far
    paused, saved,              \* settings.paused, its row
    faults,                     \* what the bound counts
    applied,                    \* history: how often each update was applied
    executing,                  \* history: the update called last
    repeats,                    \* history: batches given up, starts of the bot
    overwritten                 \* history: of memory and row, what was written by
                                \* somebody else since the awaited handler's write

telegram == <<updates, confirmed>>
chat     == <<answered, outcome>>
bot      == <<pc, offset, next, last, waiting>>
engine   == <<requests, calls, paused, saved>>
history  == <<applied, executing, repeats, overwritten>>
vars     == <<telegram, chat, bot, engine, faults, history>>

Kinds == {"pause", "resume", "other"}
Updates == 1..MaxUpdates

\* A text of an allowed chat; any other update is skipped.
IsCommand(kind) == kind # "other"
Pauses(u) == updates[u] = "pause"

Greater(a, b) == IF a > b THEN a ELSE b
LesserNot(a, b) == b                                        \* faulty variant
Lesser(a, b) == IF a < b THEN a ELSE b

Init ==
    /\ updates = <<>> /\ confirmed = 0
    /\ answered = {} /\ outcome = [u \in Updates |-> "none"]
    /\ pc = "starting" /\ offset = 0 /\ next = 1 /\ last = 0 /\ waiting = 0
    /\ requests = {} /\ calls = 0 /\ paused = FALSE /\ saved = FALSE
    /\ faults = 0
    /\ applied = [u \in Updates |-> 0] /\ executing = 0 /\ repeats = 0
    /\ overwritten = {}

Fault == faults < MaxFaults /\ faults' = faults + 1

Arrive ==
    /\ Len(updates) < MaxUpdates
    /\ \E kind \in Kinds : updates' = Append(updates, kind)
    /\ UNCHANGED <<confirmed, chat, bot, engine, faults, history>>
-----------------------------------------------------------------------------
(* run: the message at start-up, then the loop over updates.               *)

\* get_status may fail and does not matter; a failed message ends the process.
Start ==
    /\ pc = "starting" /\ pc' = "poll"
    /\ UNCHANGED <<telegram, chat, offset, next, last, waiting, engine, faults, history>>

\* getUpdates: asking from an offset on confirms what is before it; offset 0, of
\* a new process, asks for all that is not confirmed.
Asked == Greater(confirmed, offset)
GetUpdates ==
    /\ pc = "poll"
    /\ confirmed' = Asked
    /\ IF Asked < Len(updates)
       THEN /\ pc' = "batch" /\ next' = Asked + 1
            /\ last' = Lesser(Len(updates), Asked + BatchMax)
       ELSE UNCHANGED <<pc, next, last>>
    /\ UNCHANGED <<updates, chat, offset, waiting, engine, faults, history>>

\* The request or its answer is lost; the loop sleeps and asks again.
GetUpdatesFails ==
    /\ pc = "poll" /\ Fault
    /\ confirmed' \in {confirmed, Asked}
    /\ UNCHANGED <<updates, chat, bot, engine, history>>

Advance == pc' = "batch" /\ next' = next + 1

SkipReturns ==                                              \* faulty variant
    /\ pc = "batch" /\ next <= last /\ ~IsCommand(updates[next])
    /\ pc' = "poll"
    /\ UNCHANGED <<telegram, chat, offset, next, last, waiting, engine, faults, history>>
Skip ==
    /\ pc = "batch" /\ next <= last /\ ~IsCommand(updates[next])
    /\ Advance
    /\ UNCHANGED <<telegram, chat, offset, last, waiting, engine, faults, history>>

\* handleCommand connects and writes its request.
Call ==
    /\ pc = "batch" /\ next <= last /\ IsCommand(updates[next])
    /\ calls' = calls + 1 /\ waiting' = calls + 1
    /\ requests' = requests \cup {[call |-> calls + 1, update |-> next, at |-> "apply"]}
    /\ outcome' = [outcome EXCEPT ![next] = "none"]
    /\ executing' = next
    /\ pc' = "await"
    /\ UNCHANGED <<telegram, answered, offset, next, last, paused, saved, faults,
                   applied, repeats, overwritten>>

\* No engine at the socket: the client rejects.
CallFails ==
    /\ pc = "batch" /\ next <= last /\ IsCommand(updates[next]) /\ Fault
    /\ outcome' = [outcome EXCEPT ![next] = "none"]
    /\ executing' = next
    /\ pc' = "complain"
    /\ UNCHANGED <<telegram, answered, offset, next, last, waiting, engine, applied,
                   repeats, overwritten>>

\* The client gives up; the handler goes on.
Timeout ==
    /\ pc = "await" /\ Fault
    /\ pc' = "complain" /\ waiting' = 0
    /\ UNCHANGED <<telegram, chat, offset, next, last, engine, history>>

\* sendMessage of the reply, ...
Tell(how) ==
    /\ answered' = answered \cup {next}
    /\ outcome' = [outcome EXCEPT ![next] = how]

Reply ==
    /\ pc = "reply"
    /\ Tell("ok") /\ Advance
    /\ UNCHANGED <<telegram, offset, last, waiting, engine, faults, history>>

\* ... which the chat may show although it failed, ...
ReplyFails ==
    /\ pc = "reply" /\ Fault
    /\ Tell("ok") \/ UNCHANGED chat
    /\ pc' = "complain"
    /\ UNCHANGED <<telegram, offset, next, last, waiting, engine, history>>

\* ... and of "Command failed".
Complain ==
    /\ pc = "complain"
    /\ Tell("failed") /\ Advance
    /\ UNCHANGED <<telegram, offset, last, waiting, engine, faults, history>>

\* This one throws out of processUpdates: the rest of the batch is left, and the
\* offset stays where it was.
ComplainFailsOn ==                                          \* faulty variant
    /\ pc = "complain" /\ Fault
    /\ Advance
    /\ UNCHANGED <<telegram, chat, offset, last, waiting, engine, history>>
ComplainFails ==
    /\ pc = "complain" /\ Fault
    /\ Tell("failed") \/ UNCHANGED chat
    /\ pc' = "poll" /\ repeats' = repeats + 1
    /\ UNCHANGED <<telegram, offset, next, last, waiting, engine, applied, executing,
                   overwritten>>

EndBatchEarly ==                                            \* faulty variant
    /\ pc = "batch" /\ next > last
    /\ offset' = last - 1 /\ pc' = "poll"
    /\ UNCHANGED <<telegram, chat, next, last, waiting, engine, faults, history>>
EndBatch ==
    /\ pc = "batch" /\ next > last
    /\ offset' = last /\ pc' = "poll"
    /\ UNCHANGED <<telegram, chat, next, last, waiting, engine, faults, history>>

\* The process ends anywhere, a failed start-up message included, and systemd
\* starts it again.
BotRestarts ==
    /\ Fault /\ repeats' = repeats + 1
    /\ pc' = "starting" /\ offset' = 0 /\ next' = 1 /\ last' = 0 /\ waiting' = 0
    /\ UNCHANGED <<telegram, chat, engine, applied, executing, overwritten>>
-----------------------------------------------------------------------------
(* The engine: one task per connection.                                    *)

Awaited(r) == r.call = waiting

\* The handler is done, well or not; the answer is for who still waits.
AnswerCall(r, place) ==
    /\ requests' = requests \ {r}
    /\ IF Awaited(r) THEN pc' = place /\ waiting' = 0 ELSE UNCHANGED <<pc, waiting>>
    /\ UNCHANGED <<offset, next, last>>

\* Memory or row is the awaited command's, or somebody else's from now on.
Written(r, where) ==
    overwritten' = IF Awaited(r) THEN overwritten \ {where} ELSE overwritten \cup {where}

MoveOn(r, place) == requests' = (requests \ {r}) \cup {[r EXCEPT !.at = place]}

\* The critical section under the state lock.
Apply(r) ==
    /\ r.at = "apply"
    /\ paused' = Pauses(r.update)
    /\ MoveOn(r, "save")
    /\ applied' = [applied EXCEPT ![r.update] = @ + 1]
    /\ Written(r, "memory")
    /\ UNCHANGED <<telegram, chat, bot, calls, saved, faults, executing, repeats>>

\* save_runtime_settings of the copy taken there.
SaveNothing(r) ==                                           \* faulty variant
    /\ r.at = "save"
    /\ MoveOn(r, "event")
    /\ Written(r, "row")
    /\ UNCHANGED <<telegram, chat, bot, calls, paused, saved, faults, applied,
                   executing, repeats>>
Save(r) ==
    /\ r.at = "save"
    /\ saved' = Pauses(r.update)
    /\ MoveOn(r, "event")
    /\ Written(r, "row")
    /\ UNCHANGED <<telegram, chat, bot, calls, paused, faults, applied, executing,
                   repeats>>

\* insert_event, and an audit row whose failure is only logged.
Finish(r) ==
    /\ r.at = "event"
    /\ AnswerCall(r, "reply")
    /\ UNCHANGED <<telegram, chat, calls, paused, saved, faults, history>>

WriteFails(r) ==
    /\ r.at \in {"save", "event"} /\ Fault
    /\ AnswerCall(r, "complain")
    /\ UNCHANGED <<telegram, chat, calls, paused, saved, history>>

\* Handlers die with the process, and a client that waits sees its socket closed.
EngineRestarts ==
    /\ Fault
    /\ requests' = {} /\ paused' = saved
    /\ IF pc = "await" THEN pc' = "complain" /\ waiting' = 0
                       ELSE UNCHANGED <<pc, waiting>>
    /\ overwritten' = IF "row" \in overwritten THEN {"memory", "row"} ELSE {}
    /\ UNCHANGED <<telegram, chat, offset, next, last, calls, saved, applied, executing,
                   repeats>>

\* reconciliation_loop finds a critical discrepancy: the memory changes, not the row.
ReconciliationPause ==
    /\ ~paused /\ paused' = TRUE
    /\ overwritten' = overwritten \cup {"memory"}
    /\ UNCHANGED <<telegram, chat, bot, requests, calls, saved, faults, applied,
                   executing, repeats>>
-----------------------------------------------------------------------------
Bot == Start \/ GetUpdates \/ Skip \/ Call \/ Reply \/ Complain \/ EndBatch
Handle == \E r \in requests : Apply(r) \/ Save(r) \/ Finish(r)
Failures == GetUpdatesFails \/ CallFails \/ Timeout \/ ReplyFails \/ ComplainFails
            \/ BotRestarts \/ EngineRestarts \/ (\E r \in requests : WriteFails(r))

Next == Arrive \/ Bot \/ Handle \/ Failures \/ ReconciliationPause

\* The bot's loop and the engine's handlers run; every request ends.  Failures
\* are never required, and nothing is asked of the chat or of reconciliation.
Spec == Init /\ [][Next]_vars /\ WF_vars(Bot) /\ WF_vars(Handle)
-----------------------------------------------------------------------------
Requests ==
    [call : 1..calls, update : 1..Len(updates), at : {"apply", "save", "event"}]

\* Type invariant of the chat, the bot and the engine's handlers.
TypeOK ==
    /\ updates \in Seq(Kinds) /\ Len(updates) <= MaxUpdates
    /\ confirmed \in 0..Len(updates)
    /\ answered \subseteq DOMAIN updates
    /\ outcome \in [Updates -> {"none", "ok", "failed"}]
    /\ pc \in {"starting", "poll", "batch", "await", "reply", "complain"}
    /\ offset \in 0..Len(updates) /\ last \in 0..Len(updates)
    /\ next \in 1..(last + 1) /\ calls \in Nat
    /\ waiting \in 0..calls /\ (waiting # 0 <=> pc = "await")
    /\ requests \subseteq Requests
    /\ paused \in BOOLEAN /\ saved \in BOOLEAN /\ faults \in 0..MaxFaults
    /\ applied \in [Updates -> Nat] /\ executing \in 0..Len(updates)
    /\ repeats \in Nat /\ overwritten \subseteq {"memory", "row"}

\* One update is applied again only after a batch was given up because not even
\* the complaint could be sent, or after a start of the bot: lost polls,
\* timeouts, failed replies and restarts of the engine repeat nothing.
RepeatsOnlyAfterGivingUp == \A u \in Updates : applied[u] <= 1 + repeats

\* A command whose success the chat was told of is in memory and in the row until
\* the next command is called, each until somebody else writes it: a handler the
\* bot no longer waits for both, reconciliation the memory.  A restart loses
\* neither, and brings back what reconciliation overwrote.
SuccessLasts ==
    executing # 0 /\ outcome[executing] = "ok"
        => /\ "memory" \in overwritten \/ paused = Pauses(executing)
           /\ "row" \in overwritten \/ saved = Pauses(executing)

\* Telegram's queue is worked off in order, and no command is confirmed before
\* the chat was answered, whatever is lost or restarted.
Inbox == INSTANCE CommandInbox
ImplementsInbox == Inbox!Spec

\* Every update is confirmed at last, so that no command waits for ever.
EveryUpdateIsConfirmed ==
    \A u \in Updates : Len(updates) >= u ~> confirmed >= u
=============================================================================
