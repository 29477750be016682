--------------------------- MODULE SettingsStore ---------------------------
(***************************************************************************)
(* The RPC commands that change RuntimeSettings (engine-rs/src/rpc.rs),    *)
(* handled by one task per connection: the settings in memory behind an    *)
(* RwLock, the one row of them in SQLite, the event and the audit row.     *)
(*                                                                         *)
(* Settings are a function from fields to small numbers: a command writes  *)
(* the fields it was given, in the order the handler tests them.           *)
(***************************************************************************)
EXTENDS Integers, Sequences, FiniteSets

CONSTANTS
    Conns,                  \* connections to the socket
    Fields, Values,
    Positive,               \* the fields whose value must be > 0
    Commands,               \* [writes, autoStop]: the requests a client sends
    MaxCommands, MaxDbErrors, MaxRestarts, MaxPauses   \* bounds

Settings == {s \in [Fields -> Values] : \A f \in Positive : s[f] > 0}

\* Each parameter is an Option: a field is written at most once.  Only
\* set_auto_stop keeps the lock while it saves.
Requests == [writes : Seq(Fields \X Values), autoStop : BOOLEAN]

ASSUME FieldAssumption == "paused" \in Fields /\ Positive \subseteq Fields
ASSUME ValueAssumption == {0, 1} \subseteq Values /\ Values \subseteq Nat
ASSUME CommandAssumption == Commands \subseteq Requests

VARIABLES
    settings,       \* EngineState.settings
    saved,          \* the settings row
    readers,        \* handlers that hold the read lock across an await
    pc, request, snapshot,      \* the handlers
    commands, dbErrors, restarts, pauses,   \* what the bounds count
    owed,           \* history: handlers whose change has no audit row (yet)
    partial,        \* history: a handler bailed out after a change
    clean           \* history: no command met another, failed or was cut short

bounds == <<commands, dbErrors, restarts, pauses>>
vars   == <<settings, saved, readers, pc, request, snapshot, bounds, owed, partial,
            clean>>

NoRequest == [writes |-> <<>>, autoStop |-> FALSE]
Initially == [f \in Fields |-> 1]

Init ==
    /\ settings = Initially /\ saved = Initially /\ readers = {}
    /\ pc = [c \in Conns |-> "idle"] /\ request = [c \in Conns |-> NoRequest]
    /\ snapshot = [c \in Conns |-> Initially]
    /\ commands = 0 /\ dbErrors = 0 /\ restarts = 0 /\ pauses = 0
    /\ owed = {} /\ partial = FALSE /\ clean = TRUE

GoTo(c, step) == pc' = [pc EXCEPT ![c] = step]

Finish(c) ==
    /\ GoTo(c, "idle")
    /\ request' = [request EXCEPT ![c] = NoRequest]
    /\ snapshot' = [snapshot EXCEPT ![c] = Initially]

\* Between a change in memory and the end of the save that is to keep it.
Unsaved(c) == pc[c] \in {"lock", "save"}
Overlaps(c) == \E d \in Conns \ {c} : Unsaved(d)
-----------------------------------------------------------------------------
Receive(c, r) ==
    /\ pc[c] = "idle" /\ commands < MaxCommands
    /\ commands' = commands + 1
    /\ request' = [request EXCEPT ![c] = r]
    /\ GoTo(c, "mutate")
    /\ UNCHANGED <<settings, saved, readers, snapshot, dbErrors, restarts, pauses,
                   owed, partial, clean>>

\* A parameter that must be positive and is not.
RejectedIfNegative(write) == write[1] \in Positive /\ write[2] < 0   \* faulty variant
Rejected(write) == write[1] \in Positive /\ write[2] <= 0

\* The parameters are tested and assigned one after the other: the ones before
\* the first rejected one are in the settings when the handler bails out.
Accepted(writes) == {i \in DOMAIN writes : \A j \in 1..i : ~Rejected(writes[j])}
Assigned(writes, s) ==
    [f \in Fields |-> IF \E i \in Accepted(writes) : writes[i][1] = f
                      THEN writes[CHOOSE i \in Accepted(writes) : writes[i][1] = f][2]
                      ELSE s[f]]

\* The critical section under the write lock.
Mutate(c) ==
    LET writes == request[c].writes
        after  == Assigned(writes, settings)
        bails  == Accepted(writes) # DOMAIN writes
    IN  /\ pc[c] = "mutate" /\ readers = {}
        /\ settings' = after
        /\ IF bails THEN Finish(c)
           ELSE /\ GoTo(c, IF request[c].autoStop THEN "lock" ELSE "save")
                /\ snapshot' = [snapshot EXCEPT ![c] = after]
                /\ UNCHANGED request
        /\ owed' = IF after # settings THEN owed \cup {c} ELSE owed
        /\ partial' = (partial \/ (bails /\ after # settings))
        /\ clean' = (clean /\ ~Overlaps(c) /\ (bails => after = settings))
        /\ UNCHANGED <<saved, readers, bounds>>

\* set_auto_stop saves what it reads under a guard it holds until the row is
\* written; every other handler saves the copy it took above.
LockForSaveUnheld(c) ==                                     \* faulty variant
    /\ pc[c] = "lock"
    /\ snapshot' = [snapshot EXCEPT ![c] = settings]
    /\ GoTo(c, "save")
    /\ UNCHANGED <<settings, saved, readers, request, bounds, owed, partial, clean>>
LockForSave(c) ==
    /\ pc[c] = "lock"
    /\ readers' = readers \cup {c}
    /\ snapshot' = [snapshot EXCEPT ![c] = settings]
    /\ GoTo(c, "save")
    /\ UNCHANGED <<settings, saved, request, bounds, owed, partial, clean>>

SaveKeepsPause(c) ==                                           \* faulty variant
    /\ pc[c] = "save"
    /\ saved' = [snapshot[c] EXCEPT !["paused"] = saved["paused"]]
    /\ readers' = readers \ {c}
    /\ GoTo(c, IF request[c].autoStop THEN "audit" ELSE "event")
    /\ UNCHANGED <<settings, request, snapshot, bounds, owed, partial, clean>>
Save(c) ==
    /\ pc[c] = "save"
    /\ saved' = snapshot[c]
    /\ readers' = readers \ {c}
    /\ GoTo(c, IF request[c].autoStop THEN "audit" ELSE "event")
    /\ UNCHANGED <<settings, request, snapshot, bounds, owed, partial, clean>>

InsertEventLast(c) ==                                       \* faulty variant
    /\ pc[c] = "event"
    /\ Finish(c)
    /\ UNCHANGED <<settings, saved, readers, bounds, owed, partial, clean>>
InsertEvent(c) ==
    /\ pc[c] = "event"
    /\ GoTo(c, "audit")
    /\ UNCHANGED <<settings, saved, readers, request, snapshot, bounds, owed, partial, clean>>

\* handle_rpc_request audits what succeeded; a failed audit is only logged.
Audit(c) ==
    /\ pc[c] = "audit"
    /\ owed' = owed \ {c}
    /\ Finish(c)
    /\ UNCHANGED <<settings, saved, readers, bounds, partial, clean>>

\* A failed write before that ends the command with an error.
WriteFailsLocked(c) ==                                      \* faulty variant
    /\ pc[c] \in {"save", "event", "audit"}
    /\ dbErrors < MaxDbErrors /\ dbErrors' = dbErrors + 1
    /\ clean' = (clean /\ pc[c] # "save")
    /\ Finish(c)
    /\ UNCHANGED <<settings, saved, readers, commands, restarts, pauses, owed,
                   partial>>
WriteFails(c) ==
    /\ pc[c] \in {"save", "event", "audit"}
    /\ dbErrors < MaxDbErrors /\ dbErrors' = dbErrors + 1
    /\ readers' = readers \ {c}
    /\ clean' = (clean /\ pc[c] # "save")
    /\ Finish(c)
    /\ UNCHANGED <<settings, saved, commands, restarts, pauses, owed,
                   partial>>

\* run_reconciliation pauses trading on a critical divergence, in memory only.
CriticalPause ==
    /\ pauses < MaxPauses /\ pauses' = pauses + 1
    /\ readers = {}
    /\ settings' = [settings EXCEPT !["paused"] = 1]
    /\ clean' = (clean /\ settings["paused"] = 1)
    /\ UNCHANGED <<saved, readers, pc, request, snapshot, commands, dbErrors, restarts,
                   owed, partial>>

\* resolve_settings: the row is all a new process knows.
Restart ==
    /\ restarts < MaxRestarts /\ restarts' = restarts + 1
    /\ settings' = saved /\ readers' = {}
    /\ pc' = [c \in Conns |-> "idle"] /\ request' = [c \in Conns |-> NoRequest]
    /\ snapshot' = [c \in Conns |-> Initially]
    /\ owed' = {} /\ partial' = FALSE /\ clean' = TRUE
    /\ UNCHANGED <<saved, commands, dbErrors, pauses>>

Handle(c) == Mutate(c) \/ LockForSave(c) \/ Save(c) \/ InsertEvent(c) \/ Audit(c)

Next ==
    \/ \E c \in Conns : Handle(c) \/ WriteFails(c) \/ (\E r \in Commands : Receive(c, r))
    \/ CriticalPause \/ Restart

\* Every handler is a task of its own and the lock is fair.
Spec == Init /\ [][Next]_vars /\ \A c \in Conns : WF_vars(Handle(c))
-----------------------------------------------------------------------------
\* Type invariant of the store and of its handlers: what must be positive is,
\* in the row too.
TypeOK ==
    /\ settings \in Settings /\ saved \in Settings
    /\ readers \in SUBSET Conns
    /\ pc \in [Conns -> {"idle", "mutate", "lock", "save", "event", "audit"}]
    /\ request \in [Conns -> Requests]
    /\ snapshot \in [Conns -> Settings]
    /\ owed \in SUBSET Conns /\ partial \in BOOLEAN /\ clean \in BOOLEAN

\* What a restart would load is what the engine runs with, whenever no command
\* is under way: unless one met another between its change and its save, or
\* lost its save, or was cut short, or reconciliation paused trading.
OnlyOverlapLosesSettings ==
    clean /\ (\A c \in Conns : ~Unsaved(c)) => saved = settings

\* set_auto_stop cannot save over a newer command's settings: while it writes
\* the row nobody changes them.
AutoStopSavesCurrent ==
    [][\A c \in Conns : request[c].autoStop /\ Save(c) => saved' = settings']_vars

\* A command is answered, whoever else holds the lock and whatever write fails.
EveryCommandIsAnswered == \A c \in Conns : pc[c] # "idle" ~> pc[c] = "idle"

\* docs/SECURITY.md:8, "Every mutating control command is written to
\* command_audit", as far as it is so: a command that changed the settings is
\* not over without its audit row, unless it bailed out between two parameters,
\* a write failed or the engine restarted.
OnlyPartialsGoUnaudited ==
    dbErrors = 0 /\ ~partial => \A c \in owed : pc[c] # "idle"
=============================================================================
