--------------------------- MODULE WalletRotation ---------------------------
(***************************************************************************)
(* The tracked wallets and the rotation suggestions: rotation_loop         *)
(* (main.rs) proposes a wallet, an operator approves or rejects it, or     *)
(* adds and removes wallets by hand (rpc.rs), each RPC in a task of its    *)
(* own; the allowlist and the suggestions are also rows of SQLite.         *)
(*                                                                         *)
(* Every await is a step.  Scores are small integers; wallets are ordered, *)
(* because a BTreeSet iterates in order and the first of equals is taken.  *)
(***************************************************************************)
EXTENDS Integers, FiniteSets, FiniteSetsExt, TLC

CONSTANTS
    Wallets,                \* numbers > 0: the order of the addresses
    ScoreTables,            \* what fetch_wallet_candidates may answer, scored
    MaxActiveWallets,
    ConfidenceFloor, RankDelta, Cooldown,   \* config.rotation_*
    Conns,                  \* handlers of RPC connections
    MaxSuggestions, MaxCommands, MaxTime, MaxDbErrors, MaxRestarts    \* bounds

IsTable(t) == DOMAIN t \subseteq Wallets /\ t \in [DOMAIN t -> Nat]
Ids == 1..MaxSuggestions

ASSUME WalletAssumption ==
    Wallets \subseteq Nat \ {0} /\ \A t \in ScoreTables : IsTable(t)
ASSUME RotationAssumption ==
    /\ MaxActiveWallets \in Nat \ {0} /\ Cooldown \in Nat \ {0}
    /\ MaxSuggestions \in Nat /\ ConfidenceFloor \in Nat /\ RankDelta \in Nat

NoTime == -1
NoWallet == 0
None == 0               \* no suggestion
NoScores == [w \in {} |-> 0]

VARIABLES
    \* EngineState
    tracked, pending, lastRotation,
    \* SQLite
    allowlist, scores, status, walletOf,
    \* rotation_loop: its place, the time and the scores of its tick, the
    \* suggestion it made
    loop, tickAt, table, proposed,
    \* the handlers; seen is tracked_before
    pc, target, victim, suggestion, seen,
    now,
    commands, dbErrors, restarts,       \* what the bounds count
    takenBy, lastCreated,
    clean           \* history: no command met another, none lost its write

memory   == <<tracked, pending, lastRotation>>
database == <<allowlist, scores, status, walletOf>>
rotation == <<loop, tickAt, table, proposed>>
handlers == <<pc, target, victim, suggestion, seen>>
bounds   == <<commands, dbErrors, restarts>>
history  == <<takenBy, lastCreated, clean>>
vars     == <<memory, database, rotation, handlers, now, bounds, history>>

NoProposal == [id |-> None, wallet |-> NoWallet]

All(x) == [c \in Conns |-> x]

Init ==
    /\ tracked = {} /\ pending = {} /\ lastRotation = NoTime
    /\ allowlist = {} /\ scores = NoScores
    /\ status = [i \in Ids |-> "none"] /\ walletOf = [i \in Ids |-> NoWallet]
    /\ loop = "idle" /\ tickAt = NoTime /\ table = NoScores /\ proposed = NoProposal
    /\ pc = All("idle") /\ target = All(NoWallet) /\ victim = All(NoWallet)
    /\ suggestion = All(None) /\ seen = All({})
    /\ now = 0
    /\ commands = 0 /\ dbErrors = 0 /\ restarts = 0
    /\ takenBy = [i \in Ids |-> {}] /\ lastCreated = NoTime /\ clean = TRUE
-----------------------------------------------------------------------------
(* rotation_loop.                                                          *)

FreshIds == {i \in Ids : status[i] = "none"}

\* A wallet without a score counts 0.
ScoreIn(t, w) == IF w \in DOMAIN t THEN t[w] ELSE 0

\* upsert_wallet_scores: a row per wallet, old rows stay.
Upserted(t, rows) ==
    [w \in DOMAIN t \cup DOMAIN rows |-> IF w \in DOMAIN t THEN t[w] ELSE rows[w]]

\* A tick with candidates.
Score(t) ==
    /\ loop = "idle" /\ FreshIds # {}
    /\ t # NoScores
    /\ tickAt' = now /\ table' = t
    /\ scores' = Upserted(t, scores)
    /\ loop' = "decide"
    /\ UNCHANGED <<memory, allowlist, status, walletOf, proposed, handlers, now, bounds,
                   history>>

\* The highest-scored candidates that are not tracked and good enough; the sort
\* leaves equals in the order of a hash map.
Candidates ==
    LET open == {w \in DOMAIN table \ tracked : table[w] >= ConfidenceFloor}
    IN  {w \in open : \A v \in open : table[v] <= table[w]}

\* A difference of times below 0 is taken for 0.
CoolingDown == lastRotation # NoTime /\ Max({tickAt - lastRotation, 0}) < Cooldown

\* A gain over the worst tracked wallet is a gain over some.
HasRoomOrGain(w) ==
    \/ Cardinality(tracked) < MaxActiveWallets
    \/ \E v \in tracked : table[w] - ScoreIn(table, v) >= RankDelta

\* maybe_create_rotation_suggestion
SuggestsWhilePending(w) == ~CoolingDown /\ w \in Candidates /\ HasRoomOrGain(w) \* faulty variant
Suggests(w) == pending = {} /\ ~CoolingDown /\ w \in Candidates /\ HasRoomOrGain(w)

Propose(w) ==
    /\ loop = "decide"
    /\ Suggests(w)
    /\ proposed' = [id |-> Min(FreshIds), wallet |-> w]
    /\ loop' = "save"
    /\ UNCHANGED <<memory, database, tickAt, table, handlers, now, bounds, history>>

ProposeNothing ==
    /\ loop = "decide"
    /\ \A w \in Wallets : ~Suggests(w)
    /\ loop' = "idle" /\ tickAt' = NoTime /\ table' = NoScores
    /\ UNCHANGED <<memory, database, proposed, handlers, now, bounds, history>>

SaveSuggestion ==
    /\ loop = "save"
    /\ status' = [status EXCEPT ![proposed.id] = "pending"]
    /\ walletOf' = [walletOf EXCEPT ![proposed.id] = proposed.wallet]
    /\ loop' = "insert"
    /\ UNCHANGED <<memory, allowlist, scores, tickAt, table, proposed, handlers, now,
                   bounds, history>>

InsertWithoutCooldown ==                                    \* faulty variant
    /\ loop = "insert"
    /\ pending' = pending \cup {proposed.id}
    /\ lastCreated' = tickAt
    /\ loop' = "idle" /\ tickAt' = NoTime /\ table' = NoScores /\ proposed' = NoProposal
    /\ UNCHANGED <<tracked, lastRotation, database, handlers, now, bounds, takenBy, clean>>
InsertSuggestion ==
    /\ loop = "insert"
    /\ pending' = pending \cup {proposed.id}
    /\ lastRotation' = tickAt /\ lastCreated' = tickAt
    /\ loop' = "idle" /\ tickAt' = NoTime /\ table' = NoScores /\ proposed' = NoProposal
    /\ UNCHANGED <<tracked, database, handlers, now, bounds, takenBy, clean>>

\* Any failed write (the scores, the suggestion, its event) returns from
\* rotation_loop, and nothing starts it again.
RotationDies ==
    /\ loop \in {"idle", "save"}
    /\ dbErrors < MaxDbErrors /\ dbErrors' = dbErrors + 1
    /\ loop' = "dead" /\ tickAt' = NoTime /\ table' = NoScores /\ proposed' = NoProposal
    /\ UNCHANGED <<memory, database, handlers, now, commands, restarts, history>>
-----------------------------------------------------------------------------
(* RPC handlers.                                                           *)

GoTo(c, step) == pc' = [pc EXCEPT ![c] = step]
FinishKeepsVictim(c) ==                                     \* faulty variant
    /\ GoTo(c, "idle")
    /\ target' = [target EXCEPT ![c] = NoWallet]
    /\ suggestion' = [suggestion EXCEPT ![c] = None]
    /\ seen' = [seen EXCEPT ![c] = {}] /\ UNCHANGED victim
Finish(c) ==
    /\ GoTo(c, "idle")
    /\ target' = [target EXCEPT ![c] = NoWallet]
    /\ victim' = [victim EXCEPT ![c] = NoWallet]
    /\ suggestion' = [suggestion EXCEPT ![c] = None]
    /\ seen' = [seen EXCEPT ![c] = {}]

Command(c) ==
    /\ pc[c] = "idle"
    /\ commands < MaxCommands /\ commands' = commands + 1
    /\ clean' = (clean /\ \A d \in Conns : pc[d] = "idle")
    /\ UNCHANGED <<lastRotation, database, rotation, victim, seen, now, dbErrors,
                   restarts, lastCreated>>

\* add_wallet, remove_wallet: memory first, then the row.  Without a change the
\* command only reports.
AddWallet(c, w) ==
    /\ Command(c)
    /\ Cardinality(tracked) < MaxActiveWallets /\ w \notin tracked
    /\ tracked' = tracked \cup {w}
    /\ target' = [target EXCEPT ![c] = w]
    /\ GoTo(c, "addRow") /\ UNCHANGED <<pending, suggestion, takenBy>>

RemoveWallet(c, w) ==
    /\ Command(c)
    /\ w \in tracked
    /\ tracked' = tracked \ {w}
    /\ target' = [target EXCEPT ![c] = w]
    /\ GoTo(c, "dropRow") /\ UNCHANGED <<pending, suggestion, takenBy>>

\* ack_suggestion and reject_suggestion take the suggestion out of memory in
\* the critical section that looks it up.
TakeCopy(c, i, step) ==                                     \* faulty variant
    /\ Command(c) /\ i \in pending
    /\ suggestion' = [suggestion EXCEPT ![c] = i]
    /\ target' = [target EXCEPT ![c] = walletOf[i]]
    /\ takenBy' = [takenBy EXCEPT ![i] = @ \cup {c}]
    /\ GoTo(c, step) /\ UNCHANGED <<tracked, pending>>
Take(c, i, step) ==
    /\ Command(c) /\ i \in pending
    /\ pending' = pending \ {i}
    /\ suggestion' = [suggestion EXCEPT ![c] = i]
    /\ target' = [target EXCEPT ![c] = walletOf[i]]
    /\ takenBy' = [takenBy EXCEPT ![i] = @ \cup {c}]
    /\ GoTo(c, step) /\ UNCHANGED tracked

Ack(c, i)    == Take(c, i, "look")
Reject(c, i) == Take(c, i, "rejectRow")

\* approve_suggestion_and_update_wallets: what it reads here decides whether a
\* wallet has to go; each later step takes the lock anew.
LookNeverFull(c) ==                                         \* faulty variant
    /\ pc[c] = "look"
    /\ GoTo(c, "track")
    /\ UNCHANGED <<memory, database, rotation, target, victim, suggestion, seen, now,
                   bounds, history>>
Look(c) ==
    /\ pc[c] = "look"
    /\ IF Cardinality(tracked) < MaxActiveWallets
       THEN GoTo(c, "track") /\ UNCHANGED seen
       ELSE GoTo(c, "choose") /\ seen' = [seen EXCEPT ![c] = tracked]
    /\ UNCHANGED <<memory, database, rotation, target, victim, suggestion, now, bounds,
                   history>>

\* min_by keeps the first of equals; a failed read of the scores gives none.
Weakest(t, set) == Min({w \in set : \A v \in set : ScoreIn(t, w) <= ScoreIn(t, v)})

Choose(c) ==
    /\ pc[c] = "choose"
    /\ \E t \in {scores, NoScores} :
           victim' = [victim EXCEPT ![c] = Weakest(t, seen[c])]
    /\ GoTo(c, "evict")
    /\ UNCHANGED <<memory, database, rotation, target, suggestion, seen, now, bounds,
                   history>>

Evict(c) ==
    /\ pc[c] = "evict"
    /\ tracked' = tracked \ {victim[c]}
    /\ GoTo(c, "track")
    /\ UNCHANGED <<pending, lastRotation, database, rotation, target, victim,
                   suggestion, seen, now, bounds, history>>

Track(c) ==
    /\ pc[c] = "track"
    /\ tracked' = tracked \cup {target[c]}
    /\ GoTo(c, IF victim[c] = NoWallet THEN "addRow" ELSE "evictRow")
    /\ UNCHANGED <<pending, lastRotation, database, rotation, target, victim,
                   suggestion, seen, now, bounds, history>>

\* set_wallet_active, for the victim and for the target.
EvictRow(c) ==
    /\ pc[c] = "evictRow"
    /\ allowlist' = allowlist \ {victim[c]}
    /\ GoTo(c, "addRow")
    /\ UNCHANGED <<memory, scores, status, walletOf, rotation, target, victim,
                   suggestion, seen, now, bounds, history>>

AddRow(c) ==
    /\ pc[c] = "addRow"
    /\ allowlist' = allowlist \cup {target[c]}
    /\ IF suggestion[c] = None THEN Finish(c)
       ELSE GoTo(c, "approveRow") /\ UNCHANGED <<target, victim, suggestion, seen>>
    /\ UNCHANGED <<memory, scores, status, walletOf, rotation, now, bounds, history>>

DropNoRow(c) ==                                             \* faulty variant
    /\ pc[c] = "dropRow"
    /\ Finish(c)
    /\ UNCHANGED <<memory, database, rotation, now, bounds, history>>
DropRow(c) ==
    /\ pc[c] = "dropRow"
    /\ allowlist' = allowlist \ {target[c]}
    /\ Finish(c)
    /\ UNCHANGED <<memory, scores, status, walletOf, rotation, now, bounds, history>>

\* set_rotation_suggestion_status
Decide(c, step, decision) ==
    /\ pc[c] = step
    /\ status' = [status EXCEPT ![suggestion[c]] = decision]
    /\ UNCHANGED <<memory, allowlist, scores, walletOf, rotation, now, bounds, history>>

ApproveRow(c) ==
    /\ Decide(c, "approveRow", "approved")
    /\ GoTo(c, "stamp") /\ UNCHANGED <<target, victim, suggestion, seen>>

RejectRow(c) == Decide(c, "rejectRow", "rejected") /\ Finish(c)

Stamp(c) ==
    /\ pc[c] = "stamp"
    /\ lastRotation' = now
    /\ Finish(c)
    /\ UNCHANGED <<tracked, pending, database, rotation, now, bounds, history>>

\* A failed write ends the command with an error; the memory stays changed.
WriteFails(c) ==
    /\ pc[c] \in {"evictRow", "addRow", "dropRow", "approveRow", "rejectRow"}
    /\ dbErrors < MaxDbErrors /\ dbErrors' = dbErrors + 1
    /\ clean' = FALSE
    /\ Finish(c)
    /\ UNCHANGED <<memory, database, rotation, now, commands, restarts, takenBy,
                   lastCreated>>
-----------------------------------------------------------------------------
Tick ==
    /\ now < MaxTime /\ now' = now + 1
    /\ UNCHANGED <<memory, database, rotation, handlers, bounds, history>>

\* A new process loads the rows; the time of the last rotation is not one.
Restart ==
    /\ restarts < MaxRestarts /\ restarts' = restarts + 1
    /\ tracked' = allowlist
    /\ pending' = {i \in Ids : status[i] = "pending"}
    /\ lastRotation' = NoTime /\ lastCreated' = NoTime
    /\ loop' = "idle" /\ tickAt' = NoTime /\ table' = NoScores /\ proposed' = NoProposal
    /\ pc' = All("idle") /\ target' = All(NoWallet) /\ victim' = All(NoWallet)
    /\ suggestion' = All(None) /\ seen' = All({})
    /\ takenBy' = [i \in Ids |-> {}]
    /\ UNCHANGED <<database, now, commands, dbErrors, clean>>

Rotate ==
    \/ \E t \in ScoreTables : Score(t)
    \/ \E w \in Wallets : Propose(w)
    \/ ProposeNothing \/ SaveSuggestion \/ InsertSuggestion \/ RotationDies

Handle(c) ==
    \/ Look(c) \/ Choose(c) \/ Evict(c) \/ Track(c) \/ EvictRow(c) \/ AddRow(c)
    \/ DropRow(c) \/ ApproveRow(c) \/ Stamp(c) \/ RejectRow(c)

Next ==
    \/ Rotate \/ Tick \/ Restart
    \/ \E c \in Conns :
           \/ Handle(c) \/ WriteFails(c)
           \/ \E w \in Wallets : AddWallet(c, w) \/ RemoveWallet(c, w)
           \/ \E i \in Ids : Ack(c, i) \/ Reject(c, i)

Spec == Init /\ [][Next]_vars
-----------------------------------------------------------------------------
\* Type invariant of the wallets, the suggestions, their rows and the handlers.
TypeOK ==
    /\ tracked \in SUBSET Wallets /\ pending \in SUBSET Ids
    /\ lastRotation \in Nat \cup {NoTime} /\ lastCreated \in Nat \cup {NoTime}
    /\ allowlist \in SUBSET Wallets /\ IsTable(scores)
    /\ status \in [Ids -> {"none", "pending", "approved", "rejected"}]
    /\ walletOf \in [Ids -> Wallets \cup {NoWallet}]
    /\ loop \in {"idle", "decide", "save", "insert", "dead"}
    /\ tickAt \in Nat \cup {NoTime} /\ IsTable(table)
    /\ proposed \in [id : Ids \cup {None}, wallet : Wallets \cup {NoWallet}]
    /\ target \in [Conns -> Wallets \cup {NoWallet}]
    /\ \A c \in Conns : victim[c] \in {NoWallet} \cup seen[c]
    /\ seen \in [Conns -> SUBSET Wallets]
    /\ suggestion \in [Conns -> Ids \cup {None}]
    /\ takenBy \in [Ids -> SUBSET Conns] /\ clean \in BOOLEAN

\* A suggestion is decided by one command, whatever other connections ask for
\* at the same time, and the time between its row and its insertion included.
DecidedOnce == \A i \in Ids : Cardinality(takenBy[i]) <= 1

\* The loop makes a suggestion pending only while none is, although it awaits
\* a database write between its test and the insertion.
OnePendingAtATime ==
    [][pending' \subseteq pending \/ pending = {} \/ restarts' # restarts]_vars

\* Two suggestions of one process are at least a cooldown apart, however fast
\* the first one is decided, and although an approval may overwrite the time of
\* the last rotation or be overwritten by a tick that began before it.
SuggestionsAreSpaced ==
    [][lastCreated # NoTime /\ ~(pending' \subseteq pending) /\ restarts' = restarts
           => lastCreated' - lastCreated >= Cooldown]_vars

\* Between commands the allowlist rows are the wallets in memory, so that a
\* restart tracks the same wallets, unless two commands ever overlapped or a
\* write failed.
OnlyOverlapSplitsWallets ==
    clean /\ (\A c \in Conns : pc[c] = "idle") => allowlist = tracked

\* No more wallets are tracked than MAX_ACTIVE_WALLETS, in the middle of an
\* approval too, unless commands overlapped or lost a write: an approval and an
\* add_wallet that saw the same room exceed it for good, and a restart loads
\* whatever rows there are.
OnlyOverlapExceedsLimit == clean => Cardinality(tracked) <= MaxActiveWallets
=============================================================================
