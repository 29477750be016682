---------------------------- MODULE Supervision ----------------------------
(***************************************************************************)
(* Who keeps the services running: systemd by the unit files of            *)
(* ops/systemd, and the rounds of ops/watchdog/watchdog.sh over them.      *)
(*                                                                         *)
(* The bot requires the engine, and the watchdog both: systemd restarts a  *)
(* unit together with the ones that require it, so every restart the       *)
(* watchdog asks for ends its own process before it can send the alert     *)
(* that follows.  A unit that starts too often within a window of time is  *)
(* left off, and what requires it is not started either.                   *)
(***************************************************************************)
EXTENDS Integers

CONSTANTS
    EngineBurst,    \* StartLimitBurst of the engine's unit
    OtherBurst,     \* systemd's default, for the other two
    HasSqlite3,     \* sqlite3 is installed
    MaxFaults       \* bound on the environment

ASSUME BurstAssumption ==
    EngineBurst \in Nat \ {0} /\ OtherBurst \in Nat \ {0} /\ MaxFaults \in Nat
ASSUME ToolAssumption == HasSqlite3 \in BOOLEAN

VARIABLES
    state,          \* unit -> "up", "waiting" for its automatic restart, "off"
    starts,         \* unit -> starts within its window
    listening,      \* the engine's socket accepts
    beating,        \* the engine's heartbeat_loop goes on
    at, target,     \* the watchdog's place in its round, the unit it is about
                    \* to restart
    faults,         \* what the bound counts
    ailing          \* history: since the watchdog came to this place the engine
                    \* has not been healthy all the time

watchdog == <<at, target>>
vars == <<state, starts, listening, beating, watchdog, faults, ailing>>

Units == {"engine", "bot", "watchdog"}
Burst == [u \in Units |-> IF u = "engine" THEN EngineBurst ELSE OtherBurst]
Requires == [engine |-> {}, bot |-> {"engine"}, watchdog |-> {"engine", "bot"}]

Init ==
    /\ state = [u \in Units |-> "up"] /\ starts = [u \in Units |-> 1]
    /\ listening = FALSE /\ beating = TRUE /\ at = "active" /\ target = "none"
    /\ faults = 0 /\ ailing = TRUE

Fault == faults < MaxFaults /\ faults' = faults + 1

Healthy == state["engine"] = "up" /\ listening /\ beating
Remember == ailing' = (~Healthy' \/ (ailing /\ at' = at))
-----------------------------------------------------------------------------
(* systemd.                                                                *)

\* A restart of u takes the running units along that require it.
RestartedWith(u) == {u} \cup {d \in Units : u \in Requires[d] /\ state[d] # "off"}

\* Those that start again: within their limits, and all they require as well.
StartableAlways(S) == S                                     \* faulty variant
Startable(S) ==
    {u \in S : \A v \in {u} \cup Requires[u] : v \in S => starts[v] < Burst[v]}

Restart(u) ==
    LET S  == RestartedWith(u)
        up == Startable(S)
    IN  /\ state' = [v \in Units |-> IF v \in up THEN "up"
                                     ELSE IF v \in S THEN "off" ELSE state[v]]
        /\ starts' = [v \in Units |-> starts[v] + (IF v \in up THEN 1 ELSE 0)]
        /\ listening' = (listening /\ u # "engine")
        /\ beating' = (beating \/ u = "engine")
        /\ IF "watchdog" \in S THEN at' = "active" /\ target' = "none"
                               ELSE UNCHANGED watchdog

\* Restart=always, after RestartSec.
AutoRestartOthers(u) ==                                     \* faulty variant
    /\ state[u] = "waiting" /\ u # "engine"
    /\ Restart(u)
    /\ UNCHANGED faults /\ Remember
AutoRestart(u) ==
    /\ state[u] = "waiting"
    /\ Restart(u)
    /\ UNCHANGED faults /\ Remember

WindowPasses(u) ==
    /\ starts[u] > 0
    /\ starts' = [starts EXCEPT ![u] = 0]
    /\ UNCHANGED <<state, listening, beating, watchdog, faults>> /\ Remember

\* A process ends; those that require its unit run on until it restarts.
Crash(u) ==
    /\ state[u] = "up" /\ Fault
    /\ state' = [state EXCEPT ![u] = "waiting"]
    /\ listening' = (listening /\ u # "engine")
    /\ UNCHANGED <<starts, beating, watchdog>> /\ Remember
-----------------------------------------------------------------------------
(* The engine, as far as the watchdog can see it.                          *)

\* run_rpc_server binds the socket some time after the process has started, ...
Bind ==
    /\ state["engine"] = "up" /\ ~listening
    /\ listening' = TRUE
    /\ UNCHANGED <<state, starts, beating, watchdog, faults>> /\ Remember

\* ... and again after a backoff if accepting failed.
AcceptFails ==
    /\ state["engine"] = "up" /\ listening /\ Fault
    /\ listening' = FALSE
    /\ UNCHANGED <<state, starts, beating, watchdog>> /\ Remember

\* heartbeat_loop ends at its first failed write.
HeartbeatEnds ==
    /\ state["engine"] = "up" /\ beating /\ Fault
    /\ beating' = FALSE
    /\ UNCHANGED <<state, starts, listening, watchdog>> /\ Remember
-----------------------------------------------------------------------------
(* main_loop of the watchdog.                                              *)

\* heartbeat_is_fresh: without sqlite3 every heartbeat counts as fresh; with it
\* the query's parameter is never bound, no row is found, and none is.
HeartbeatIsFresh == ~HasSqlite3

Checks == [
    active    |-> [unit |-> "engine", next |-> "ping"],
    ping      |-> [unit |-> "engine", next |-> "heart"],
    heart     |-> [unit |-> "engine", next |-> "botActive"],
    botActive |-> [unit |-> "bot",    next |-> "botHeart"],
    botHeart  |-> [unit |-> "bot",    next |-> "sleep"]]

PassesReversed ==                                           \* faulty variant
    CASE at = "active"    -> state["engine"] = "up"
      [] at = "ping"      -> ~listening
      [] at = "botActive" -> state["bot"] = "up"
      [] OTHER            -> HeartbeatIsFresh
Passes ==
    CASE at = "active"    -> state["engine"] = "up"
      [] at = "ping"      -> listening
      [] at = "botActive" -> state["bot"] = "up"
      [] OTHER            -> HeartbeatIsFresh

Running == state["watchdog"] = "up"

Check ==
    /\ Running /\ at # "sleep" /\ target = "none"
    /\ IF Passes THEN at' = Checks[at].next /\ UNCHANGED target
                 ELSE target' = Checks[at].unit /\ UNCHANGED at
    /\ UNCHANGED <<state, starts, listening, beating, faults>> /\ Remember

\* restart_service: its alert would come after the end of its own process.
RestartService ==
    /\ Running /\ target # "none"
    /\ Restart(target)
    /\ UNCHANGED faults /\ Remember

Wake ==
    /\ Running /\ at = "sleep"
    /\ at' = "active"
    /\ UNCHANGED <<state, starts, listening, beating, target, faults>> /\ Remember
-----------------------------------------------------------------------------
Systemd == \E u \in Units : AutoRestart(u)
Watch == Check \/ RestartService \/ Wake

Next ==
    \/ Systemd \/ Watch \/ Bind \/ AcceptFails \/ HeartbeatEnds
    \/ \E u \in Units : Crash(u) \/ WindowPasses(u)

\* systemd restarts what it promised to, a started engine binds its socket, and
\* the watchdog's loop goes on.
Spec ==
    /\ Init /\ [][Next]_vars
    /\ \A u \in Units : WF_vars(AutoRestart(u))
    /\ WF_vars(Bind) /\ WF_vars(Watch)
-----------------------------------------------------------------------------
\* Type invariant of the units and the watchdog; no unit is started more often
\* than its limit allows.
TypeOK ==
    /\ state \in [Units -> {"up", "waiting", "off"}]
    /\ starts \in [Units -> Nat] /\ \A u \in Units : starts[u] <= Burst[u]
    /\ listening \in BOOLEAN /\ beating \in BOOLEAN
    /\ (listening => state["engine"] = "up")
    /\ at \in DOMAIN Checks \cup {"sleep"} /\ target \in {"none", "engine", "bot"}
    /\ faults \in 0..MaxFaults /\ ailing \in BOOLEAN

\* docs/ARCHITECTURE.md:49-50, "Validates heartbeat freshness" and "Restarts
\* failed services": an engine that runs, answers and reports its heartbeat all
\* through the check that judges it is not restarted.
HealthyEngineIsLeftAlone == [][starts'["engine"] > starts["engine"] => ailing]_vars

\* An engine that crashed or went deaf serves again, whoever restarts it and
\* however often that takes the watchdog along, unless its window's starts are
\* used up.
EngineServesAgain == ~listening ~> listening \/ state["engine"] = "off"
=============================================================================
