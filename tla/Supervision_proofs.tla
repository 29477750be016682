------------------------- MODULE Supervision_proofs -------------------------
(***************************************************************************)
(* Theorems about Supervision for any start limits and any number of       *)
(* failures.                                                               *)
(***************************************************************************)
EXTENDS Supervision, TLAPS

LEMMA BurstType == Burst \in [Units -> Nat \ {0}]
BY BurstAssumption DEF Burst, Units

LEMMA ChecksType ==
  /\ DOMAIN Checks = {"active", "ping", "heart", "botActive", "botHeart"}
  /\ \A c \in DOMAIN Checks :
        /\ Checks[c].unit \in {"engine", "bot"}
        /\ Checks[c].next \in DOMAIN Checks \cup {"sleep"}
BY DEF Checks

\* A restart starts a unit only within its limit, and ends the watchdog's round
\* if it takes the watchdog along.
LEMMA RestartType ==
  ASSUME TypeOK, NEW u \in Units, Restart(u)
  PROVE  /\ state' \in [Units -> {"up", "waiting", "off"}]
         /\ starts' \in [Units -> Nat] /\ \A v \in Units : starts'[v] <= Burst[v]
         /\ listening' \in BOOLEAN /\ beating' \in BOOLEAN
         /\ (listening' => state'["engine"] = "up")
         /\ at' \in DOMAIN Checks \cup {"sleep"} /\ target' \in {"none", "engine", "bot"}
<1> DEFINE S  == RestartedWith(u)
           up == Startable(S)
<1>1. state' = [v \in Units |-> IF v \in up THEN "up"
                                ELSE IF v \in S THEN "off" ELSE state[v]]
  BY DEF Restart
<1>2. starts' = [v \in Units |-> starts[v] + (IF v \in up THEN 1 ELSE 0)]
  BY DEF Restart
<1>3. \A v \in up : v \in S /\ starts[v] < Burst[v]
  BY DEF Startable
<1>4. \A v \in Units : starts[v] \in Nat /\ Burst[v] \in Nat /\ starts[v] <= Burst[v]
  BY BurstType DEF TypeOK
<1>5. state' \in [Units -> {"up", "waiting", "off"}]
  BY <1>1 DEF TypeOK
<1>6. starts' \in [Units -> Nat]
  BY <1>2, <1>4
<1>7. \A v \in Units : starts'[v] <= Burst[v]
  BY <1>2, <1>3, <1>4
<1>8. listening' \in BOOLEAN /\ beating' \in BOOLEAN
  BY DEF Restart, TypeOK
<1>9. ASSUME listening' PROVE state'["engine"] = "up"
  <2>1. listening /\ u # "engine"
    BY <1>9 DEF Restart
  <2>2. "engine" \notin S
    BY <2>1 DEF RestartedWith, Requires, Units
  <2>3. state["engine"] = "up"
    BY <2>1 DEF TypeOK
  <2>4. QED
    BY <1>1, <1>3, <2>2, <2>3 DEF Units
<1>10. at' \in DOMAIN Checks \cup {"sleep"} /\ target' \in {"none", "engine", "bot"}
  BY ChecksType DEF Restart, TypeOK, watchdog
<1>11. QED
  BY <1>5, <1>6, <1>7, <1>8, <1>9, <1>10

\* What is remembered of the engine's health is a truth value.
LEMMA RememberType == ASSUME Remember PROVE ailing' \in BOOLEAN
BY DEF Remember

\* A failure is counted up to its bound.
LEMMA FaultType == ASSUME faults \in 0..MaxFaults, Fault PROVE faults' \in 0..MaxFaults
BY BurstAssumption DEF Fault

LEMMA TypeStep == ASSUME TypeOK, [Next]_vars PROVE TypeOK'
<1> USE DEF TypeOK
<1>1. ASSUME NEW u \in Units, AutoRestart(u) PROVE TypeOK'
  BY <1>1, RestartType, RememberType DEF AutoRestart
<1>2. CASE Check
  <2>1. at \in DOMAIN Checks
    BY <1>2, ChecksType DEF Check
  <2>2. QED
    BY <1>2, <2>1, ChecksType, RememberType DEF Check
<1>3. CASE RestartService
  <2>1. target \in Units
    BY <1>3 DEF RestartService, Units
  <2>2. QED
    BY <1>3, <2>1, RestartType, RememberType DEF RestartService
<1>4. CASE Wake
  BY <1>4, ChecksType, RememberType DEF Wake
<1>5. CASE Bind
  BY <1>5, RememberType DEF Bind, watchdog
<1>6. CASE AcceptFails
  BY <1>6, RememberType, FaultType DEF AcceptFails, watchdog
<1>7. CASE HeartbeatEnds
  BY <1>7, RememberType, FaultType DEF HeartbeatEnds, watchdog
<1>8. ASSUME NEW u \in Units, Crash(u) PROVE TypeOK'
  BY <1>8, RememberType, FaultType DEF Crash, watchdog, Units
<1>9. ASSUME NEW u \in Units, WindowPasses(u) PROVE TypeOK'
  <2>1. \A v \in Units : starts[v] \in Nat /\ Burst[v] \in Nat /\ starts[v] <= Burst[v]
    BY BurstType
  <2>2. starts' = [starts EXCEPT ![u] = 0]
    BY <1>9 DEF WindowPasses
  <2>3. starts' \in [Units -> Nat]
    BY <2>2
  <2>4. \A v \in Units : starts'[v] <= Burst[v]
    BY <2>1, <2>2
  <2>5. QED
    BY <1>9, <2>3, <2>4, RememberType DEF WindowPasses, watchdog
<1>10. CASE UNCHANGED vars
  BY <1>10 DEF vars, watchdog
<1>11. QED
  BY <1>1, <1>2, <1>3, <1>4, <1>5, <1>6, <1>7, <1>8, <1>9, <1>10
     DEF Next, Systemd, Watch

\* The units and the watchdog keep their types, and no unit is started more often
\* than its limit allows within one window.
THEOREM TypeCorrect == Spec => []TypeOK
<1>1. Init => TypeOK
  <2>1. ASSUME Init PROVE \A u \in Units : starts[u] = 1 /\ 1 <= Burst[u]
    BY <2>1, BurstType DEF Init
  <2>2. ASSUME Init PROVE /\ state \in [Units -> {"up", "waiting", "off"}]
                         /\ starts \in [Units -> Nat] /\ faults \in 0..MaxFaults
    BY <2>2, BurstAssumption DEF Init
  <2>3. QED
    BY <2>1, <2>2, BurstType, ChecksType DEF Init, TypeOK
<1>2. TypeOK /\ [Next]_vars => TypeOK'
  BY TypeStep
<1>3. QED
  BY <1>1, <1>2, PTL DEF Spec
-----------------------------------------------------------------------------
\* The engine is unhealthy now or was since the watchdog came to its place, and
\* the watchdog decides to restart it for no other reason.
HealthInv ==
    /\ ~Healthy => ailing
    /\ target = "engine" => ailing
    /\ at = "sleep" => target = "none"

LEMMA HealthStep ==
  ASSUME ~HasSqlite3, TypeOK, HealthInv, Next
  PROVE  HealthInv' /\ (starts'["engine"] > starts["engine"] => ailing)
<1> USE DEF HealthInv
<1>1. ASSUME Remember PROVE ~Healthy' => ailing'
  BY <1>1 DEF Remember
<1>2. ASSUME Remember, UNCHANGED watchdog
      PROVE  /\ target' = "engine" => ailing'
             /\ at' = "sleep" => target' = "none"
  BY <1>2 DEF Remember, watchdog
<1>3. ASSUME UNCHANGED starts PROVE ~(starts'["engine"] > starts["engine"])
  BY <1>3 DEF TypeOK, Units
    \* Only a restart of the engine itself starts it.
<1>4. ASSUME NEW u \in Units, Restart(u), u # "engine"
      PROVE  ~(starts'["engine"] > starts["engine"])
  <2>1. "engine" \notin RestartedWith(u)
    BY <1>4 DEF RestartedWith, Requires, Units
  <2>2. "engine" \notin Startable(RestartedWith(u))
    BY <2>1 DEF Startable
  <2>3. QED
    BY <1>4, <2>2 DEF Restart, TypeOK, Units
<1>5. ASSUME NEW u \in Units, Restart(u), Remember
      PROVE  /\ target' = "engine" => ailing'
             /\ at' = "sleep" => target' = "none"
  BY <1>2, <1>5 DEF Restart
<1>6. ASSUME NEW u \in Units, AutoRestart(u)
      PROVE  HealthInv' /\ (starts'["engine"] > starts["engine"] => ailing)
  <2>1. u = "engine" => ailing
    BY <1>6 DEF AutoRestart, Healthy
  <2>2. QED
    BY <1>1, <1>4, <1>5, <1>6, <2>1 DEF AutoRestart
<1>7. CASE Check
  <2>1. ASSUME ~Passes, Checks[at].unit = "engine" PROVE ~Healthy
    BY <1>7, <2>1 DEF Check, Passes, Healthy, HeartbeatIsFresh, Checks, TypeOK
  <2>2. Healthy' = Healthy
    BY <1>7 DEF Check, Healthy
  <2>3. Remember
    BY <1>7 DEF Check
  <2>4. target' = "engine" => ailing'
    BY <1>7, <2>1, <2>2, <2>3 DEF Check, Remember
  <2>5. at' = "sleep" => target' = "none"
    BY <1>7 DEF Check
  <2>6. QED
    BY <1>1, <1>3, <1>7, <2>3, <2>4, <2>5 DEF Check
<1>8. CASE RestartService
  <2>1. target \in Units
    BY <1>8 DEF RestartService, TypeOK, Units
  <2>2. QED
    BY <1>1, <1>4, <1>5, <1>8, <2>1 DEF RestartService
<1>9. CASE Wake
  <2>1. target' = "none" /\ at' = "active"
    BY <1>9 DEF Wake
  <2>2. QED
    BY <1>1, <1>3, <1>9, <2>1 DEF Wake
<1>10. CASE Bind \/ AcceptFails \/ HeartbeatEnds
  BY <1>1, <1>2, <1>3, <1>10 DEF Bind, AcceptFails, HeartbeatEnds
<1>11. ASSUME NEW u \in Units, Crash(u)
       PROVE  HealthInv' /\ (starts'["engine"] > starts["engine"] => ailing)
  BY <1>1, <1>2, <1>3, <1>11 DEF Crash
<1>12. ASSUME NEW u \in Units, WindowPasses(u)
       PROVE  HealthInv' /\ (starts'["engine"] > starts["engine"] => ailing)
  <2>1. ~(starts'["engine"] > starts["engine"])
    BY <1>12 DEF WindowPasses, TypeOK, Units
  <2>2. QED
    BY <1>1, <1>2, <1>12, <2>1 DEF WindowPasses
<1>13. QED
  BY <1>6, <1>7, <1>8, <1>9, <1>10, <1>11, <1>12 DEF Next, Systemd, Watch

\* Where the heartbeats cannot be read, only an engine that was unhealthy since
\* the check began is restarted, by the watchdog or by systemd.
THEOREM HealthyLeftAlone ==
  ASSUME ~HasSqlite3
  PROVE  Spec => HealthyEngineIsLeftAlone
<1>1. Init => HealthInv
  BY DEF Init, HealthInv
<1>2. TypeOK /\ HealthInv /\ [Next]_vars => HealthInv'
  BY HealthStep DEF HealthInv, Healthy, vars, watchdog
<1>3. TypeOK /\ HealthInv /\ [Next]_vars
        => [starts'["engine"] > starts["engine"] => ailing]_vars
  BY HealthStep
<1>4. QED
  BY <1>1, <1>2, <1>3, TypeCorrect, PTL DEF Spec, HealthyEngineIsLeftAlone
-----------------------------------------------------------------------------
(* Units left off.                                                         *)

\* What requires a unit that was left off is off as well.
OffInv == \A u, v \in Units : v \in Requires[u] /\ state[v] = "off" => state[u] = "off"

\* A unit is left off only if its own starts or those of one it requires are used up,
\* and then for good: who could restart it is off, too.
OffForGood ==
    [][\A u \in Units :
        /\ state[u] = "off" => state'[u] = "off"
        /\ state[u] # "off" /\ state'[u] = "off" =>
              \E v \in {u} \cup Requires[u] : starts[v] = Burst[v]]_vars

LEMMA RequiresType ==
  /\ \A u \in Units : Requires[u] \subseteq Units
  /\ \A u, v, w \in Units : u \in Requires[v] /\ v \in Requires[w] => u \in Requires[w]
BY DEF Requires, Units

LEMMA OffByRestart ==
  ASSUME TypeOK, OffInv, NEW u \in Units, state[u] # "off", Restart(u)
  PROVE  /\ OffInv'
         /\ \A w \in Units : state[w] = "off" => state'[w] = "off"
         /\ \A w \in Units : state[w] # "off" /\ state'[w] = "off" =>
                \E v \in {w} \cup Requires[w] : starts[v] = Burst[v]
<1> DEFINE S  == RestartedWith(u)
           up == Startable(S)
<1>1. \A w \in Units : state'[w] = IF w \in up THEN "up" ELSE IF w \in S THEN "off"
                                   ELSE state[w]
  BY DEF Restart
<1>2. up \subseteq S /\ \A w \in S : state[w] # "off"
  BY DEF Startable, RestartedWith
<1>3. \A w \in S \ up : \E v \in {w} \cup Requires[w] : v \in S /\ ~(starts[v] < Burst[v])
  BY DEF Startable
<1>4. \A w \in Units : state[w] = "off" => state'[w] = "off"
  BY <1>1, <1>2
<1>5. ASSUME NEW w \in Units, state[w] # "off", state'[w] = "off"
      PROVE  \E v \in {w} \cup Requires[w] : starts[v] = Burst[v]
  <2>1. w \in S \ up
    BY <1>1, <1>5
  <2>2. PICK v \in {w} \cup Requires[w] : ~(starts[v] < Burst[v])
    BY <1>3, <2>1
  <2>3. v \in Units
    BY RequiresType
  <2>4. starts[v] \in Nat /\ Burst[v] \in Nat /\ starts[v] <= Burst[v]
    BY <2>3, BurstType DEF TypeOK
  <2>5. QED
    BY <2>2, <2>4
<1>6. ASSUME NEW w \in Units, NEW v \in Requires[w], v \in Units, state'[v] = "off"
      PROVE  state'[w] = "off"
  <2>1. CASE v \notin S
    <3>1. state[v] = "off" /\ state[w] = "off"
      BY <1>1, <1>2, <1>6, <2>1 DEF OffInv
    <3>2. QED
      BY <1>4, <3>1
  <2>2. CASE v \in S
    <3>1. v \in S \ up
      BY <1>1, <1>6, <2>2
    <3>2. u \in Requires[w]
      BY <1>6, <2>2, RequiresType DEF RestartedWith
    <3>3. CASE state[w] = "off"
      BY <1>4, <3>3
    <3>4. CASE state[w] # "off"
      <4>1. w \in S
        BY <3>2, <3>4 DEF RestartedWith
      <4>2. PICK x \in {v} \cup Requires[v] : x \in S /\ ~(starts[x] < Burst[x])
        BY <1>3, <3>1
      <4>3. x \in Requires[w]
        BY <1>6, <4>2, RequiresType
      <4>4. w \notin up
        BY <4>2, <4>3 DEF Startable
      <4>5. QED
        BY <1>1, <4>1, <4>4
    <3>5. QED
      BY <3>3, <3>4
  <2>3. QED
    BY <2>1, <2>2
<1>7. OffInv'
  BY <1>6 DEF OffInv
<1>8. QED
  BY <1>4, <1>5, <1>7

LEMMA OffStep ==
  ASSUME TypeOK, OffInv, [Next]_vars
  PROVE  /\ OffInv'
         /\ \A w \in Units : state[w] = "off" => state'[w] = "off"
         /\ \A w \in Units : state[w] # "off" /\ state'[w] = "off" =>
                \E v \in {w} \cup Requires[w] : starts[v] = Burst[v]
<1>1. ASSUME NEW u \in Units, AutoRestart(u)
      PROVE  state[u] # "off" /\ Restart(u)
  BY <1>1 DEF AutoRestart
    \* A watchdog that runs has both of its services.
<1>2. ASSUME RestartService
      PROVE  target \in Units /\ state[target] # "off" /\ Restart(target)
  <2>1. target \in {"engine", "bot"} /\ state["watchdog"] # "off"
    BY <1>2 DEF RestartService, Running, TypeOK
  <2>2. \A v \in {"engine", "bot"} : v \in Units /\ v \in Requires["watchdog"]
    BY DEF Requires, Units
  <2>3. QED
    BY <1>2, <2>1, <2>2 DEF RestartService, OffInv, Units
<1>3. ASSUME NEW u \in Units, Crash(u)
      PROVE  \A w \in Units : state'[w] = "off" <=> state[w] = "off"
  BY <1>3 DEF Crash, TypeOK
<1>4. CASE Check \/ Wake \/ Bind \/ AcceptFails \/ HeartbeatEnds
           \/ (\E u \in Units : WindowPasses(u)) \/ UNCHANGED vars
  <2>1. state' = state
    BY <1>4 DEF Check, Wake, Bind, AcceptFails, HeartbeatEnds, WindowPasses, vars
  <2>2. QED
    BY <2>1 DEF OffInv
<1>5. CASE \E u \in Units : Crash(u)
  BY <1>3, <1>5 DEF OffInv
<1>6. CASE Systemd \/ RestartService
  BY <1>1, <1>2, <1>6, OffByRestart DEF Systemd
<1>7. QED
  BY <1>4, <1>5, <1>6 DEF Next, Watch

\* The exception of EngineServesAgain is final: a unit whose restart met a start limit
\* stays off with all that require it, the watchdog among them.
THEOREM LeftOffForGood == Spec => OffForGood
<1>1. Init => OffInv
  BY RequiresType DEF Init, OffInv
<1>2. TypeOK /\ OffInv /\ [Next]_vars => OffInv'
  BY OffStep
<1>3. TypeOK /\ OffInv /\ [Next]_vars
      => [\A u \in Units :
            /\ state[u] = "off" => state'[u] = "off"
            /\ state[u] # "off" /\ state'[u] = "off" =>
                  \E v \in {u} \cup Requires[u] : starts[v] = Burst[v]]_vars
  BY OffStep
<1>4. QED
  BY <1>1, <1>2, <1>3, TypeCorrect, PTL DEF Spec, OffForGood
=============================================================================
