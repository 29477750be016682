------------------------ MODULE SettingsStore_proofs ------------------------
(***************************************************************************)
(* Theorems about SettingsStore for any number of connections, any fields  *)
(* and commands, and all bounds.                                           *)
(***************************************************************************)
EXTENDS SettingsStore, TLAPS

Working == {"lock", "save", "event", "audit"}

\* What handler c leaves alone.
Others(c) == \A d \in Conns \ {c} :
    pc'[d] = pc[d] /\ request'[d] = request[d] /\ snapshot'[d] = snapshot[d]

-----------------------------------------------------------------------------
(* Type correctness: what must be positive stays so.                       *)

LEMMA InitiallyType == Initially \in Settings
BY FieldAssumption, ValueAssumption DEF Initially, Settings

LEMMA NoRequestType == NoRequest \in Requests
BY DEF NoRequest, Requests

LEMMA AssignedType ==
  ASSUME NEW writes \in Seq(Fields \X Values), NEW s \in Settings
  PROVE  Assigned(writes, s) \in Settings
<1> DEFINE given(f) == CHOOSE i \in Accepted(writes) : writes[i][1] = f
           value(f) == IF \E i \in Accepted(writes) : writes[i][1] = f
                       THEN writes[given(f)][2] ELSE s[f]
<1>1. ASSUME NEW f \in Fields PROVE value(f) \in Values /\ (f \in Positive => value(f) > 0)
  <2>1. CASE \E i \in Accepted(writes) : writes[i][1] = f
    <3>1. /\ given(f) \in Accepted(writes) /\ writes[given(f)][1] = f
          /\ value(f) = writes[given(f)][2]
      BY <2>1
    <3> HIDE DEF given, value
    <3>2. given(f) \in DOMAIN writes /\ given(f) \in 1..given(f)
          /\ ~Rejected(writes[given(f)])
      BY <3>1 DEF Accepted
    <3>3. writes[given(f)] \in Fields \X Values
      BY <3>2
    <3>4. value(f) \in Values /\ value(f) \in Nat
      BY <3>1, <3>3, ValueAssumption
    <3>5. QED
      BY <3>1, <3>2, <3>4 DEF Rejected
  <2>2. CASE ~\E i \in Accepted(writes) : writes[i][1] = f
    BY <2>2 DEF Settings
  <2>3. QED
    BY <2>1, <2>2
<1>2. Assigned(writes, s) = [f \in Fields |-> value(f)]
  BY DEF Assigned
<1> HIDE DEF value
<1>3. QED
  BY <1>1, <1>2, FieldAssumption DEF Settings

LEMMA FinishType ==
  ASSUME TypeOK, NEW c \in Conns, Finish(c)
  PROVE  /\ pc' \in [Conns -> {"idle", "mutate", "lock", "save", "event", "audit"}]
         /\ request' \in [Conns -> Requests] /\ snapshot' \in [Conns -> Settings]
         /\ pc'[c] = "idle" /\ Others(c)
BY InitiallyType, NoRequestType DEF Finish, GoTo, TypeOK, Others

LEMMA GoToType ==
  ASSUME TypeOK, NEW c \in Conns, NEW step \in Working \cup {"mutate"}, GoTo(c, step)
  PROVE  /\ pc' \in [Conns -> {"idle", "mutate", "lock", "save", "event", "audit"}]
         /\ pc'[c] = step /\ \A d \in Conns \ {c} : pc'[d] = pc[d]
BY DEF GoTo, TypeOK, Working

LEMMA MutateType ==
  ASSUME TypeOK, NEW c \in Conns, Mutate(c)
  PROVE  /\ TypeOK' /\ Others(c)
         /\ pc'[c] \in {"idle", "lock", "save"}
         /\ pc'[c] # "idle" => snapshot'[c] = settings' /\ request' = request
         /\ pc'[c] = "save" => ~request[c].autoStop
<1> DEFINE after == Assigned(request[c].writes, settings)
           bails == Accepted(request[c].writes) # DOMAIN request[c].writes
<1>1. after \in Settings
  <2>1. request[c].writes \in Seq(Fields \X Values) /\ settings \in Settings
    BY DEF TypeOK, Requests
  <2>2. QED
    BY <2>1, AssignedType
<1>2. settings' = after /\ pc[c] = "mutate"
  BY DEF Mutate
<1>3. /\ owed' \in SUBSET Conns /\ partial' \in BOOLEAN /\ clean' \in BOOLEAN
      /\ saved' = saved /\ readers' = readers
  BY DEF Mutate, TypeOK
<1>4. CASE bails
  <2>1. Finish(c)
    BY <1>4 DEF Mutate
  <2>2. QED
    BY <1>1, <1>2, <1>3, <2>1, FinishType DEF TypeOK
<1>5. CASE ~bails
  <2>1. /\ GoTo(c, IF request[c].autoStop THEN "lock" ELSE "save")
        /\ snapshot' = [snapshot EXCEPT ![c] = after] /\ request' = request
    BY <1>5 DEF Mutate
  <2> HIDE DEF after, bails
  <2>2. snapshot' \in [Conns -> Settings] /\ snapshot'[c] = after
        /\ \A d \in Conns \ {c} : snapshot'[d] = snapshot[d]
    BY <1>1, <2>1 DEF TypeOK
  <2>3. QED
    BY <1>1, <1>2, <1>3, <2>1, <2>2, GoToType DEF TypeOK, Others, Working
<1>6. QED
  BY <1>4, <1>5

\* The handler's other steps: what they do to the handlers and to the lock.
LEMMA HandlerType ==
  ASSUME TypeOK, NEW c \in Conns,
         LockForSave(c) \/ Save(c) \/ InsertEvent(c) \/ Audit(c) \/ WriteFails(c)
         \/ \E r \in Commands : Receive(c, r)
  PROVE  TypeOK' /\ Others(c) /\ settings' = settings
<1>1. CASE \E r \in Commands : Receive(c, r)
  <2>1. PICK r \in Commands : Receive(c, r)
    BY <1>1
  <2>2. request' = [request EXCEPT ![c] = r] /\ r \in Requests
    BY <2>1, CommandAssumption DEF Receive
  <2>3. QED
    BY <2>1, <2>2, GoToType DEF Receive, TypeOK, Others
<1>2. CASE LockForSave(c)
  <2>1. snapshot' = [snapshot EXCEPT ![c] = settings]
    BY <1>2 DEF LockForSave
  <2>2. QED
    BY <1>2, <2>1, GoToType DEF LockForSave, TypeOK, Others, Working
<1>3. CASE Save(c)
  <2>1. saved' = snapshot[c] /\ saved' \in Settings
    BY <1>3 DEF Save, TypeOK
  <2>2. QED
    BY <1>3, <2>1, GoToType DEF Save, TypeOK, Others, Working
<1>4. CASE InsertEvent(c)
  BY <1>4, GoToType DEF InsertEvent, TypeOK, Others, Working
<1>5. CASE Audit(c)
  BY <1>5, FinishType DEF Audit, TypeOK
<1>6. CASE WriteFails(c)
  BY <1>6, FinishType DEF WriteFails, TypeOK
<1>7. QED
  BY <1>1, <1>2, <1>3, <1>4, <1>5, <1>6

LEMMA TypeStep == TypeOK /\ [Next]_vars => TypeOK'
<1> SUFFICES ASSUME TypeOK, [Next]_vars PROVE TypeOK'
  OBVIOUS
<1>1. CASE CriticalPause
  <2>1. [settings EXCEPT !["paused"] = 1] \in Settings
    BY FieldAssumption, ValueAssumption DEF TypeOK, Settings
  <2>2. QED
    BY <1>1, <2>1 DEF CriticalPause, TypeOK
<1>2. CASE Restart
  BY <1>2, InitiallyType, NoRequestType DEF Restart, TypeOK
<1>3. CASE UNCHANGED vars
  BY <1>3 DEF vars, TypeOK
<1>4. QED
  BY <1>1, <1>2, <1>3, MutateType, HandlerType DEF Next, Handle

\* No command, failed write, pause or restart puts a value into memory, the row
\* or a handler's copy that its command would refuse.
THEOREM TypeCorrect == Spec => []TypeOK
<1>1. Init => TypeOK
  BY InitiallyType, NoRequestType DEF Init, TypeOK
<1>2. QED
  BY <1>1, TypeStep, PTL DEF Spec
-----------------------------------------------------------------------------
(* set_auto_stop and the lock.                                             *)

\* A handler of set_auto_stop that writes the row holds the lock, and what it
\* writes is what everybody reads.
LockInv == \A c \in Conns :
    request[c].autoStop /\ pc[c] = "save" => c \in readers /\ snapshot[c] = settings

LEMMA LockInvStep == TypeOK /\ LockInv /\ [Next]_vars => LockInv'
<1> SUFFICES ASSUME TypeOK, LockInv, [Next]_vars PROVE LockInv'
  OBVIOUS
<1>1. ASSUME NEW c \in Conns, Mutate(c) PROVE LockInv'
  <2>1. readers = {}
    BY <1>1 DEF Mutate
  <2>2. \A d \in Conns \ {c} : ~(request'[d].autoStop /\ pc'[d] = "save")
    BY <1>1, <2>1, MutateType DEF LockInv, Others
  <2>3. ~(request'[c].autoStop /\ pc'[c] = "save")
    BY <1>1, MutateType
  <2>4. QED
    BY <2>2, <2>3 DEF LockInv
<1>2. ASSUME NEW c \in Conns, LockForSave(c) PROVE LockInv'
  <2>1. /\ Others(c) /\ settings' = settings /\ readers' = readers \cup {c}
        /\ snapshot'[c] = settings
    BY <1>2, HandlerType DEF LockForSave, TypeOK
  <2>2. QED
    BY <2>1 DEF LockInv, Others
<1>3. ASSUME NEW c \in Conns,
             Save(c) \/ InsertEvent(c) \/ Audit(c) \/ WriteFails(c)
             \/ \E r \in Commands : Receive(c, r)
      PROVE  LockInv'
  <2>1. Others(c) /\ settings' = settings
    BY <1>3, HandlerType
  <2>2. pc'[c] # "save" /\ readers \ {c} \subseteq readers'
    BY <1>3 DEF Save, InsertEvent, Audit, WriteFails, Receive, Finish, GoTo, TypeOK
  <2>3. QED
    BY <2>1, <2>2 DEF LockInv, Others
<1>4. CASE CriticalPause
  BY <1>4 DEF CriticalPause, LockInv
<1>5. CASE Restart
  BY <1>5 DEF Restart, LockInv
<1>6. CASE UNCHANGED vars
  BY <1>6 DEF vars, LockInv
<1>7. QED
  BY <1>1, <1>2, <1>3, <1>4, <1>5, <1>6 DEF Next, Handle

\* set_auto_stop never writes settings that are no longer in force.
THEOREM AutoStopRowIsCurrent == Spec => AutoStopSavesCurrent
<1>1. LockInv => \A c \in Conns : request[c].autoStop /\ Save(c) => saved' = settings'
  BY DEF LockInv, Save
<1>2. Init => LockInv
  BY DEF Init, LockInv, NoRequest
<1>3. LockInv /\ [Next]_vars
      => [\A c \in Conns : request[c].autoStop /\ Save(c) => saved' = settings']_vars
  BY <1>1
<1>4. QED
  BY <1>2, <1>3, LockInvStep, TypeCorrect, PTL DEF Spec, AutoStopSavesCurrent
-----------------------------------------------------------------------------
(* The lock is given back: the safety half of EveryCommandIsAnswered.      *)

Saving(c) == pc[c] = "save" /\ request[c].autoStop

HoldersInv ==
    /\ \A c \in Conns : c \in readers <=> Saving(c)
    /\ \A c \in Conns : pc[c] = "lock" => request[c].autoStop

\* The lock is held by exactly the handlers that save under it, so that whoever has
\* to wait for it waits for a handler that can go on.
NobodyKeepsTheLock ==
    /\ \A c \in Conns : c \in readers <=> Saving(c)
    /\ (\E c \in Conns : pc[c] # "idle")
          => \E c \in Conns : pc[c] \in Working \/ (pc[c] = "mutate" /\ readers = {})

LEMMA HoldersInvStep == TypeOK /\ HoldersInv /\ [Next]_vars => HoldersInv'
<1> SUFFICES ASSUME TypeOK, HoldersInv, [Next]_vars PROVE HoldersInv'
  OBVIOUS
<1>1. ASSUME NEW c \in Conns, Mutate(c) PROVE HoldersInv'
  <2>1. readers = {} /\ readers' = {} /\ Others(c)
    BY <1>1, MutateType DEF Mutate
  <2>2. ~Saving(c)'
    BY <1>1, MutateType DEF Saving
  <2>3. pc'[c] = "lock" => request'[c].autoStop
    <3>1. CASE Finish(c)
      BY <3>1, FinishType
    <3>2. CASE ~Finish(c)
      BY <1>1, <3>2 DEF Mutate, GoTo, TypeOK
    <3>3. QED
      BY <3>1, <3>2
  <2>4. QED
    BY <2>1, <2>2, <2>3 DEF HoldersInv, Saving, Others
<1>2. ASSUME NEW c \in Conns, LockForSave(c) PROVE HoldersInv'
  <2>1. /\ Others(c) /\ readers' = readers \cup {c} /\ pc[c] = "lock" /\ pc'[c] = "save"
        /\ request' = request
    BY <1>2, HandlerType DEF LockForSave, GoTo, TypeOK
  <2>2. QED
    BY <2>1 DEF HoldersInv, Saving, Others
<1>3. ASSUME NEW c \in Conns, Save(c) \/ WriteFails(c) PROVE HoldersInv'
  <2>1. Others(c) /\ readers' = readers \ {c} /\ pc'[c] \notin {"lock", "save"}
    BY <1>3, HandlerType DEF Save, WriteFails, Finish, GoTo, TypeOK
  <2>2. QED
    BY <2>1 DEF HoldersInv, Saving, Others
<1>4. ASSUME NEW c \in Conns,
             InsertEvent(c) \/ Audit(c) \/ \E r \in Commands : Receive(c, r)
      PROVE  HoldersInv'
  <2>1. /\ Others(c) /\ readers' = readers
        /\ pc[c] \notin {"lock", "save"} /\ pc'[c] \notin {"lock", "save"}
    BY <1>4, HandlerType DEF InsertEvent, Audit, Receive, Finish, GoTo, TypeOK
  <2>2. QED
    BY <2>1 DEF HoldersInv, Saving, Others
<1>5. CASE CriticalPause \/ UNCHANGED vars
  BY <1>5 DEF CriticalPause, vars, HoldersInv, Saving
<1>6. CASE Restart
  BY <1>6 DEF Restart, HoldersInv, Saving
<1>7. QED
  BY <1>1, <1>2, <1>3, <1>4, <1>5, <1>6 DEF Next, Handle

\* Failed writes and cut short commands included, no handler leaves with the lock,
\* and as long as one is at work one can go on.
THEOREM LockGivenBack == Spec => []NobodyKeepsTheLock
<1>1. Init => HoldersInv
  BY DEF Init, HoldersInv, Saving
<1>2. TypeOK /\ HoldersInv => NobodyKeepsTheLock
  <2> SUFFICES ASSUME TypeOK, HoldersInv, NEW c \in Conns, pc[c] # "idle"
               PROVE  \E d \in Conns : pc[d] \in Working
                                        \/ (pc[d] = "mutate" /\ readers = {})
    BY DEF HoldersInv, NobodyKeepsTheLock
  <2>1. CASE readers = {}
    BY <2>1 DEF TypeOK, Working
  <2>2. CASE readers # {}
    <3>1. PICK d \in Conns : d \in readers
      BY <2>2 DEF TypeOK
    <3>2. QED
      BY <3>1 DEF HoldersInv, Saving, Working
  <2>3. QED
    BY <2>1, <2>2
<1>3. QED
  BY <1>1, <1>2, HoldersInvStep, TypeCorrect, PTL DEF Spec
-----------------------------------------------------------------------------
(* The row is the memory.                                                  *)

\* While no two commands met, at most one change is unsaved, and its handler holds
\* a copy of it; otherwise row and memory agree.
CleanInv ==
    clean =>
        /\ \A c, d \in Conns : Unsaved(c) /\ Unsaved(d) => c = d
        /\ \A c \in Conns : Unsaved(c) => snapshot[c] = settings
        /\ (\A c \in Conns : ~Unsaved(c)) => saved = settings

LEMMA CleanInvStep == TypeOK /\ CleanInv /\ [Next]_vars => CleanInv'
<1> SUFFICES ASSUME TypeOK, CleanInv, [Next]_vars, clean' PROVE CleanInv'
  BY DEF CleanInv
<1>1. ASSUME NEW c \in Conns, Mutate(c) PROVE CleanInv'
  <2> DEFINE after == Assigned(request[c].writes, settings)
             bails == Accepted(request[c].writes) # DOMAIN request[c].writes
  <2>1. /\ clean /\ settings' = after /\ saved' = saved /\ pc[c] = "mutate"
        /\ \A d \in Conns \ {c} : ~Unsaved(d)
        /\ bails => after = settings /\ Finish(c)
        /\ ~bails => GoTo(c, IF request[c].autoStop THEN "lock" ELSE "save")
    BY <1>1 DEF Mutate, Overlaps
  <2> HIDE DEF after, bails
  <2>2. /\ \A d \in Conns \ {c} : pc'[d] = pc[d]
        /\ pc'[c] # "idle" => snapshot'[c] = settings'
    BY <1>1, MutateType DEF Others
  <2>3. \A d \in Conns \ {c} : ~Unsaved(d)'
    BY <2>1, <2>2 DEF Unsaved
  <2>4. CASE bails
    <3>1. ~Unsaved(c) /\ ~Unsaved(c)'
      BY <2>1, <2>4, FinishType DEF Unsaved
    <3>2. saved = settings
      BY <2>1, <3>1 DEF CleanInv
    <3>3. QED
      BY <2>1, <2>3, <2>4, <3>1, <3>2 DEF CleanInv
  <2>5. CASE ~bails
    <3>1. Unsaved(c)'
      BY <2>1, <2>5 DEF GoTo, TypeOK, Unsaved
    <3>2. QED
      BY <2>2, <2>3, <3>1 DEF CleanInv, Unsaved
  <2>6. QED
    BY <2>4, <2>5
<1>2. ASSUME NEW c \in Conns, LockForSave(c) PROVE CleanInv'
  <2>1. /\ Others(c) /\ settings' = settings /\ saved' = saved /\ clean
        /\ snapshot'[c] = settings /\ pc[c] = "lock" /\ pc'[c] = "save"
    BY <1>2, HandlerType DEF LockForSave, GoTo, TypeOK
  <2>2. QED
    BY <2>1 DEF CleanInv, Unsaved, Others
<1>3. ASSUME NEW c \in Conns, Save(c) PROVE CleanInv'
  <2>1. /\ Others(c) /\ settings' = settings /\ saved' = snapshot[c] /\ clean
        /\ pc[c] = "save" /\ pc'[c] \in {"audit", "event"}
    BY <1>3, HandlerType DEF Save, GoTo, TypeOK
  <2>2. \A d \in Conns : ~Unsaved(d)'
    BY <2>1 DEF CleanInv, Unsaved, Others
  <2>3. saved' = settings'
    BY <2>1 DEF CleanInv, Unsaved
  <2>4. QED
    BY <2>2, <2>3 DEF CleanInv
<1>4. ASSUME NEW c \in Conns,
             InsertEvent(c) \/ Audit(c) \/ WriteFails(c)
             \/ \E r \in Commands : Receive(c, r)
      PROVE  CleanInv'
  <2>1. /\ Others(c) /\ settings' = settings /\ saved' = saved /\ clean
        /\ ~Unsaved(c) /\ ~Unsaved(c)'
    BY <1>4, HandlerType
       DEF InsertEvent, Audit, WriteFails, Receive, Finish, GoTo, TypeOK, Unsaved
  <2>2. QED
    BY <2>1 DEF CleanInv, Unsaved, Others
<1>5. CASE CriticalPause
  <2>1. settings' = settings
    BY <1>5 DEF CriticalPause, TypeOK, Settings
  <2>2. QED
    BY <1>5, <2>1 DEF CriticalPause, CleanInv, Unsaved
<1>6. CASE Restart
  BY <1>6 DEF Restart, CleanInv, Unsaved
<1>7. CASE UNCHANGED vars
  BY <1>7 DEF vars, CleanInv, Unsaved
<1>8. QED
  BY <1>1, <1>2, <1>3, <1>4, <1>5, <1>6, <1>7 DEF Next, Handle

\* Row and memory can part only where commands overlap, a save fails, a command
\* is cut short or reconciliation pauses.
THEOREM RowIsMemory == Spec => []OnlyOverlapLosesSettings
<1>1. Init => CleanInv
  BY DEF Init, CleanInv, Unsaved
<1>2. CleanInv => OnlyOverlapLosesSettings
  BY DEF CleanInv, OnlyOverlapLosesSettings
<1>3. QED
  BY <1>1, <1>2, CleanInvStep, TypeCorrect, PTL DEF Spec
-----------------------------------------------------------------------------
(* The audit.                                                              *)

\* A handler that owes an audit row is past its change and on its way to it.
AuditInv ==
    /\ dbErrors \in Nat
    /\ dbErrors = 0 /\ ~partial => \A c \in owed : pc[c] \in Working

LEMMA AuditInvStep == TypeOK /\ AuditInv /\ [Next]_vars => AuditInv'
<1> SUFFICES ASSUME TypeOK, AuditInv, [Next]_vars PROVE AuditInv'
  OBVIOUS
<1>1. ASSUME NEW c \in Conns, Mutate(c) PROVE AuditInv'
  <2> DEFINE after == Assigned(request[c].writes, settings)
             bails == Accepted(request[c].writes) # DOMAIN request[c].writes
  <2>1. /\ dbErrors' = dbErrors /\ pc[c] = "mutate" /\ owed \subseteq Conns
        /\ owed' = IF after # settings THEN owed \cup {c} ELSE owed
        /\ partial' = (partial \/ (bails /\ after # settings))
        /\ ~bails => GoTo(c, IF request[c].autoStop THEN "lock" ELSE "save")
    BY <1>1 DEF Mutate, bounds, TypeOK
  <2> HIDE DEF after, bails
  <2>2. \A d \in Conns \ {c} : pc'[d] = pc[d]
    BY <1>1, MutateType DEF Others
  <2>3. ~bails => pc'[c] \in Working
    BY <2>1 DEF GoTo, TypeOK, Working
  <2>4. ASSUME dbErrors' = 0, ~partial', NEW d \in owed' PROVE pc'[d] \in Working
    <3>1. dbErrors = 0 /\ ~partial /\ c \notin owed
      BY <2>1, <2>4 DEF AuditInv, Working
    <3>2. CASE d = c
      BY <2>1, <2>3, <2>4, <3>1, <3>2
    <3>3. CASE d # c
      BY <2>1, <2>2, <2>4, <3>1, <3>3 DEF AuditInv
    <3>4. QED
      BY <3>2, <3>3
  <2>5. QED
    BY <2>1, <2>4 DEF AuditInv
<1>2. ASSUME NEW c \in Conns, LockForSave(c) \/ Save(c) \/ InsertEvent(c)
      PROVE  AuditInv'
  <2>1. Others(c) /\ UNCHANGED <<owed, partial, dbErrors>> /\ pc'[c] \in Working
    BY <1>2, HandlerType
       DEF LockForSave, Save, InsertEvent, GoTo, TypeOK, Working, bounds
  <2>2. owed \subseteq Conns
    BY DEF TypeOK
  <2>3. QED
    BY <2>1, <2>2 DEF AuditInv, Others
<1>3. ASSUME NEW c \in Conns, Audit(c) PROVE AuditInv'
  <2>1. Others(c) /\ UNCHANGED <<partial, dbErrors>> /\ owed' = owed \ {c}
    BY <1>3, HandlerType DEF Audit, bounds
  <2>2. owed \subseteq Conns
    BY DEF TypeOK
  <2>3. QED
    BY <2>1, <2>2 DEF AuditInv, Others
<1>4. ASSUME NEW c \in Conns, WriteFails(c) PROVE AuditInv'
  <2>1. dbErrors' = dbErrors + 1
    BY <1>4 DEF WriteFails
  <2>2. dbErrors' \in Nat /\ dbErrors' # 0
    BY <2>1 DEF AuditInv
  <2>3. QED
    BY <2>2 DEF AuditInv
<1>5. ASSUME NEW c \in Conns, NEW r \in Commands, Receive(c, r) PROVE AuditInv'
  <2>1. Others(c) /\ UNCHANGED <<owed, partial, dbErrors>> /\ pc[c] = "idle"
    BY <1>5, HandlerType DEF Receive
  <2>2. owed \subseteq Conns
    BY DEF TypeOK
  <2>3. QED
    BY <2>1, <2>2 DEF AuditInv, Others, Working
<1>6. CASE CriticalPause
  BY <1>6 DEF CriticalPause, AuditInv
<1>7. CASE Restart
  BY <1>7 DEF Restart, AuditInv
<1>8. CASE UNCHANGED vars
  BY <1>8 DEF vars, bounds, AuditInv
<1>9. QED
  BY <1>1, <1>2, <1>3, <1>4, <1>5, <1>6, <1>7, <1>8 DEF Next, Handle

\* Only a command cut short between two parameters, a failed write or a restart
\* leaves a change without its audit row.
THEOREM ChangesAreAudited == Spec => []OnlyPartialsGoUnaudited
<1>1. Init => AuditInv
  BY DEF Init, AuditInv
<1>2. AuditInv => OnlyPartialsGoUnaudited
  BY DEF AuditInv, OnlyPartialsGoUnaudited, Working
<1>3. QED
  BY <1>1, <1>2, AuditInvStep, TypeCorrect, PTL DEF Spec
=============================================================================
