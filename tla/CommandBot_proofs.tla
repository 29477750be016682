-------------------------- MODULE CommandBot_proofs -------------------------
(***************************************************************************)
(* Theorems about CommandBot for any batch size and any number of updates  *)
(* and failures.                                                           *)
(***************************************************************************)
EXTENDS CommandBot, FiniteSetTheorems, TLAPS

\* Where the bot has an update in hand, that update is of the batch.
InHand == {"await", "reply", "complain"}

\* What the type invariant needs besides: there is an update in hand.
TypeInv == TypeOK /\ (pc \in InHand => next <= last)

LEMMA AskedType ==
  ASSUME TypeOK
  PROVE  /\ Asked \in confirmed..Len(updates) /\ Asked >= offset
         /\ Asked \in Nat /\ Asked >= confirmed /\ confirmed \in Nat /\ offset \in Nat
<1>1. Len(updates) \in Nat
  BY DEF TypeOK
<1>2. QED
  BY <1>1 DEF TypeOK, Asked, Greater

\* A request that moves on stays a request.
LEMMA RequestType ==
  ASSUME TypeOK, NEW r \in requests, NEW place \in {"apply", "save", "event"}
  PROVE  /\ r.update \in DOMAIN updates /\ r.update \in Updates
         /\ r.call \in 1..calls
         /\ (requests \ {r}) \cup {[r EXCEPT !.at = place]} \subseteq Requests
<1>1. r \in Requests
  BY DEF TypeOK
<1>2. [r EXCEPT !.at = place] \in Requests
  BY <1>1 DEF Requests
<1>3. r.update \in 1..Len(updates) /\ r.call \in 1..calls
  BY <1>1 DEF Requests
<1>4. 1..Len(updates) = DOMAIN updates /\ 1..Len(updates) \subseteq Updates
  BY BotAssumption DEF TypeOK, Updates
<1>5. QED
  BY <1>2, <1>3, <1>4 DEF TypeOK

LEMMA AnswerType ==
  ASSUME TypeInv, NEW r \in requests, NEW place \in {"reply", "complain"},
         AnswerCall(r, place)
  PROVE  /\ pc' \in {"starting", "poll", "batch", "await", "reply", "complain"}
         /\ waiting' \in 0..calls /\ (waiting' # 0 <=> pc' = "await")
         /\ requests' \subseteq Requests
         /\ (pc' \in InHand => next' <= last')
         /\ UNCHANGED <<offset, next, last>>
<1>1. r.call \in 1..calls
  BY RequestType DEF TypeInv
<1>2. r.call = waiting => pc = "await"
  BY <1>1 DEF TypeInv, TypeOK
<1>3. QED
  BY <1>2 DEF AnswerCall, Awaited, TypeInv, TypeOK, InHand

LEMMA FaultType == ASSUME TypeOK, Fault PROVE faults' \in 0..MaxFaults
BY BotAssumption DEF TypeOK, Fault

LEMMA TellType ==
  ASSUME TypeInv, pc \in InHand, NEW how \in {"ok", "failed"}, Tell(how) \/ UNCHANGED chat
  PROVE  /\ answered' \subseteq DOMAIN updates
         /\ outcome' \in [Updates -> {"none", "ok", "failed"}]
<1>1. next \in DOMAIN updates
  BY DEF TypeInv, TypeOK
<1>2. QED
  BY <1>1 DEF TypeInv, TypeOK, Tell, chat

LEMMA TypeStep == ASSUME TypeInv, [Next]_vars PROVE TypeInv'
<1> USE DEF TypeInv, TypeOK, InHand
<1>1. CASE UNCHANGED vars
  BY <1>1 DEF vars, telegram, chat, bot, engine, history, Requests
<1>2. CASE Arrive
  <2>1. PICK kind \in Kinds : updates' = Append(updates, kind)
    BY <1>2 DEF Arrive
  <2>2. updates' \in Seq(Kinds) /\ Len(updates') = Len(updates) + 1
    BY <2>1
  <2>3. Len(updates') <= MaxUpdates
    BY <1>2, <2>2, BotAssumption DEF Arrive
  <2>4. DOMAIN updates \subseteq DOMAIN updates' /\ Requests \subseteq Requests'
    BY <1>2, <2>2 DEF Requests, Arrive, engine
  <2>5. QED
    BY <1>2, <2>2, <2>3, <2>4 DEF Arrive, chat, bot, engine, history, Requests
<1>3. CASE Start
  BY <1>3 DEF Start, telegram, chat, engine, history, Requests
<1>4. CASE GetUpdates
  <2>1. Asked \in confirmed..Len(updates)
    BY AskedType
  <2>2. Asked < Len(updates) => Lesser(Len(updates), Asked + BatchMax)
                                   \in (Asked + 1)..Len(updates)
    BY <2>1, BotAssumption DEF Lesser
  <2>3. QED
    BY <1>4, <2>1, <2>2 DEF GetUpdates, chat, engine, history, Requests
<1>5. CASE GetUpdatesFails
  BY <1>5, AskedType, BotAssumption
     DEF GetUpdatesFails, Fault, chat, bot, engine, history, Requests
<1>6. CASE Skip
  BY <1>6 DEF Skip, Advance, telegram, chat, engine, history, Requests
<1>7. CASE Call
  <2>1. next \in DOMAIN updates /\ next \in Updates
    BY <1>7, BotAssumption DEF Call, Updates
  <2>2. [call |-> calls + 1, update |-> next, at |-> "apply"] \in Requests'
    BY <1>7, <2>1 DEF Call, Requests, telegram
  <2>3. Requests \subseteq Requests'
    BY <1>7 DEF Call, Requests, telegram
  <2>4. requests' \subseteq Requests'
    BY <1>7, <2>2, <2>3 DEF Call
  <2>5. QED
    BY <1>7, <2>1, <2>4 DEF Call, telegram
<1>8. CASE CallFails
  <2>1. next \in DOMAIN updates /\ next \in Updates
    BY <1>8, BotAssumption DEF CallFails, Updates
  <2>2. QED
    BY <1>8, <2>1, BotAssumption DEF CallFails, Fault, telegram, engine, Requests
<1>9. CASE Timeout
  BY <1>9, BotAssumption DEF Timeout, Fault, telegram, chat, engine, history, Requests
<1>10. CASE Reply \/ Complain
  <2>1. /\ answered' \subseteq DOMAIN updates
        /\ outcome' \in [Updates -> {"none", "ok", "failed"}]
    BY <1>10, TellType DEF Reply, Complain
  <2>2. /\ UNCHANGED <<telegram, offset, last, waiting, engine, faults, history>>
        /\ pc \in InHand /\ pc # "await" /\ pc' = "batch" /\ next' = next + 1
    BY <1>10 DEF Reply, Complain, Advance
  <2>3. QED
    BY <2>1, <2>2 DEF telegram, engine, history, Requests
<1>11. CASE ReplyFails \/ ComplainFails
  <2>1. /\ answered' \subseteq DOMAIN updates
        /\ outcome' \in [Updates -> {"none", "ok", "failed"}]
    BY <1>11, TellType DEF ReplyFails, ComplainFails
  <2>2. faults' \in 0..MaxFaults
    BY <1>11, FaultType DEF ReplyFails, ComplainFails
  <2>3. CASE ReplyFails
    BY <2>1, <2>2, <2>3 DEF ReplyFails, telegram, engine, history, Requests
  <2>4. CASE ComplainFails
    BY <2>1, <2>2, <2>4 DEF ComplainFails, telegram, engine, Requests
  <2>5. QED
    BY <1>11, <2>3, <2>4
<1>12. CASE EndBatch
  BY <1>12 DEF EndBatch, telegram, chat, engine, history, Requests
<1>13. CASE BotRestarts
  BY <1>13, BotAssumption
     DEF BotRestarts, Fault, telegram, chat, engine, history, Requests
<1>14. ASSUME NEW r \in requests, Apply(r) PROVE TypeInv'
  <2>1. requests' \subseteq Requests /\ r.update \in Updates
    BY <1>14, RequestType DEF Apply, MoveOn
  <2>2. QED
    BY <1>14, <2>1 DEF Apply, Written, Pauses, telegram, chat, bot, Requests
<1>15. ASSUME NEW r \in requests, Save(r) PROVE TypeInv'
  <2>1. requests' \subseteq Requests
    BY <1>15, RequestType DEF Save, MoveOn
  <2>2. QED
    BY <1>15, <2>1 DEF Save, Written, Pauses, telegram, chat, bot, Requests
<1>16. ASSUME NEW r \in requests, Finish(r) PROVE TypeInv'
  BY <1>16, AnswerType DEF Finish, telegram, chat, history, Requests
<1>17. ASSUME NEW r \in requests, WriteFails(r) PROVE TypeInv'
  <2>1. AnswerCall(r, "complain") /\ faults' \in 0..MaxFaults
    BY <1>17, FaultType DEF WriteFails
  <2>2. QED
    BY <1>17, <2>1, AnswerType DEF WriteFails, telegram, chat, history, Requests
<1>18. CASE EngineRestarts
  BY <1>18, BotAssumption DEF EngineRestarts, Fault, telegram, chat, history, Requests
<1>19. CASE ReconciliationPause
  BY <1>19 DEF ReconciliationPause, telegram, chat, bot, Requests
<1>20. QED
  BY <1>1, <1>2, <1>3, <1>4, <1>5, <1>6, <1>7, <1>8, <1>9, <1>10, <1>11, <1>12,
     <1>13, <1>14, <1>15, <1>16, <1>17, <1>18, <1>19 DEF Next, Bot, Handle, Failures

LEMMA TypeInvariant == Spec => []TypeInv
<1>1. Init => TypeInv
  <2> SUFFICES ASSUME Init PROVE TypeInv
    OBVIOUS
  <2>1. updates \in Seq(Kinds) /\ Len(updates) = 0
    BY DEF Init
  <2>2. /\ outcome \in [Updates -> {"none", "ok", "failed"}]
        /\ applied \in [Updates -> Nat]
    BY DEF Init
  <2>3. Len(updates) <= MaxUpdates /\ faults \in 0..MaxFaults
    BY <2>1, BotAssumption DEF Init
  <2>4. offset \in 0..Len(updates) /\ last \in 0..Len(updates) /\ next \in 1..(last + 1)
        /\ confirmed \in 0..Len(updates) /\ executing \in 0..Len(updates)
    BY <2>1 DEF Init
  <2>5. calls \in Nat /\ waiting \in 0..calls /\ repeats \in Nat
        /\ pc = "starting" /\ waiting = 0
    BY DEF Init
  <2>6. answered \subseteq DOMAIN updates /\ requests \subseteq Requests
        /\ paused \in BOOLEAN /\ saved \in BOOLEAN /\ overwritten = {}
    BY DEF Init
  <2>7. QED
    BY <2>1, <2>2, <2>3, <2>4, <2>5, <2>6 DEF TypeInv, TypeOK, InHand
<1>2. TypeInv /\ [Next]_vars => TypeInv'
  BY TypeStep
<1>3. QED
  BY <1>1, <1>2, PTL DEF Spec

\* The chat, the bot and the handlers keep their types.
THEOREM TypeCorrect == Spec => []TypeOK
<1>1. TypeInv => TypeOK
  BY DEF TypeInv
<1>2. QED
  BY <1>1, TypeInvariant, PTL
-----------------------------------------------------------------------------
(* Answers.                                                                *)

\* The bot does not wait for an answer nobody will give: as long as it waits, the
\* handler of its call is at work.
AnswerOnItsWay == pc = "await" => \E r \in requests : Awaited(r)

AnswerInv ==
    /\ pc = "await" => waiting # 0
    /\ waiting # 0 => \E r \in requests : Awaited(r)

LEMMA MoveKeepsAwaited ==
  ASSUME TypeInv, AnswerInv, NEW r \in requests, NEW place \in {"save", "event"},
         MoveOn(r, place), UNCHANGED <<pc, waiting>>
  PROVE  AnswerInv'
<1> DEFINE moved == [r EXCEPT !.at = place]
<1>1. moved.call = r.call
  BY DEF TypeInv, TypeOK, Requests
<1>2. requests' = (requests \ {r}) \cup {moved}
  BY DEF MoveOn
<1>3. QED
  BY <1>1, <1>2 DEF AnswerInv, Awaited

LEMMA AnswerStep == TypeInv /\ AnswerInv /\ [Next]_vars => AnswerInv'
<1> SUFFICES ASSUME TypeInv, AnswerInv, [Next]_vars PROVE AnswerInv'
  OBVIOUS
<1>1. waiting # 0 => pc = "await"
  BY DEF TypeInv, TypeOK
<1>2. CASE Start \/ GetUpdates \/ GetUpdatesFails \/ Skip \/ EndBatch \/ BotRestarts
           \/ Reply \/ Complain \/ ReplyFails \/ ComplainFails \/ CallFails \/ Timeout
  <2>1. pc' # "await" /\ waiting' = 0
    BY <1>1, <1>2 DEF Start, GetUpdates, GetUpdatesFails, Skip, EndBatch, BotRestarts, Reply,
                Complain, ReplyFails, ComplainFails, CallFails, Timeout, Advance, bot
  <2>2. QED
    BY <2>1 DEF AnswerInv
<1>3. CASE Call
  <2>1. calls \in Nat
    BY DEF TypeInv, TypeOK
  <2>2. waiting' = calls + 1
        /\ [call |-> calls + 1, update |-> next, at |-> "apply"] \in requests'
    BY <1>3 DEF Call
  <2>3. QED
    BY <2>1, <2>2 DEF AnswerInv, Awaited
<1>4. ASSUME NEW r \in requests, Apply(r) \/ Save(r) PROVE AnswerInv'
  BY <1>4, MoveKeepsAwaited DEF Apply, Save, bot
<1>5. ASSUME NEW r \in requests, Finish(r) \/ WriteFails(r) PROVE AnswerInv'
  <2>1. PICK place \in {"reply", "complain"} : AnswerCall(r, place)
    BY <1>5 DEF Finish, WriteFails
  <2>2. CASE Awaited(r)
    BY <2>1, <2>2 DEF AnswerCall, AnswerInv
  <2>3. CASE ~Awaited(r)
    BY <2>1, <2>3 DEF AnswerCall, AnswerInv, Awaited
  <2>4. QED
    BY <2>2, <2>3
<1>6. CASE EngineRestarts
  <2>1. pc' # "await" /\ waiting' = 0
    BY <1>1, <1>6 DEF EngineRestarts
  <2>2. QED
    BY <2>1 DEF AnswerInv
<1>7. CASE Arrive \/ ReconciliationPause \/ UNCHANGED vars
  BY <1>7 DEF Arrive, ReconciliationPause, vars, bot, engine, AnswerInv, Awaited
<1>8. QED
  BY <1>2, <1>3, <1>4, <1>5, <1>6, <1>7 DEF Next, Bot, Handle, Failures

\* The safety half of EveryUpdateIsConfirmed: handlers that fail, lost answers and
\* restarts of the engine let nobody wait in vain.
THEOREM NobodyWaitsInVain == Spec => []AnswerOnItsWay
<1>1. Init => AnswerInv
  BY DEF Init, AnswerInv
<1>2. AnswerInv => AnswerOnItsWay
  BY DEF AnswerInv, AnswerOnItsWay
<1>3. QED
  BY <1>1, <1>2, AnswerStep, TypeInvariant, PTL DEF Spec
-----------------------------------------------------------------------------
(* Repetitions.                                                            *)

\* The first update the bot may still call without giving up a batch: the one
\* in hand is called already once the bot waits for it.
Place ==
    IF pc \in {"poll", "starting"} THEN Asked + 1
    ELSE IF pc = "batch" THEN next ELSE next + 1

\* The calls of an update the engine has yet to apply, and one more if the bot
\* may still call it.
ToApply(u) == {r \in requests : r.update = u /\ r.at = "apply"}
Allowance(u) == IF u >= Place THEN 1 ELSE 0

RepeatInv ==
    /\ IsFiniteSet(requests)
    /\ \A u \in Updates : applied[u] + Cardinality(ToApply(u)) + Allowance(u) <= 1 + repeats

LEMMA ToApplyFinite ==
  ASSUME RepeatInv, NEW u \in Updates
  PROVE  IsFiniteSet(ToApply(u)) /\ Cardinality(ToApply(u)) \in Nat
<1>1. ToApply(u) \subseteq requests
  BY DEF ToApply
<1>2. IsFiniteSet(ToApply(u))
  BY <1>1, FS_Subset DEF RepeatInv
<1>3. QED
  BY <1>2, FS_CardinalityType

LEMMA PlaceType == TypeOK => Place \in Nat
<1> SUFFICES ASSUME TypeOK PROVE Place \in Nat
  OBVIOUS
<1>1. Len(updates) \in Nat
  BY DEF TypeOK
<1>2. QED
  BY <1>1, AskedType DEF Place, TypeOK

\* The same of the next state.  The provers see no arithmetic in a primed variable
\* and get it as a quantified fact.
LEMMA PlaceTypeNext == ASSUME TypeOK' PROVE Place' \in Nat
<1>1. \A n \in Nat : n + 1 \in Nat
  OBVIOUS
<1>2. \A a, b \in Nat : (IF a > b THEN a ELSE b) \in Nat
  OBVIOUS
<1>3. Len(updates') \in Nat
  BY DEF TypeOK
<1>4. confirmed' \in Nat /\ offset' \in Nat /\ next' \in Nat
  BY <1>3 DEF TypeOK
<1>5. next' + 1 \in Nat
  BY <1>1, <1>4
<1>6. Asked' \in Nat
  BY <1>2, <1>4 DEF Asked, Greater
<1>7. Asked' + 1 \in Nat
  BY <1>1, <1>6, Zenon
<1>8. QED
  BY <1>4, <1>5, <1>7, Zenon DEF Place

\* A step that calls and applies nothing and moves the place only forward, ...
LEMMA NoNewCall ==
  ASSUME TypeOK, TypeOK', RepeatInv, requests' \subseteq requests,
         UNCHANGED applied, repeats' >= repeats,
         Place' >= Place \/ repeats' >= repeats + 1
  PROVE  RepeatInv'
<1>1. IsFiniteSet(requests')
  BY FS_Subset DEF RepeatInv
<1>2. ASSUME NEW u \in Updates
      PROVE  (applied[u] + Cardinality(ToApply(u)) + Allowance(u) <= 1 + repeats)'
  <2>1. ToApply(u)' \subseteq ToApply(u)
    BY DEF ToApply
  <2>2. Cardinality(ToApply(u)') <= Cardinality(ToApply(u))
        /\ Cardinality(ToApply(u)') \in Nat
    BY <2>1, ToApplyFinite, FS_Subset, FS_CardinalityType
  <2>3. applied[u] + Cardinality(ToApply(u)) + Allowance(u) <= 1 + repeats
    BY DEF RepeatInv
  <2>4. Place \in Nat /\ Place' \in Nat
    BY PlaceType, PlaceTypeNext
  <2>5. applied[u] \in Nat /\ applied'[u] = applied[u] /\ repeats \in Nat /\ repeats' \in Nat
    BY DEF TypeOK
  <2>6. Cardinality(ToApply(u)) \in Nat
    BY ToApplyFinite
  <2>7. CASE repeats' >= repeats + 1
    BY <2>2, <2>3, <2>5, <2>6, <2>7 DEF Allowance
  <2>8. CASE Place' >= Place
    <3>1. Allowance(u)' <= Allowance(u)
      BY <2>4, <2>8 DEF Allowance, Updates
    <3>2. Allowance(u) \in {0, 1} /\ Allowance(u)' \in {0, 1}
      BY DEF Allowance
    <3>3. QED
      BY <2>2, <2>3, <2>5, <2>6, <3>1, <3>2
  <2>9. QED
    BY <2>7, <2>8
<1>3. QED
  BY <1>1, <1>2 DEF RepeatInv

\* ... a call, ...
LEMMA CallStep == ASSUME TypeOK, TypeOK', RepeatInv, Call PROVE RepeatInv'
<1> DEFINE new == [call |-> calls + 1, update |-> next, at |-> "apply"]
<1>1. requests' = requests \cup {new}
  BY DEF Call
<1>2. IsFiniteSet(requests')
  BY <1>1, FS_AddElement DEF RepeatInv
<1>3. Place = next /\ Place' = next + 1 /\ next \in Nat
  BY DEF Call, Place, TypeOK
<1>4. ASSUME NEW u \in Updates
      PROVE  (applied[u] + Cardinality(ToApply(u)) + Allowance(u) <= 1 + repeats)'
  <2>1. applied[u] + Cardinality(ToApply(u)) + Allowance(u) <= 1 + repeats
    BY DEF RepeatInv
  <2>2. /\ applied' = applied /\ applied[u] \in Nat
        /\ repeats' = repeats /\ repeats \in Nat
    BY DEF Call, TypeOK
  <2>3. IsFiniteSet(ToApply(u)) /\ Cardinality(ToApply(u)) \in Nat
    BY ToApplyFinite
  <2>4. CASE u = next
    <3>1. ToApply(u)' = ToApply(u) \cup {new}
      BY <1>1, <2>4 DEF ToApply
    <3>2. new \notin ToApply(u)
      <4>1. \A r \in requests : r.call \in 1..calls
        BY DEF TypeOK, Requests
      <4>2. QED
        <5>1. new.call = calls + 1 /\ calls \in Nat
          BY DEF TypeOK
        <5>2. new \notin requests
          BY <4>1, <5>1
        <5>3. QED
          BY <5>2 DEF ToApply
    <3>3. Cardinality(ToApply(u)') = Cardinality(ToApply(u)) + 1
      BY <2>3, <3>1, <3>2, FS_AddElement
    <3>4. Allowance(u) = 1 /\ Allowance(u)' = 0
      BY <1>3, <2>4 DEF Allowance
    <3>5. QED
      BY <2>1, <2>2, <2>3, <3>3, <3>4
  <2>5. CASE u # next
    <3>1. ToApply(u)' = ToApply(u)
      BY <1>1, <2>5 DEF ToApply
    <3>2. Allowance(u)' = Allowance(u)
      BY <1>3, <2>5 DEF Allowance, Updates
    <3>3. QED
      BY <2>1, <2>2, <3>1, <3>2
  <2>6. QED
    BY <2>4, <2>5
<1>5. QED
  BY <1>2, <1>4 DEF RepeatInv

\* ... and a step that applies one.
LEMMA ApplyStep ==
  ASSUME TypeOK, TypeOK', RepeatInv, NEW r \in requests, Apply(r)
  PROVE  RepeatInv'
<1> DEFINE moved == [r EXCEPT !.at = "save"]
<1>1. requests' = (requests \ {r}) \cup {moved}
  BY DEF Apply, MoveOn
<1>2. IsFiniteSet(requests')
  BY <1>1, FS_AddElement, FS_RemoveElement DEF RepeatInv
<1>3. Place' = Place
  BY DEF Apply, Place, Asked, bot, telegram
<1>4. r.at = "apply" /\ moved.at = "save" /\ r.update \in Updates
  BY RequestType DEF Apply, TypeOK, Requests
<1>5. ASSUME NEW u \in Updates
      PROVE  (applied[u] + Cardinality(ToApply(u)) + Allowance(u) <= 1 + repeats)'
  <2>1. applied[u] + Cardinality(ToApply(u)) + Allowance(u) <= 1 + repeats
    BY DEF RepeatInv
  <2>2. /\ applied' = [applied EXCEPT ![r.update] = @ + 1] /\ applied[u] \in Nat
        /\ repeats' = repeats /\ repeats \in Nat
        /\ applied \in [Updates -> Nat]
    BY DEF Apply, TypeOK
  <2>3. IsFiniteSet(ToApply(u)) /\ Cardinality(ToApply(u)) \in Nat
    BY ToApplyFinite
  <2>4. Allowance(u)' = Allowance(u) /\ Allowance(u) \in {0, 1}
    BY <1>3 DEF Allowance
  <2>5. ToApply(u)' = ToApply(u) \ {r}
    BY <1>1, <1>4 DEF ToApply
  <2>6. CASE u = r.update
    <3>1. r \in ToApply(u)
      BY <1>4, <2>6 DEF ToApply
    <3>2. Cardinality(ToApply(u)') = Cardinality(ToApply(u)) - 1
      BY <2>3, <2>5, <3>1, FS_RemoveElement
    <3>3. applied'[u] = applied[u] + 1
      BY <2>2, <2>6
    <3>4. QED
      BY <2>1, <2>2, <2>3, <2>4, <3>2, <3>3
  <2>7. CASE u # r.update
    <3>1. ToApply(u)' = ToApply(u)
      BY <2>5, <2>7 DEF ToApply
    <3>2. applied'[u] = applied[u]
      BY <1>4, <2>2, <2>7
    <3>3. QED
      BY <2>1, <2>2, <2>4, <3>1, <3>2
  <2>8. QED
    BY <2>6, <2>7
<1>6. QED
  BY <1>2, <1>5 DEF RepeatInv

\* A request that is past its application may move on.
LEMMA SaveStep ==
  ASSUME TypeOK, TypeOK', RepeatInv, NEW r \in requests, Save(r)
  PROVE  RepeatInv'
<1> DEFINE moved == [r EXCEPT !.at = "event"]
<1>1. requests' = (requests \ {r}) \cup {moved}
  BY DEF Save, MoveOn
<1>2. IsFiniteSet(requests')
  BY <1>1, FS_AddElement, FS_RemoveElement DEF RepeatInv
<1>3. Place' = Place
  BY DEF Save, Place, Asked, bot, telegram
<1>4. r.at = "save" /\ moved.at = "event"
  BY DEF Save, TypeOK, Requests
<1>5. ASSUME NEW u \in Updates PROVE ToApply(u)' = ToApply(u)
  BY <1>1, <1>4 DEF ToApply
<1>6. UNCHANGED <<applied, repeats>>
  BY DEF Save
<1>7. QED
  BY <1>2, <1>3, <1>5, <1>6 DEF RepeatInv, Allowance

LEMMA RepeatStep == ASSUME TypeInv, TypeInv', RepeatInv, [Next]_vars PROVE RepeatInv'
<1> USE DEF TypeInv
<1>1. /\ Asked \in Nat /\ Asked >= confirmed /\ Asked >= offset
      /\ confirmed \in Nat /\ offset \in Nat /\ next \in Nat /\ last \in Nat
      /\ next <= last + 1
  <2>1. Len(updates) \in Nat
    BY DEF TypeOK
  <2>2. next \in Nat /\ last \in Nat /\ next <= last + 1
    BY <2>1 DEF TypeOK
  <2>3. QED
    BY <2>2, AskedType
<1>2. CASE UNCHANGED vars \/ Arrive \/ ReconciliationPause
  <2>1. Place' = Place
    BY <1>2 DEF vars, telegram, bot, Arrive, ReconciliationPause, Place, Asked
  <2>2. UNCHANGED <<requests, applied, repeats>> /\ repeats \in Nat
    BY <1>2 DEF vars, Arrive, ReconciliationPause, engine, history, TypeOK
  <2>3. QED
    BY <2>1, <2>2, PlaceType, NoNewCall
<1>3. CASE Start \/ Skip \/ EndBatch
  <2>1. Place' >= Place
    BY <1>1, <1>3 DEF Start, Skip, EndBatch, Advance, Place, Asked, Greater, telegram
  <2>2. UNCHANGED <<requests, applied, repeats>> /\ repeats \in Nat
    BY <1>3 DEF Start, Skip, EndBatch, engine, history, TypeOK
  <2>3. QED
    BY <2>1, <2>2, NoNewCall
<1>4. CASE GetUpdates \/ GetUpdatesFails
  <2>1. Place' >= Place
    BY <1>1, <1>4 DEF GetUpdates, GetUpdatesFails, Place, Asked, Greater, bot
  <2>2. UNCHANGED <<requests, applied, repeats>> /\ repeats \in Nat
    BY <1>4 DEF GetUpdates, GetUpdatesFails, engine, history, TypeOK
  <2>3. QED
    BY <2>1, <2>2, NoNewCall
<1>5. CASE Call
  BY <1>5, CallStep
<1>6. CASE CallFails \/ Timeout \/ Reply \/ Complain \/ ReplyFails
  <2>1. Place' >= Place
    BY <1>1, <1>6 DEF CallFails, Timeout, Reply, Complain, ReplyFails, Advance, Place
  <2>2. UNCHANGED <<requests, applied, repeats>> /\ repeats \in Nat
    BY <1>6 DEF CallFails, Timeout, Reply, Complain, ReplyFails, engine, history, TypeOK
  <2>3. QED
    BY <2>1, <2>2, NoNewCall
<1>7. CASE ComplainFails \/ BotRestarts
  <2>1. UNCHANGED <<requests, applied>> /\ repeats' = repeats + 1 /\ repeats \in Nat
    BY <1>7 DEF ComplainFails, BotRestarts, engine, TypeOK
  <2>2. QED
    BY <2>1, NoNewCall
<1>8. ASSUME NEW r \in requests, Apply(r) PROVE RepeatInv'
  BY <1>8, ApplyStep
<1>9. ASSUME NEW r \in requests, Save(r) PROVE RepeatInv'
  BY <1>9, SaveStep
<1>10. ASSUME NEW r \in requests, Finish(r) \/ WriteFails(r) PROVE RepeatInv'
  <2>1. PICK place \in {"reply", "complain"} : AnswerCall(r, place)
    BY <1>10 DEF Finish, WriteFails
  <2>2. r.call = waiting => pc = "await"
    <3>1. r.call \in 1..calls
      BY RequestType
    <3>2. QED
      BY <3>1 DEF TypeOK
  <2>3. Place' >= Place
    BY <1>10, <2>1, <2>2, PlaceType
       DEF AnswerCall, Awaited, Finish, WriteFails, Place, Asked, telegram
  <2>4. requests' \subseteq requests /\ UNCHANGED <<applied, repeats>> /\ repeats \in Nat
    BY <1>10, <2>1 DEF AnswerCall, Finish, WriteFails, history, TypeOK
  <2>5. QED
    BY <2>3, <2>4, NoNewCall
<1>11. CASE EngineRestarts
  <2>1. Place' >= Place
    BY <1>11, PlaceType DEF EngineRestarts, Place, Asked, telegram
  <2>2. requests' \subseteq requests /\ UNCHANGED <<applied, repeats>> /\ repeats \in Nat
    BY <1>11 DEF EngineRestarts, history, TypeOK
  <2>3. QED
    BY <2>1, <2>2, NoNewCall
<1>12. QED
  BY <1>2, <1>3, <1>4, <1>5, <1>6, <1>7, <1>8, <1>9, <1>10, <1>11
     DEF Next, Bot, Handle, Failures

\* An update is applied once, and once more for each batch given up and each
\* start of the bot, whatever polls, calls, replies, writes and engines fail.
THEOREM RepeatsBounded == Spec => []RepeatsOnlyAfterGivingUp
<1>1. Init => RepeatInv
  <2> SUFFICES ASSUME Init PROVE RepeatInv
    OBVIOUS
  <2>1. IsFiniteSet(requests) /\ \A u \in Updates : ToApply(u) = {}
    BY FS_EmptySet DEF Init, ToApply
  <2>2. QED
    <3>1. \A u \in Updates : applied[u] = 0 /\ Cardinality(ToApply(u)) = 0
      BY <2>1, FS_EmptySet DEF Init
    <3>2. \A u \in Updates : Allowance(u) \in {0, 1}
      BY DEF Allowance
    <3>3. QED
      BY <2>1, <3>1, <3>2 DEF Init, RepeatInv
<1>2. TypeInv /\ TypeInv' /\ RepeatInv /\ [Next]_vars => RepeatInv'
  BY RepeatStep
<1>3. TypeInv /\ RepeatInv => RepeatsOnlyAfterGivingUp
  <2> SUFFICES ASSUME TypeInv, RepeatInv, NEW u \in Updates
               PROVE  applied[u] <= 1 + repeats
    BY DEF RepeatsOnlyAfterGivingUp
  <2>1. applied[u] \in Nat /\ repeats \in Nat /\ Allowance(u) \in {0, 1}
    BY DEF TypeInv, TypeOK, Allowance
  <2>2. Cardinality(ToApply(u)) \in Nat
    BY ToApplyFinite
  <2>3. QED
    BY <2>1, <2>2 DEF RepeatInv
<1>4. QED
  BY <1>1, <1>2, <1>3, TypeInvariant, PTL DEF Spec
-----------------------------------------------------------------------------
(* Success.                                                                *)

\* The bot has got its answer, or the chat has.
Settled == pc = "reply" \/ (executing # 0 /\ outcome[executing] = "ok")

\* Where the request the bot waits for stands tells what it has written; what it
\* has written stays until the next call, as long as nobody else writes it.
WrittenInv ==
    /\ pc \in InHand => executing = next
    /\ pc = "await" => outcome[next] = "none"
    /\ \A r \in requests : Awaited(r) => r.update = next
    /\ "memory" \notin overwritten =>
        /\ Settled => paused = Pauses(executing)
        /\ \A r \in requests : Awaited(r) /\ r.at # "apply" => paused = Pauses(next)
    /\ "row" \notin overwritten =>
        /\ Settled => saved = Pauses(executing)
        /\ \A r \in requests : Awaited(r) /\ r.at = "event" => saved = Pauses(next)

\* No request is awaited where the bot waits for none: calls are numbered from 1.
LEMMA NoneAwaited ==
  ASSUME TypeOK
  PROVE  \A r \in requests : r.call # 0 /\ (Awaited(r) => pc = "await")
<1>1. \A r \in requests : r.call \in 1..calls
  BY DEF TypeOK, Requests
<1>2. QED
  BY <1>1 DEF TypeOK, Awaited

\* A step of the bot that leaves the engine alone and awaits nothing afterwards.
LEMMA QuietStep ==
  ASSUME TypeOK, TypeOK', WrittenInv, UNCHANGED <<updates, engine, overwritten>>,
         waiting' = 0, pc' # "reply",
         pc' \in InHand => executing' = next',
         \/ executing' = executing /\ (outcome'[executing] = "ok" => pc = "reply"
                                        \/ outcome[executing] = "ok")
         \/ outcome'[executing'] # "ok"
  PROVE  WrittenInv'
<1>1. \A r \in requests' : ~Awaited(r)'
  BY NoneAwaited DEF Awaited, engine
<1>2. pc' # "await"
  BY DEF TypeOK
<1>3. UNCHANGED <<paused, saved, overwritten>> /\ \A u : Pauses(u)' = Pauses(u)
  BY DEF engine, Pauses
<1>4. QED
  BY <1>1, <1>2, <1>3 DEF WrittenInv, Settled, InHand

LEMMA WrittenStep == ASSUME TypeInv, TypeInv', WrittenInv, [Next]_vars PROVE WrittenInv'
<1> USE DEF TypeInv
<1>1. CASE Arrive
  <2>1. PICK kind : updates' = Append(updates, kind)
    BY <1>1 DEF Arrive
  <2>2. \A u \in 1..Len(updates) : Pauses(u)' = Pauses(u)
    BY <2>1 DEF TypeOK, Pauses
  <2>3. Len(updates) \in Nat
    BY DEF TypeOK
  <2>4. pc \in InHand => next \in 1..Len(updates)
    BY <2>3 DEF TypeOK, InHand
  <2>5. executing # 0 => executing \in 1..Len(updates)
    BY <2>3 DEF TypeOK
  <2>6. UNCHANGED <<outcome, pc, next, waiting, requests, paused, saved, executing, overwritten>>
    BY <1>1 DEF Arrive, chat, bot, engine, history
  <2>7. \A r \in requests : Awaited(r)' = Awaited(r) /\ (Awaited(r) => pc = "await")
    BY <2>6, NoneAwaited DEF Awaited
  <2>8. QED
    BY <2>2, <2>4, <2>5, <2>6, <2>7 DEF WrittenInv, Settled, InHand
<1>2. CASE Start \/ GetUpdates \/ GetUpdatesFails \/ Skip \/ EndBatch \/ BotRestarts
           \/ Reply \/ Complain \/ ReplyFails \/ ComplainFails \/ CallFails \/ Timeout
  <2>1. UNCHANGED <<updates, engine, overwritten>>
    BY <1>2 DEF Start, GetUpdates, GetUpdatesFails, Skip, EndBatch, BotRestarts, Reply,
                Complain, ReplyFails, ComplainFails, CallFails, Timeout, telegram, bot,
                history
  <2>2. waiting' = 0 /\ (pc' \in InHand => executing' = next') /\ pc' # "reply"
    BY <1>2 DEF Start, GetUpdates, GetUpdatesFails, Skip, EndBatch, BotRestarts, Reply,
                Complain, ReplyFails, ComplainFails, CallFails, Timeout, Advance, bot,
                history, TypeOK, InHand, WrittenInv
  <2>3. CASE CallFails
    <3>1. next \in Updates
      BY <2>3, BotAssumption DEF CallFails, TypeOK, Updates
    <3>2. outcome'[executing'] = "none"
      BY <2>3, <3>1 DEF CallFails, TypeOK
    <3>3. QED
      BY <2>1, <2>2, <3>2, QuietStep
  <2>4. CASE Reply \/ ReplyFails
    <3>1. executing' = executing /\ pc = "reply"
      BY <2>4 DEF Reply, ReplyFails, history
    <3>2. QED
      BY <2>1, <2>2, <3>1, QuietStep
  <2>5. CASE Complain \/ ComplainFails
    <3>1. executing' = executing /\ pc = "complain" /\ executing = next
      BY <2>5 DEF Complain, ComplainFails, history, WrittenInv, InHand
    <3>2. next \in Updates
      BY <3>1, BotAssumption DEF TypeOK, Updates, InHand
    <3>3. outcome'[executing] = "failed" \/ outcome'[executing] = outcome[executing]
      BY <2>5, <3>1, <3>2 DEF Complain, ComplainFails, Tell, chat, TypeOK
    <3>4. QED
      BY <2>1, <2>2, <3>1, <3>3, QuietStep
  <2>6. CASE Start \/ GetUpdates \/ GetUpdatesFails \/ Skip \/ EndBatch \/ BotRestarts
             \/ Timeout
    <3>1. executing' = executing /\ outcome' = outcome
      BY <2>6 DEF Start, GetUpdates, GetUpdatesFails, Skip, EndBatch, BotRestarts, Timeout,
                  chat, history
    <3>2. QED
      BY <2>1, <2>2, <3>1, QuietStep
  <2>7. QED
    BY <1>2, <2>3, <2>4, <2>5, <2>6
<1>3. CASE Call
  <2>1. next \in Updates /\ calls \in Nat
    BY <1>3, BotAssumption DEF Call, TypeOK, Updates
  <2>2. outcome'[next] = "none" /\ executing' = next /\ next' = next /\ pc' = "await"
        /\ UNCHANGED <<updates, paused, saved, overwritten>>
    BY <1>3, <2>1 DEF Call, TypeOK, telegram
  <2>3. \A r \in requests : r.call # calls + 1
    <3>1. \A r \in requests : r.call \in 1..calls
      BY DEF TypeOK, Requests
    <3>2. QED
      BY <2>1, <3>1
  <2>4. \A r \in requests' : Awaited(r)' => r.update = next /\ r.at = "apply"
    BY <1>3, <2>3 DEF Call, Awaited
  <2>5. QED
    BY <2>2, <2>4 DEF WrittenInv, Settled, Pauses, InHand
<1>4. ASSUME NEW r \in requests, Apply(r) PROVE WrittenInv'
  <2> DEFINE moved == [r EXCEPT !.at = "save"]
  <2>1. requests' = (requests \ {r}) \cup {moved} /\ paused' = Pauses(r.update)
        /\ Written(r, "memory") /\ saved' = saved
    BY <1>4 DEF Apply, MoveOn
  <2>2. moved.call = r.call /\ moved.update = r.update /\ moved.at = "save"
    <3>1. r \in Requests
      BY DEF TypeOK
    <3>2. QED
      BY <3>1 DEF Requests
  <2>3. UNCHANGED <<updates, outcome, pc, next, waiting, executing>>
    BY <1>4 DEF Apply, telegram, chat, bot, history
  <2>4. \A s \in requests' : Awaited(s)' => s = moved \/ (s \in requests /\ Awaited(s))
    BY <2>1, <2>3 DEF Awaited
  <2>5. Awaited(moved)' <=> Awaited(r)
    BY <2>2, <2>3 DEF Awaited
  <2>6. Awaited(r) => pc = "await" /\ executing = next /\ outcome[next] = "none"
    BY NoneAwaited DEF WrittenInv, InHand
  <2>7. \A s \in requests' : Awaited(s)' => s.update = next
    BY <2>2, <2>4, <2>5 DEF WrittenInv
  <2>8. "row" \notin overwritten' =>
           /\ Settled' => saved' = Pauses(executing)'
           /\ \A s \in requests' : Awaited(s)' /\ s.at = "event" => saved' = Pauses(next)'
    <3>1. "row" \notin overwritten' => "row" \notin overwritten
      BY <2>1 DEF Written
    <3>2. QED
      BY <2>1, <2>2, <2>3, <2>4, <3>1 DEF WrittenInv, Settled, Pauses
  <2>9. CASE Awaited(r)
    <3>1. ~Settled' /\ paused' = Pauses(next)'
      BY <2>1, <2>3, <2>6, <2>9 DEF WrittenInv, Settled, Pauses
    <3>2. QED
      BY <2>3, <2>7, <2>8, <3>1 DEF WrittenInv
  <2>10. CASE ~Awaited(r)
    <3>1. "memory" \in overwritten'
      BY <2>1, <2>10 DEF Written
    <3>2. QED
      BY <2>3, <2>7, <2>8, <3>1 DEF WrittenInv
  <2>11. QED
    BY <2>9, <2>10
<1>5. ASSUME NEW r \in requests, Save(r) PROVE WrittenInv'
  <2> DEFINE moved == [r EXCEPT !.at = "event"]
  <2>1. requests' = (requests \ {r}) \cup {moved} /\ saved' = Pauses(r.update)
        /\ Written(r, "row") /\ paused' = paused /\ r.at = "save"
    BY <1>5 DEF Save, MoveOn
  <2>2. moved.call = r.call /\ moved.update = r.update
    <3>1. r \in Requests
      BY DEF TypeOK
    <3>2. QED
      BY <3>1 DEF Requests
  <2>3. UNCHANGED <<updates, outcome, pc, next, waiting, executing>>
    BY <1>5 DEF Save, telegram, chat, bot, history
  <2>4. \A s \in requests' : Awaited(s)' => s = moved \/ (s \in requests /\ Awaited(s))
    BY <2>1, <2>3 DEF Awaited
  <2>5. Awaited(moved)' <=> Awaited(r)
    BY <2>2, <2>3 DEF Awaited
  <2>6. Awaited(r) => pc = "await" /\ executing = next /\ outcome[next] = "none"
    BY NoneAwaited DEF WrittenInv, InHand
  <2>7. \A s \in requests' : Awaited(s)' => s.update = next
    BY <2>2, <2>4, <2>5 DEF WrittenInv
  <2>8. "memory" \notin overwritten' =>
           /\ Settled' => paused' = Pauses(executing)'
           /\ \A s \in requests' : Awaited(s)' /\ s.at # "apply" => paused' = Pauses(next)'
    <3>1. "memory" \notin overwritten' => "memory" \notin overwritten
      BY <2>1 DEF Written
    <3>2. QED
      BY <2>1, <2>3, <2>4, <2>5, <3>1 DEF WrittenInv, Settled, Pauses
  <2>9. CASE Awaited(r)
    <3>1. ~Settled' /\ saved' = Pauses(next)'
      BY <2>1, <2>3, <2>6, <2>9 DEF WrittenInv, Settled, Pauses
    <3>2. QED
      BY <2>3, <2>7, <2>8, <3>1 DEF WrittenInv
  <2>10. CASE ~Awaited(r)
    <3>1. "row" \in overwritten'
      BY <2>1, <2>10 DEF Written
    <3>2. QED
      BY <2>3, <2>7, <2>8, <3>1 DEF WrittenInv
  <2>11. QED
    BY <2>9, <2>10
<1>6. ASSUME NEW r \in requests, Finish(r) \/ WriteFails(r) PROVE WrittenInv'
  <2>1. PICK place \in {"reply", "complain"} : AnswerCall(r, place)
        /\ (place = "reply" => r.at = "event")
    BY <1>6 DEF Finish, WriteFails
  <2>2. UNCHANGED <<updates, outcome, next, executing, paused, saved, overwritten>>
        /\ requests' \subseteq requests
    BY <1>6, <2>1 DEF Finish, WriteFails, AnswerCall, telegram, chat, history
  <2>3. CASE Awaited(r)
    <3>1. pc = "await" /\ r.update = next /\ executing = next
      BY <2>3, NoneAwaited DEF WrittenInv, InHand
    <3>2. pc' = place /\ waiting' = 0
      BY <2>1, <2>3 DEF AnswerCall
    <3>3. \A s \in requests' : ~Awaited(s)'
      BY <2>2, <3>2, NoneAwaited DEF Awaited
    <3>4. outcome[executing] = "none"
      BY <3>1 DEF WrittenInv
    <3>5. place = "reply" =>
             /\ "memory" \notin overwritten => paused = Pauses(executing)
             /\ "row" \notin overwritten => saved = Pauses(executing)
      BY <2>1, <2>3, <3>1 DEF WrittenInv
    <3>6. QED
      BY <2>2, <3>1, <3>2, <3>3, <3>4, <3>5 DEF WrittenInv, Settled, Pauses
  <2>4. CASE ~Awaited(r)
    <3>1. UNCHANGED <<pc, waiting>>
      BY <2>1, <2>4 DEF AnswerCall
    <3>2. QED
      BY <2>2, <3>1 DEF WrittenInv, Settled, Pauses, Awaited
  <2>5. QED
    BY <2>3, <2>4
<1>7. CASE EngineRestarts
  <2>1. requests' = {} /\ paused' = saved
        /\ UNCHANGED <<updates, outcome, next, saved, executing>>
        /\ ("memory" \notin overwritten' => "row" \notin overwritten)
        /\ ("row" \notin overwritten' => "row" \notin overwritten)
    BY <1>7 DEF EngineRestarts, telegram, chat
  <2>2. pc' = pc \/ (pc = "await" /\ pc' = "complain")
    BY <1>7 DEF EngineRestarts
  <2>3. pc' # "await"
    BY <1>7 DEF EngineRestarts
  <2>4. QED
    BY <2>1, <2>2, <2>3 DEF WrittenInv, Settled, InHand, Pauses
<1>8. CASE ReconciliationPause
  <2>1. /\ UNCHANGED <<updates, outcome, pc, next, waiting, requests, saved, executing>>
        /\ "memory" \in overwritten'
        /\ ("row" \notin overwritten' => "row" \notin overwritten)
    BY <1>8 DEF ReconciliationPause, telegram, chat, bot
  <2>2. QED
    BY <2>1 DEF WrittenInv, Settled, Awaited, Pauses
<1>9. CASE UNCHANGED vars
  BY <1>9 DEF vars, telegram, chat, bot, engine, history, WrittenInv, Settled, Awaited,
              Pauses
<1>10. QED
  BY <1>1, <1>2, <1>3, <1>4, <1>5, <1>6, <1>7, <1>8, <1>9 DEF Next, Bot, Handle, Failures

\* A success the chat was told of is in memory and in the row until the next call,
\* across restarts of either side, each unless somebody else has written it since: a
\* handler nobody waits for, or, the memory only, reconciliation.
THEOREM SuccessKept == Spec => []SuccessLasts
<1>1. Init => WrittenInv
  BY DEF Init, WrittenInv, Settled, InHand
<1>2. TypeInv /\ TypeInv' /\ WrittenInv /\ [Next]_vars => WrittenInv'
  BY WrittenStep
<1>3. WrittenInv => SuccessLasts
  BY DEF WrittenInv, Settled, SuccessLasts
<1>4. QED
  BY <1>1, <1>2, <1>3, TypeInvariant, PTL DEF Spec
-----------------------------------------------------------------------------
(* The refinement.                                                         *)

\* What may be confirmed next was answered: the updates before the offset, and
\* those of the batch before the one in hand.
InboxInv ==
    /\ \A u \in (confirmed + 1)..offset : IsCommand(updates[u]) => u \in answered
    /\ pc \in {"batch"} \cup InHand =>
        /\ confirmed < next
        /\ \A u \in (confirmed + 1)..(next - 1) : IsCommand(updates[u]) => u \in answered
    /\ pc \in InHand => IsCommand(updates[next])

LEMMA InboxInit == Init => Inbox!Init
BY DEF Init, Inbox!Init

LEMMA Unmoved ==
  ASSUME UNCHANGED <<updates, answered, confirmed>>
  PROVE  UNCHANGED Inbox!vars
BY DEF Inbox!vars

LEMMA InboxStep ==
  ASSUME TypeInv, InboxInv, [Next]_vars
  PROVE  [Inbox!Next]_(Inbox!vars)
<1> USE DEF TypeInv, TypeOK
<1>1. CASE Arrive
  <2>1. Inbox!Arrive
    BY <1>1 DEF Arrive, Inbox!Arrive, Kinds, chat
  <2>2. QED
    BY <2>1 DEF Inbox!Next
<1>2. CASE GetUpdates \/ GetUpdatesFails
  <2>1. UNCHANGED <<updates, answered>> /\ confirmed' \in {confirmed, Asked}
    BY <1>2 DEF GetUpdates, GetUpdatesFails, chat
  <2>2. Asked # confirmed => Asked = offset /\ Asked > confirmed
    BY DEF Asked, Greater
  <2>3. CASE confirmed' = confirmed
    BY <2>1, <2>3, Unmoved
  <2>4. CASE confirmed' # confirmed
    <3>1. confirmed' = offset /\ offset \in (confirmed + 1)..Len(updates)
      BY <2>1, <2>2, <2>4
    <3>2. Inbox!Confirm(offset)
      BY <2>1, <3>1 DEF Inbox!Confirm, InboxInv
    <3>3. QED
      BY <3>1, <3>2 DEF Inbox!Next
  <2>5. QED
    BY <2>3, <2>4
<1>3. CASE Reply \/ Complain \/ ReplyFails \/ ComplainFails
  <2>1. UNCHANGED <<updates, confirmed>> /\ pc \in InHand
    BY <1>3 DEF Reply, Complain, ReplyFails, ComplainFails, telegram, InHand
  <2>2. answered' = answered \cup {next} \/ answered' = answered
    BY <1>3 DEF Reply, Complain, ReplyFails, ComplainFails, Tell, chat
  <2>3. CASE answered' = answered
    BY <2>1, <2>3, Unmoved
  <2>4. CASE answered' = answered \cup {next}
    <3>1. next \in (confirmed + 1)..Len(updates) /\ IsCommand(updates[next])
      BY <2>1 DEF InboxInv, InHand
    <3>2. Inbox!Answer(next)
      BY <2>1, <2>4, <3>1 DEF Inbox!Answer
    <3>3. QED
      BY <3>1, <3>2 DEF Inbox!Next
  <2>5. QED
    BY <2>2, <2>3, <2>4
<1>4. CASE UNCHANGED vars
  BY <1>4, Unmoved DEF vars, telegram, chat
<1>5. CASE Start \/ Skip \/ Call \/ CallFails \/ Timeout \/ EndBatch \/ BotRestarts
           \/ EngineRestarts \/ ReconciliationPause
  BY <1>5, Unmoved DEF Start, Skip, Call, CallFails, Timeout, EndBatch, BotRestarts,
                       EngineRestarts, ReconciliationPause, telegram, chat
<1>6. ASSUME NEW r \in requests, Apply(r) \/ Save(r) \/ Finish(r) \/ WriteFails(r)
      PROVE  UNCHANGED Inbox!vars
  BY <1>6, Unmoved DEF Apply, Save, Finish, WriteFails, telegram, chat
<1>7. QED
  BY <1>1, <1>2, <1>3, <1>4, <1>5, <1>6 DEF Next, Bot, Handle, Failures

LEMMA InboxInvStep == ASSUME TypeInv, InboxInv, [Next]_vars PROVE InboxInv'
<1> USE DEF TypeInv, TypeOK
<1>1. CASE Arrive
  <2>1. PICK kind : updates' = Append(updates, kind)
    BY <1>1 DEF Arrive
  <2>2. \A u \in 1..Len(updates) : updates'[u] = updates[u]
    BY <2>1
  <2>3. \A u \in (confirmed + 1)..offset : u \in 1..Len(updates)
    OBVIOUS
  <2>4. \A u \in (confirmed + 1)..(next - 1) : u \in 1..Len(updates)
    OBVIOUS
  <2>5. pc \in InHand => next \in 1..Len(updates)
    OBVIOUS
  <2>6. UNCHANGED <<confirmed, answered, pc, offset, next>>
    BY <1>1 DEF Arrive, chat, bot
  <2>7. QED
    BY <2>2, <2>3, <2>4, <2>5, <2>6 DEF InboxInv, IsCommand
<1>2. CASE GetUpdates
  <2>1. Asked \in confirmed..Len(updates) /\ Asked >= offset
    BY AskedType
  <2>2. UNCHANGED <<updates, answered, offset>> /\ confirmed' = Asked /\ pc = "poll"
    BY <1>2 DEF GetUpdates, chat
  <2>3. CASE pc' = "batch"
    <3>1. next' = Asked + 1
      BY <1>2, <2>2, <2>3 DEF GetUpdates
    <3>2. QED
      BY <2>1, <2>2, <2>3, <3>1 DEF InboxInv, InHand
  <2>4. CASE pc' = pc
    BY <2>1, <2>2, <2>4 DEF InboxInv, InHand
  <2>5. QED
    BY <1>2, <2>3, <2>4 DEF GetUpdates
<1>3. CASE GetUpdatesFails
  <2>1. Asked \in confirmed..Len(updates) /\ Asked >= offset
    BY AskedType
  <2>2. UNCHANGED <<updates, answered, offset, pc>> /\ confirmed' \in {confirmed, Asked}
        /\ pc = "poll"
    BY <1>3 DEF GetUpdatesFails, chat, bot
  <2>3. offset' = offset
    BY <2>2
  <2>4. \A u \in (confirmed' + 1)..offset' : u \in (confirmed + 1)..offset
    <3>1. CASE confirmed' = confirmed
      BY <2>3, <3>1
    <3>2. CASE confirmed' = Asked
      <4>1. \A u \in (Asked + 1)..offset : u \in (confirmed + 1)..offset
        BY <2>1
      <4>2. QED
        BY <2>3, <3>2, <4>1
    <3>3. QED
      BY <2>2, <3>1, <3>2
  <2>5. pc' \notin {"batch"} \cup InHand
    BY <2>2 DEF InHand
  <2>6. QED
    BY <2>2, <2>4, <2>5 DEF InboxInv, InHand
<1>4. CASE Skip
  <2>1. UNCHANGED <<updates, confirmed, answered, offset>> /\ pc' = "batch" /\ pc = "batch"
        /\ next' = next + 1 /\ ~IsCommand(updates[next])
    BY <1>4 DEF Skip, Advance, telegram, chat
  <2>2. \A u \in (confirmed + 1)..(next' - 1) : u \in (confirmed + 1)..(next - 1) \/ u = next
    BY <2>1
  <2>3. QED
    BY <2>1, <2>2 DEF InboxInv, InHand
<1>5. CASE Call \/ CallFails
  BY <1>5 DEF Call, CallFails, InboxInv, InHand, telegram, chat
<1>6. CASE Timeout
  BY <1>6 DEF Timeout, InboxInv, InHand, telegram, chat
<1>7. CASE Reply \/ Complain
  <2>1. /\ UNCHANGED <<updates, confirmed, offset>> /\ pc' = "batch" /\ pc \in InHand
        /\ next' = next + 1 /\ answered' = answered \cup {next}
    BY <1>7 DEF Reply, Complain, Tell, Advance, telegram, InHand
  <2>2. \A u \in (confirmed + 1)..(next' - 1) : u \in (confirmed + 1)..(next - 1) \/ u = next
    BY <2>1
  <2>3. QED
    BY <2>1, <2>2 DEF InboxInv, InHand
<1>8. CASE ReplyFails \/ ComplainFails
  <2>1. /\ UNCHANGED <<updates, confirmed, offset, next>> /\ pc' \in {"complain", "poll"}
        /\ pc \in InHand /\ answered \subseteq answered'
    BY <1>8 DEF ReplyFails, ComplainFails, Tell, chat, telegram, InHand
  <2>2. QED
    BY <2>1 DEF InboxInv, InHand
<1>9. CASE EndBatch
  <2>1. /\ UNCHANGED <<updates, confirmed, answered>> /\ pc = "batch" /\ pc' = "poll"
        /\ offset' = last /\ next = last + 1
    BY <1>9 DEF EndBatch, telegram, chat
  <2>2. QED
    BY <2>1 DEF InboxInv, InHand
<1>10. CASE BotRestarts
  BY <1>10 DEF BotRestarts, InboxInv, InHand, telegram, chat
<1>11. CASE EngineRestarts
  BY <1>11 DEF EngineRestarts, InboxInv, InHand, telegram, chat
<1>12. ASSUME NEW r \in requests, Apply(r) \/ Save(r) PROVE InboxInv'
  BY <1>12 DEF Apply, Save, InboxInv, InHand, telegram, chat, bot
<1>13. ASSUME NEW r \in requests, Finish(r) \/ WriteFails(r) PROVE InboxInv'
  <2>1. r.call = waiting => pc = "await"
    <3>1. r.call \in 1..calls
      BY RequestType
    <3>2. QED
      BY <3>1
  <2>2. pc' = pc \/ (pc \in InHand /\ pc' \in InHand)
    BY <1>13, <2>1 DEF Finish, WriteFails, AnswerCall, Awaited, InHand
  <2>3. UNCHANGED <<updates, confirmed, answered, offset, next>>
    BY <1>13 DEF Finish, WriteFails, AnswerCall, telegram, chat
  <2>4. QED
    BY <2>2, <2>3 DEF InboxInv, InHand
<1>14. CASE Start \/ ReconciliationPause \/ UNCHANGED vars
  BY <1>14 DEF Start, ReconciliationPause, vars, InboxInv, InHand, telegram, chat, bot
<1>15. QED
  BY <1>1, <1>2, <1>3, <1>4, <1>5, <1>6, <1>7, <1>8, <1>9, <1>10, <1>11, <1>12, <1>13,
     <1>14 DEF Next, Bot, Handle, Failures

\* Whatever is lost or restarted, Telegram's queue is confirmed in order, and no
\* command before its chat was answered.
THEOREM InboxRefined == Spec => ImplementsInbox
<1>1. Init => InboxInv
  BY DEF Init, InboxInv, InHand
<1>2. TypeInv /\ InboxInv /\ [Next]_vars => InboxInv'
  BY InboxInvStep
<1>3. TypeInv /\ InboxInv /\ [Next]_vars => [Inbox!Next]_(Inbox!vars)
  BY InboxStep
<1>4. QED
  BY <1>1, <1>2, <1>3, InboxInit, TypeInvariant, PTL
     DEF Spec, ImplementsInbox, Inbox!Spec
=============================================================================
