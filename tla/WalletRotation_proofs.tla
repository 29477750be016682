----------------------- MODULE WalletRotation_proofs -----------------------
(***************************************************************************)
(* Theorems about WalletRotation for any number of wallets, connections    *)
(* and suggestions, any scores and limits, and all bounds.                 *)
(***************************************************************************)
EXTENDS WalletRotation, FiniteSetTheorems, WellFoundedInduction, TLAPS

-----------------------------------------------------------------------------
(* The least of a set of numbers, which ids and victims are chosen by.     *)

LEMMA LeastExists ==
  ASSUME NEW S \in SUBSET Nat, S # {}
  PROVE  \E x \in S : \A y \in S : x <= y
<1>1. PICK x \in S : \A y \in S : <<y, x>> \notin OpToRel(<, Nat)
  BY NatLessThanWellFounded, WFMin
<1>2. ASSUME NEW y \in S PROVE x <= y
  <2>1. ~(y < x)
    BY <1>1 DEF OpToRel
  <2>2. QED
    BY <2>1
<1>3. QED
  BY <1>2

LEMMA MinIsLeast ==
  ASSUME NEW S \in SUBSET Nat, S # {}
  PROVE  Min(S) \in S /\ \A y \in S : Min(S) <= y
BY LeastExists DEF Min

LEMMA WeakestIsMember ==
  ASSUME NEW t, IsTable(t), NEW set \in SUBSET Wallets, set # {}
  PROVE  Weakest(t, set) \in set
<1> DEFINE worst == {w \in set : \A v \in set : ScoreIn(t, w) <= ScoreIn(t, v)}
           values == {ScoreIn(t, v) : v \in set}
<1>1. values \in SUBSET Nat /\ values # {}
  BY DEF ScoreIn, IsTable
<1>2. PICK least \in values : \A x \in values : least <= x
  BY <1>1, LeastExists
<1>3. PICK w \in set : least = ScoreIn(t, w)
  OBVIOUS
<1>4. w \in worst
  BY <1>2, <1>3
<1>5. worst \in SUBSET Nat /\ worst # {}
  BY <1>4, WalletAssumption
<1>6. Min(worst) \in worst
  BY <1>5, MinIsLeast
<1>7. QED
  BY <1>6 DEF Weakest
-----------------------------------------------------------------------------
(* Type correctness, with the places of the handlers.                      *)

Places == {"idle", "look", "choose", "evict", "track", "evictRow", "addRow", "dropRow",
           "approveRow", "rejectRow", "stamp"}

LEMMA NoScoresType == IsTable(NoScores)
BY DEF IsTable, NoScores

\* What handler c leaves alone.
Others(c) == \A d \in Conns \ {c} :
    /\ pc'[d] = pc[d] /\ target'[d] = target[d] /\ victim'[d] = victim[d]
    /\ suggestion'[d] = suggestion[d] /\ seen'[d] = seen[d]

HandlersType ==
    /\ pc \in [Conns -> Places] /\ victim \in [Conns -> Nat]
    /\ \A c \in Conns : pc[c] \in {"choose", "evict"} => seen[c] # {}
    /\ \A c \in Conns : pc[c] \in {"idle", "look", "choose"} => victim[c] = NoWallet
    /\ \A c \in Conns : pc[c] # "idle" => target[c] \in Wallets
    /\ target \in [Conns -> Wallets \cup {NoWallet}]
    /\ \A c \in Conns : victim[c] \in {NoWallet} \cup seen[c]
    /\ seen \in [Conns -> SUBSET Wallets]
    /\ suggestion \in [Conns -> Ids \cup {None}]

RotationType ==
    /\ loop \in {"idle", "decide", "save", "insert", "dead"}
    /\ tickAt \in Nat \cup {NoTime} /\ IsTable(table)
    /\ proposed \in [id : Ids \cup {None}, wallet : Wallets \cup {NoWallet}]
    /\ loop \in {"decide", "save", "insert"} => tickAt \in Nat
    /\ loop \in {"save", "insert"} => proposed.id \in Ids /\ proposed.wallet \in Wallets

DataType ==
    /\ tracked \in SUBSET Wallets /\ pending \in SUBSET Ids
    /\ lastRotation \in Nat \cup {NoTime} /\ lastCreated \in Nat \cup {NoTime}
    /\ allowlist \in SUBSET Wallets /\ IsTable(scores)
    /\ status \in [Ids -> {"none", "pending", "approved", "rejected"}]
    /\ walletOf \in [Ids -> Wallets \cup {NoWallet}]
    /\ takenBy \in [Ids -> SUBSET Conns] /\ clean \in BOOLEAN
    /\ now \in Nat /\ restarts \in Nat

\* A suggestion that anybody knows of has a row.
KnownIds ==
    /\ \A i \in Ids : status[i] # "none" => walletOf[i] \in Wallets
    /\ \A i \in pending : status[i] # "none"
    /\ \A c \in Conns : suggestion[c] \in Ids => status[suggestion[c]] # "none"
    /\ loop = "insert" => status[proposed.id] # "none"
    /\ loop = "decide" => FreshIds # {}

TypeInv == HandlersType /\ RotationType /\ DataType /\ KnownIds

LEMMA FinishType ==
  ASSUME HandlersType, NEW c \in Conns, Finish(c)
  PROVE  HandlersType' /\ pc'[c] = "idle" /\ suggestion'[c] = None /\ Others(c)
<1>1. /\ pc' \in [Conns -> Places] /\ victim' \in [Conns -> Nat]
      /\ target' \in [Conns -> Wallets \cup {NoWallet}]
      /\ seen' \in [Conns -> SUBSET Wallets]
      /\ suggestion' \in [Conns -> Ids \cup {None}]
  BY DEF Finish, GoTo, HandlersType, Places, NoWallet, None
<1>2. /\ Others(c) /\ pc'[c] = "idle" /\ victim'[c] = NoWallet
      /\ suggestion'[c] = None
  BY DEF Finish, GoTo, HandlersType, Others
<1>3. QED
  BY <1>1, <1>2 DEF HandlersType, Others

LEMMA GoToType ==
  ASSUME HandlersType, NEW c \in Conns, NEW step \in Places, GoTo(c, step)
  PROVE  pc' \in [Conns -> Places] /\ pc'[c] = step /\ \A d \in Conns \ {c} : pc'[d] = pc[d]
BY DEF GoTo, HandlersType

\* A handler that only goes on to another place.
LEMMA PassType ==
  ASSUME HandlersType, NEW c \in Conns,
         NEW step \in Places \ {"idle", "look", "choose", "evict"}, GoTo(c, step),
         pc[c] # "idle",
         UNCHANGED <<target, victim, suggestion, seen>>
  PROVE  HandlersType' /\ pc'[c] = step /\ Others(c)
BY GoToType DEF HandlersType, Others

\* Statuses that change never become or cease to be "none".
LEMMA StatusSteps ==
  ASSUME TypeInv, NEW c \in Conns, NEW step,
         NEW decision \in {"approved", "rejected"}, Decide(c, step, decision)
  PROVE  /\ status' \in [Ids -> {"none", "pending", "approved", "rejected"}]
         /\ \A i \in Ids : status'[i] = "none" <=> status[i] = "none"
<1>1. status' = [status EXCEPT ![suggestion[c]] = decision]
  BY DEF Decide
<1>2. suggestion[c] \in Ids => status[suggestion[c]] # "none"
  BY DEF TypeInv, KnownIds
<1>3. status \in [Ids -> {"none", "pending", "approved", "rejected"}]
  BY DEF TypeInv, DataType
<1>4. QED
  BY <1>1, <1>2, <1>3

LEMMA HandleType ==
  ASSUME TypeInv, NEW c \in Conns, Handle(c)
  PROVE  /\ HandlersType' /\ Others(c) /\ DataType'
         /\ \A i \in Ids : status'[i] = "none" <=> status[i] = "none"
         /\ UNCHANGED <<pending, rotation>>
         /\ suggestion'[c] \in {suggestion[c], None} /\ walletOf' = walletOf
<1> USE DEF TypeInv
<1>1. CASE Look(c)
  <2>1. CASE Cardinality(tracked) < MaxActiveWallets
    <3>1. GoTo(c, "track") /\ UNCHANGED <<target, victim, suggestion, seen>>
      BY <1>1, <2>1 DEF Look
    <3>2. QED
      BY <1>1, <3>1, PassType DEF Look, memory, database, bounds, history, DataType, Places
  <2>2. CASE ~(Cardinality(tracked) < MaxActiveWallets)
    <3>1. tracked # {}
      BY <2>2, FS_EmptySet, RotationAssumption
    <3>2. GoTo(c, "choose") /\ UNCHANGED <<target, victim, suggestion>>
          /\ seen' = [seen EXCEPT ![c] = tracked]
      BY <1>1, <2>2 DEF Look
    <3>3. victim[c] = NoWallet
      BY <1>1 DEF Look, HandlersType
    <3>4. QED
      BY <1>1, <3>1, <3>2, GoToType
      DEF Look, memory, database, bounds, history, DataType, HandlersType, Others, Places
  <2>3. QED
    BY <2>1, <2>2
<1>2. CASE Choose(c)
  <2>1. PICK t \in {scores, NoScores} : victim' = [victim EXCEPT ![c] = Weakest(t, seen[c])]
    BY <1>2 DEF Choose
  <2>2. Weakest(t, seen[c]) \in seen[c] /\ seen[c] \in SUBSET Wallets
    BY <1>2, NoScoresType, WeakestIsMember DEF Choose, HandlersType, DataType
  <2>3. Weakest(t, seen[c]) \in Nat
    BY <2>2, WalletAssumption
  <2>4. GoTo(c, "evict") /\ UNCHANGED <<target, suggestion, seen>>
    BY <1>2 DEF Choose
  <2>5. seen[c] # {}
    BY <2>2
  <2>6. QED
    BY <1>2, <2>1, <2>2, <2>3, <2>4, <2>5, GoToType
    DEF Choose, memory, database, bounds, history, DataType, HandlersType, Others, Places
<1>3. CASE Evict(c)
  BY <1>3, PassType DEF Evict, database, bounds, history, DataType, Places
<1>4. CASE Track(c)
  <2>1. tracked' \in SUBSET Wallets
    BY <1>4 DEF Track, DataType, HandlersType
  <2>2. PICK step \in {"addRow", "evictRow"} : GoTo(c, step)
    BY <1>4 DEF Track
  <2>3. HandlersType' /\ Others(c)
    BY <1>4, <2>2, PassType DEF Track, Places
  <2>4. QED
    BY <1>4, <2>1, <2>3 DEF Track, database, bounds, history, DataType
<1>5. CASE EvictRow(c)
  BY <1>5, PassType DEF EvictRow, memory, bounds, history, DataType, Places
<1>6. CASE AddRow(c)
  <2>1. allowlist' \in SUBSET Wallets
    BY <1>6 DEF AddRow, DataType, HandlersType
  <2>2. HandlersType' /\ Others(c) /\ suggestion'[c] \in {suggestion[c], None}
    BY <1>6, PassType, FinishType DEF AddRow, Places
  <2>3. QED
    BY <1>6, <2>1, <2>2 DEF AddRow, memory, bounds, history, DataType
<1>7. CASE DropRow(c)
  <2>1. HandlersType' /\ Others(c) /\ suggestion'[c] = None
    BY <1>7, FinishType DEF DropRow
  <2>2. QED
    BY <1>7, <2>1 DEF DropRow, memory, bounds, history, DataType
<1>8. CASE ApproveRow(c)
  <2>1. HandlersType' /\ Others(c) /\ suggestion' = suggestion
    BY <1>8, PassType DEF ApproveRow, Decide, Places
  <2>2. QED
    BY <1>8, <2>1, StatusSteps DEF ApproveRow, Decide, memory, bounds, history, DataType
<1>9. CASE Stamp(c)
  <2>1. HandlersType' /\ Others(c) /\ suggestion'[c] = None
    BY <1>9, FinishType DEF Stamp
  <2>2. QED
    BY <1>9, <2>1 DEF Stamp, database, bounds, history, DataType
<1>10. CASE RejectRow(c)
  <2>1. HandlersType' /\ Others(c) /\ suggestion'[c] = None
    BY <1>10, FinishType DEF RejectRow
  <2>2. QED
    BY <1>10, <2>1, StatusSteps DEF RejectRow, Decide, memory, bounds, history, DataType
<1>11. QED
  BY <1>1, <1>2, <1>3, <1>4, <1>5, <1>6, <1>7, <1>8, <1>9, <1>10 DEF Handle

LEMMA WriteFailsType ==
  ASSUME TypeInv, NEW c \in Conns, WriteFails(c)
  PROVE  /\ HandlersType' /\ Others(c) /\ DataType' /\ status' = status
         /\ UNCHANGED <<pending, rotation, walletOf>>
         /\ suggestion'[c] = None /\ pc'[c] = "idle"
<1>1. HandlersType' /\ Others(c) /\ suggestion'[c] = None /\ pc'[c] = "idle"
  BY FinishType DEF WriteFails, TypeInv
<1>2. QED
  BY <1>1 DEF WriteFails, memory, database, DataType, TypeInv

\* A command takes a handler from its idle place to its first.
LEMMA ReceiveType ==
  ASSUME HandlersType, NEW c \in Conns, Command(c), NEW w \in Wallets,
         NEW i \in Ids \cup {None}, NEW step \in Places \ {"choose", "evict"},
         GoTo(c, step), target' = [target EXCEPT ![c] = w],
         suggestion' = [suggestion EXCEPT ![c] = i]
  PROVE  HandlersType' /\ pc'[c] = step /\ suggestion'[c] = i /\ Others(c)
<1>1. victim' = victim /\ seen' = seen /\ pc[c] = "idle"
  BY DEF Command
<1>2. victim[c] = NoWallet
  BY <1>1 DEF HandlersType
<1>3. QED
  BY <1>1, <1>2, GoToType DEF HandlersType, Others

LEMMA WalletCommandType ==
  ASSUME TypeInv, NEW c \in Conns, NEW w \in Wallets, AddWallet(c, w) \/ RemoveWallet(c, w)
  PROVE  /\ HandlersType' /\ Others(c) /\ DataType' /\ status' = status
         /\ UNCHANGED <<pending, rotation, walletOf, suggestion>>
         /\ pc[c] = "idle" /\ pc'[c] \in {"addRow", "dropRow"}
<1>1. /\ Command(c) /\ target' = [target EXCEPT ![c] = w] /\ suggestion' = suggestion
      /\ pending' = pending /\ takenBy' = takenBy /\ tracked' \in SUBSET Wallets
  BY DEF AddWallet, RemoveWallet, TypeInv, DataType
<1>2. PICK step \in {"addRow", "dropRow"} : GoTo(c, step)
  BY DEF AddWallet, RemoveWallet
<1>3. /\ suggestion' = [suggestion EXCEPT ![c] = suggestion[c]]
      /\ suggestion[c] \in Ids \cup {None}
  BY <1>1 DEF TypeInv, HandlersType
<1>4. HandlersType' /\ Others(c) /\ pc'[c] = step
  BY <1>1, <1>2, <1>3, ReceiveType DEF TypeInv, Places
<1>5. DataType'
  BY <1>1 DEF Command, database, TypeInv, DataType
<1>6. QED
  BY <1>1, <1>2, <1>4, <1>5 DEF Command, database

LEMMA TakeType ==
  ASSUME TypeInv, NEW c \in Conns, NEW i \in Ids, Ack(c, i) \/ Reject(c, i)
  PROVE  /\ HandlersType' /\ Others(c) /\ DataType' /\ status' = status
         /\ UNCHANGED <<tracked, rotation, walletOf>>
         /\ pc[c] = "idle" /\ pc'[c] \in {"look", "rejectRow"} /\ suggestion'[c] = i
         /\ i \in pending /\ pending' = pending \ {i}
         /\ takenBy' = [takenBy EXCEPT ![i] = @ \cup {c}]
<1>1. PICK step \in {"look", "rejectRow"} : Take(c, i, step)
  BY DEF Ack, Reject
<1>2. /\ Command(c) /\ i \in pending /\ pending' = pending \ {i} /\ tracked' = tracked
      /\ suggestion' = [suggestion EXCEPT ![c] = i]
      /\ target' = [target EXCEPT ![c] = walletOf[i]]
      /\ takenBy' = [takenBy EXCEPT ![i] = @ \cup {c}] /\ GoTo(c, step)
  BY <1>1 DEF Take
<1>3. walletOf[i] \in Wallets
  BY <1>2 DEF TypeInv, KnownIds
<1>4. HandlersType' /\ Others(c) /\ pc'[c] = step /\ suggestion'[c] = i
  BY <1>2, <1>3, ReceiveType DEF TypeInv, Places
<1>5. DataType'
  BY <1>2 DEF Command, database, TypeInv, DataType
<1>6. QED
  BY <1>2, <1>4, <1>5 DEF Command, database

-----------------------------------------------------------------------------
(* The loop, the clock and the restart.                                    *)

\* upsert_wallet_scores keeps a score for each wallet.
LEMMA ScoresType ==
  ASSUME NEW t, IsTable(t), NEW u, IsTable(u)
  PROVE  IsTable(Upserted(t, u))
BY DEF IsTable, Upserted

LEMMA FreshIsId ==
  FreshIds # {} => Min(FreshIds) \in FreshIds
<1>1. FreshIds \in SUBSET Nat
  BY RotationAssumption DEF FreshIds, Ids
<1>2. QED
  BY <1>1, MinIsLeast

LEMMA RotateType ==
  ASSUME TypeInv, Rotate
  PROVE  TypeInv'
<1> USE DEF TypeInv
<1>0. /\ HandlersType' /\ UNCHANGED <<pc, target, victim, suggestion, seen, now, tracked,
                                      allowlist, takenBy, clean>>
  BY DEF Rotate, Score, Propose, ProposeNothing, SaveSuggestion, InsertSuggestion,
         RotationDies, memory, database, handlers, history, HandlersType
<1>1. CASE \E t \in ScoreTables : Score(t)
  <2>1. PICK t \in ScoreTables : Score(t)
    BY <1>1
  <2>2. IsTable(t) /\ IsTable(Upserted(t, scores))
    BY ScoresType, WalletAssumption DEF DataType
  <2>3. QED
    BY <1>0, <2>1, <2>2
    DEF Score, memory, bounds, history, RotationType, DataType, KnownIds, FreshIds
<1>2. CASE \E w \in Wallets : Propose(w)
  <2>1. PICK w \in Wallets : Propose(w)
    BY <1>2
  <2>2. /\ loop' = "save" /\ proposed' = [id |-> Min(FreshIds), wallet |-> w]
        /\ tickAt \in Nat /\ FreshIds # {}
        /\ UNCHANGED <<memory, database, tickAt, table, bounds, history>>
    BY <2>1 DEF Propose, RotationType, KnownIds
  <2>3. Min(FreshIds) \in Ids
    BY <2>2, FreshIsId DEF FreshIds
  <2>4. QED
    BY <1>0, <2>2, <2>3 DEF memory, database, bounds, history, RotationType, DataType, KnownIds
<1>3. CASE ProposeNothing
  BY <1>0, <1>3, NoScoresType
  DEF ProposeNothing, memory, database, bounds, history, RotationType, DataType, KnownIds
<1>4. CASE SaveSuggestion
  <2>1. /\ status' \in [Ids -> {"none", "pending", "approved", "rejected"}]
        /\ walletOf' \in [Ids -> Wallets \cup {NoWallet}]
        /\ walletOf'[proposed.id] \in Wallets /\ status'[proposed.id] = "pending"
        /\ \A i \in Ids \ {proposed.id} : status'[i] = status[i] /\ walletOf'[i] = walletOf[i]
    BY <1>4 DEF SaveSuggestion, DataType, RotationType
  <2>2. QED
    BY <1>0, <1>4, <2>1
    DEF SaveSuggestion, memory, bounds, history, RotationType, DataType, KnownIds, HandlersType
<1>5. CASE InsertSuggestion
  <2>1. proposed.id \in Ids /\ status[proposed.id] # "none" /\ tickAt \in Nat
    BY <1>5 DEF InsertSuggestion, RotationType, KnownIds
  <2>2. QED
    BY <1>0, <1>5, <2>1, NoScoresType
    DEF InsertSuggestion, database, bounds, RotationType, DataType, KnownIds, NoProposal
<1>6. CASE RotationDies
  BY <1>0, <1>6, NoScoresType
  DEF RotationDies, memory, database, history, RotationType, DataType, KnownIds, NoProposal
<1>7. QED
  BY <1>1, <1>2, <1>3, <1>4, <1>5, <1>6 DEF Rotate

LEMMA RestartType ==
  ASSUME TypeInv, Restart
  PROVE  TypeInv'
<1>1. HandlersType'
  BY DEF Restart, HandlersType, All, Places, NoWallet, None
<1>2. QED
  BY <1>1, NoScoresType
  DEF Restart, database, TypeInv, RotationType, DataType, KnownIds, NoProposal, All, None, Ids

LEMMA TypeInit == Init => TypeInv
<1> SUFFICES ASSUME Init PROVE TypeInv
  OBVIOUS
<1>1. HandlersType
  BY DEF Init, HandlersType, All, Places, NoWallet, None
<1>2. QED
  BY <1>1, NoScoresType
  DEF Init, TypeInv, RotationType, DataType, KnownIds, NoProposal, All, None, Ids

\* Suggestions keep their rows when a handler changes no row but a status.
LEMMA HandlerKeepsType ==
  ASSUME TypeInv, NEW c \in Conns, HandlersType', Others(c), DataType',
         \A i \in Ids : status'[i] = "none" <=> status[i] = "none",
         pending' \subseteq pending, UNCHANGED <<rotation, walletOf>>,
         suggestion'[c] \in {suggestion[c], None} \cup pending
  PROVE  TypeInv'
<1>1. RotationType'
  BY DEF TypeInv, RotationType, rotation
<1>2. FreshIds' = FreshIds
  BY DEF FreshIds
<1>3. ASSUME NEW d \in Conns, suggestion'[d] \in Ids PROVE status'[suggestion'[d]] # "none"
  BY <1>3 DEF TypeInv, KnownIds, Others, DataType, None, Ids
<1>4. KnownIds'
  BY <1>1, <1>2, <1>3 DEF TypeInv, KnownIds, DataType, RotationType, rotation
<1>5. QED
  BY <1>1, <1>4 DEF TypeInv

LEMMA TypeStep == TypeInv /\ [Next]_vars => TypeInv'
<1> SUFFICES ASSUME TypeInv, [Next]_vars PROVE TypeInv'
  OBVIOUS
<1>1. CASE Rotate
  BY <1>1, RotateType
<1>2. CASE Tick
  BY <1>2 DEF Tick, memory, database, rotation, handlers, bounds, history, TypeInv,
              HandlersType, RotationType, DataType, KnownIds, FreshIds
<1>3. CASE Restart
  BY <1>3, RestartType
<1>4. ASSUME NEW c \in Conns, Handle(c) PROVE TypeInv'
  BY <1>4, HandleType, HandlerKeepsType
<1>5. ASSUME NEW c \in Conns, WriteFails(c) PROVE TypeInv'
  BY <1>5, WriteFailsType, HandlerKeepsType
<1>6. ASSUME NEW c \in Conns, NEW w \in Wallets, AddWallet(c, w) \/ RemoveWallet(c, w)
      PROVE  TypeInv'
  BY <1>6, WalletCommandType, HandlerKeepsType
<1>7. ASSUME NEW c \in Conns, NEW i \in Ids, Ack(c, i) \/ Reject(c, i) PROVE TypeInv'
  BY <1>7, TakeType, HandlerKeepsType
<1>8. CASE UNCHANGED vars
  BY <1>8 DEF vars, memory, database, rotation, handlers, bounds, history, TypeInv,
              HandlersType, RotationType, DataType, KnownIds, FreshIds
<1>9. QED
  BY <1>1, <1>2, <1>3, <1>4, <1>5, <1>6, <1>7, <1>8 DEF Next

LEMMA TypeAlways == Spec => []TypeInv
BY TypeInit, TypeStep, PTL DEF Spec

\* The types of the wallets, the suggestions, their rows and the handlers, for
\* which a suggestion must have a row before anybody takes it.
THEOREM TypeCorrect == Spec => []TypeOK
<1>1. TypeInv => TypeOK
  BY DEF TypeInv, HandlersType, RotationType, DataType, TypeOK
<1>2. QED
  BY <1>1, TypeAlways, PTL

-----------------------------------------------------------------------------
(* Suggestions: decided once, one pending at a time.                       *)

Undecided(i) == i \notin pending /\ takenBy[i] = {}

\* What the loop is about to insert nobody has seen; what is pending nobody has
\* taken.
DecisionInv ==
    /\ TypeInv
    /\ \A i \in Ids : takenBy[i] = {} \/ \E c \in Conns : takenBy[i] = {c}
    /\ \A i \in pending : takenBy[i] = {}
    /\ \A i \in FreshIds : Undecided(i)
    /\ loop = "insert" => Undecided(proposed.id)
    /\ loop = "save" => proposed.id \in FreshIds
    /\ loop \in {"save", "insert"} => pending = {}

LEMMA DecisionInit == Init => DecisionInv
BY TypeInit DEF Init, DecisionInv, Undecided, FreshIds

LEMMA DecisionKept ==
  ASSUME DecisionInv, TypeInv', pending' \subseteq pending, FreshIds' = FreshIds,
         UNCHANGED <<loop, proposed, takenBy>>
  PROVE  DecisionInv'
BY DEF DecisionInv, Undecided

LEMMA RotateDecides ==
  ASSUME DecisionInv, TypeInv', Rotate
  PROVE  DecisionInv'
<1>0. takenBy' = takenBy
  BY DEF Rotate, Score, Propose, ProposeNothing, SaveSuggestion, InsertSuggestion,
         RotationDies, history
<1>1. CASE \E t \in ScoreTables : Score(t)
  BY <1>0, <1>1 DEF Score, memory, DecisionInv, Undecided, FreshIds
<1>2. CASE \E w \in Wallets : Propose(w)
  <2>1. PICK w \in Wallets : Propose(w)
    BY <1>2
  <2>2. /\ loop = "decide" /\ loop' = "save" /\ pending = {} /\ pending' = pending
        /\ proposed'.id = Min(FreshIds) /\ FreshIds' = FreshIds
    BY <2>1 DEF Propose, Suggests, memory, database, FreshIds
  <2>3. proposed'.id \in FreshIds
    BY <2>2, FreshIsId DEF DecisionInv, TypeInv, KnownIds
  <2>4. QED
    BY <1>0, <2>2, <2>3 DEF DecisionInv, Undecided
<1>3. CASE ProposeNothing
  BY <1>0, <1>3 DEF ProposeNothing, memory, database, DecisionInv, Undecided, FreshIds
<1>4. CASE SaveSuggestion
  <2>1. /\ loop = "save" /\ loop' = "insert" /\ proposed' = proposed /\ pending' = pending
        /\ status' = [status EXCEPT ![proposed.id] = "pending"]
    BY <1>4 DEF SaveSuggestion, memory
  <2>2. FreshIds' \subseteq FreshIds
    BY <2>1 DEF FreshIds, DecisionInv, TypeInv, DataType
  <2>3. QED
    BY <1>0, <2>1, <2>2 DEF DecisionInv, Undecided
<1>5. CASE InsertSuggestion
  <2>1. /\ loop = "insert" /\ loop' = "idle" /\ status' = status
        /\ pending' = pending \cup {proposed.id}
    BY <1>5 DEF InsertSuggestion, database
  <2>2. proposed.id \notin FreshIds /\ FreshIds' = FreshIds
    BY <2>1 DEF FreshIds, DecisionInv, TypeInv, KnownIds
  <2>3. QED
    BY <1>0, <2>1, <2>2 DEF DecisionInv, Undecided
<1>6. CASE RotationDies
  BY <1>0, <1>6 DEF RotationDies, memory, database, DecisionInv, Undecided, FreshIds
<1>7. QED
  BY <1>1, <1>2, <1>3, <1>4, <1>5, <1>6 DEF Rotate

LEMMA DecisionStep == DecisionInv /\ [Next]_vars => DecisionInv'
<1> SUFFICES ASSUME DecisionInv, [Next]_vars PROVE DecisionInv'
  OBVIOUS
<1>0. TypeInv /\ TypeInv'
  BY TypeStep DEF DecisionInv
<1>1. CASE Rotate
  BY <1>0, <1>1, RotateDecides
<1>2. CASE Tick
  BY <1>0, <1>2, DecisionKept DEF Tick, memory, database, rotation, history, FreshIds
<1>3. CASE Restart
  BY <1>0, <1>3 DEF Restart, database, DecisionInv, Undecided, FreshIds
<1>4. ASSUME NEW c \in Conns, Handle(c) PROVE DecisionInv'
  <2>1. takenBy' = takenBy
    BY <1>4 DEF Handle, Look, Choose, Evict, Track, EvictRow, AddRow, DropRow, ApproveRow,
                RejectRow, Stamp, Decide, history
  <2>2. FreshIds' = FreshIds /\ pending' = pending /\ loop' = loop /\ proposed' = proposed
    BY <1>0, <1>4, HandleType DEF FreshIds, rotation
  <2>3. QED
    BY <1>0, <2>1, <2>2, DecisionKept
<1>5. ASSUME NEW c \in Conns, WriteFails(c) PROVE DecisionInv'
  <2>1. takenBy' = takenBy
    BY <1>5 DEF WriteFails
  <2>2. FreshIds' = FreshIds /\ pending' = pending /\ loop' = loop /\ proposed' = proposed
    BY <1>0, <1>5, WriteFailsType DEF FreshIds, rotation
  <2>3. QED
    BY <1>0, <2>1, <2>2, DecisionKept
<1>6. ASSUME NEW c \in Conns, NEW w \in Wallets, AddWallet(c, w) \/ RemoveWallet(c, w)
      PROVE  DecisionInv'
  <2>1. takenBy' = takenBy
    BY <1>6 DEF AddWallet, RemoveWallet
  <2>2. FreshIds' = FreshIds /\ pending' = pending /\ loop' = loop /\ proposed' = proposed
    BY <1>0, <1>6, WalletCommandType DEF FreshIds, rotation
  <2>3. QED
    BY <1>0, <2>1, <2>2, DecisionKept
<1>7. ASSUME NEW c \in Conns, NEW i \in Ids, Ack(c, i) \/ Reject(c, i) PROVE DecisionInv'
  <2>1. /\ FreshIds' = FreshIds /\ loop' = loop /\ proposed' = proposed
        /\ i \in pending /\ pending' = pending \ {i}
        /\ takenBy' = [takenBy EXCEPT ![i] = @ \cup {c}]
    BY <1>0, <1>7, TakeType DEF FreshIds, rotation
  <2>2. /\ takenBy'[i] = {c} /\ i \notin FreshIds
        /\ \A j \in Ids \ {i} : takenBy'[j] = takenBy[j]
    BY <2>1 DEF DecisionInv, TypeInv, DataType, KnownIds, FreshIds
  <2>3. QED
    BY <1>0, <2>1, <2>2 DEF DecisionInv, Undecided, FreshIds, TypeInv, RotationType
<1>8. CASE UNCHANGED vars
  BY <1>0, <1>8, DecisionKept DEF vars, memory, database, rotation, history, FreshIds
<1>9. QED
  BY <1>1, <1>2, <1>3, <1>4, <1>5, <1>6, <1>7, <1>8 DEF Next

LEMMA DecisionAlways == Spec => []DecisionInv
BY DecisionInit, DecisionStep, PTL DEF Spec

\* Each suggestion is decided by at most one command: it leaves the pending ones
\* under the lock, and cannot come back in this process.
THEOREM EachDecidedOnce == Spec => []DecidedOnce
<1>1. DecisionInv => DecidedOnce
  <2> SUFFICES ASSUME DecisionInv, NEW i \in Ids PROVE Cardinality(takenBy[i]) <= 1
    BY DEF DecidedOnce
  <2>1. CASE takenBy[i] = {}
    BY <2>1, FS_EmptySet
  <2>2. CASE \E c \in Conns : takenBy[i] = {c}
    BY <2>2, FS_Singleton
  <2>3. QED
    BY <2>1, <2>2 DEF DecisionInv
<1>2. QED
  BY <1>1, DecisionAlways, PTL

\* Pending suggestions only ever grow at the loop's insertion, or by a restart.
LEMMA GrowsByInsertion ==
  ASSUME DecisionInv, [Next]_vars, ~(pending' \subseteq pending), restarts' = restarts
  PROVE  InsertSuggestion
<1>1. TypeInv
  BY DEF DecisionInv
<1>2. CASE Rotate
  BY <1>2 DEF Rotate, Score, Propose, ProposeNothing, SaveSuggestion, RotationDies, memory
<1>3. CASE Restart
  <2>1. FALSE
    BY <1>1, <1>3 DEF Restart, TypeInv, DataType
  <2>2. QED
    BY <2>1
<1>4. QED
  BY <1>1, <1>2, <1>3, HandleType, WriteFailsType, WalletCommandType, TakeType
  DEF Next, Tick, memory, vars

\* While the loop writes a suggestion's row, nobody else makes one pending.
THEOREM OnePending == Spec => OnePendingAtATime
<1>1. DecisionInv /\ [Next]_vars
      => [pending' \subseteq pending \/ pending = {} \/ restarts' # restarts]_vars
  BY GrowsByInsertion DEF InsertSuggestion, DecisionInv
<1>2. QED
  BY <1>1, DecisionAlways, PTL DEF Spec, OnePendingAtATime

-----------------------------------------------------------------------------
(* Suggestions and their rows.                                             *)

\* Who decides a suggestion is known, and holds it until its row is written.
HeldInv ==
    /\ \A c \in Conns : suggestion[c] \in Ids => c \in takenBy[suggestion[c]]
    /\ \A c \in Conns : pc[c] \in {"idle", "dropRow"} => suggestion[c] = None
    /\ \A c \in Conns : pc[c] \in {"approveRow", "rejectRow", "stamp"} =>
                            suggestion[c] \in Ids
    /\ \A c \in Conns : pc[c] = "stamp" => status[suggestion[c]] # "pending"

\* What is offered would be offered again after a restart; and what a restart would
\* offer is offered, about to be, or being decided, unless a write was lost.
SuggestionsMatchRows ==
    /\ \A i \in pending : status[i] = "pending"
    /\ dbErrors = 0 =>
          \A i \in Ids \ pending : status[i] = "pending" =>
              \/ loop = "insert" /\ proposed.id = i
              \/ \E c \in Conns : suggestion[c] = i

RowInv ==
    /\ HeldInv /\ SuggestionsMatchRows /\ dbErrors \in Nat
    /\ loop = "insert" => status[proposed.id] = "pending"

\* A handler that holds i, or None, writes no row but that of i, and lets go of it only
\* once the row says what was decided.
RowsFollow(c, i) ==
    /\ \A j \in Ids \ {i} : status'[j] = status[j]
    /\ i \in Ids => status'[i] = status[i] \/ status'[i] # "pending"
    /\ \/ suggestion'[c] = i
       \/ suggestion'[c] = None /\ (i \in Ids => status'[i] # "pending")
    /\ pc'[c] = "stamp" => status'[i] # "pending"
    /\ pc'[c] \in {"idle", "dropRow"} => suggestion'[c] = None
    /\ pc'[c] \in {"approveRow", "rejectRow", "stamp"} => i \in Ids /\ suggestion'[c] = i

LEMMA HandleRows ==
  ASSUME TypeInv, HeldInv, NEW c \in Conns, Handle(c)
  PROVE  RowsFollow(c, suggestion[c])
<1> DEFINE i == suggestion[c]
<1>0. /\ i \in Ids \cup {None} /\ None \notin Ids /\ i = suggestion[c]
      /\ pc \in [Conns -> Places] /\ suggestion \in [Conns -> Ids \cup {None}]
      /\ status \in [Ids -> {"none", "pending", "approved", "rejected"}]
  BY DEF TypeInv, HandlersType, DataType, None, Ids
<1> SUFFICES RowsFollow(c, i)
  OBVIOUS
<1> HIDE DEF i
<1> USE DEF RowsFollow
<1>1. CASE Look(c) \/ Choose(c) \/ Evict(c) \/ Track(c) \/ EvictRow(c)
  <2>1. status' = status /\ suggestion' = suggestion
    BY <1>1 DEF Look, Choose, Evict, Track, EvictRow, database
  <2>2. pc'[c] \in {"track", "choose", "evict", "addRow", "evictRow"}
    BY <1>0, <1>1 DEF Look, Choose, Evict, Track, EvictRow, GoTo
  <2>3. QED
    BY <1>0, <2>1, <2>2
<1>2. CASE AddRow(c)
  <2>1. status' = status
    BY <1>2 DEF AddRow
  <2>2. CASE i = None
    <3>1. pc'[c] = "idle" /\ suggestion'[c] = None
      BY <1>0, <1>2, <2>2 DEF AddRow, Finish, GoTo
    <3>2. QED
      BY <1>0, <2>1, <2>2, <3>1
  <2>3. CASE i # None
    <3>1. pc'[c] = "approveRow" /\ suggestion' = suggestion
      BY <1>0, <1>2, <2>3 DEF AddRow, GoTo
    <3>2. QED
      BY <1>0, <2>1, <2>3, <3>1
  <2>4. QED
    BY <2>2, <2>3
<1>3. CASE DropRow(c) \/ Stamp(c)
  <2>1. status' = status /\ pc'[c] = "idle" /\ suggestion'[c] = None
    BY <1>0, <1>3 DEF DropRow, Stamp, Finish, GoTo, database
  <2>2. i \in Ids => status[i] # "pending"
    BY <1>0, <1>3 DEF DropRow, Stamp, HeldInv
  <2>3. QED
    BY <1>0, <2>1, <2>2
<1>4. CASE ApproveRow(c)
  <2>1. /\ status' = [status EXCEPT ![i] = "approved"] /\ pc'[c] = "stamp"
        /\ suggestion' = suggestion /\ pc[c] = "approveRow"
    BY <1>0, <1>4 DEF ApproveRow, Decide, GoTo
  <2>2. i \in Ids
    BY <1>0, <2>1 DEF HeldInv
  <2>3. QED
    BY <1>0, <2>1, <2>2
<1>5. CASE RejectRow(c)
  <2>1. /\ status' = [status EXCEPT ![i] = "rejected"] /\ pc'[c] = "idle"
        /\ suggestion'[c] = None /\ pc[c] = "rejectRow"
    BY <1>0, <1>5 DEF RejectRow, Decide, Finish, GoTo
  <2>2. i \in Ids
    BY <1>0, <2>1 DEF HeldInv
  <2>3. QED
    BY <1>0, <2>1, <2>2
<1>6. QED
  BY <1>1, <1>2, <1>3, <1>4, <1>5 DEF Handle

\* Whoever holds a suggestion is the only one, and it is neither pending nor about to be.
LEMMA HeldByOne ==
  ASSUME DecisionInv, HeldInv, NEW c \in Conns, suggestion[c] \in Ids
  PROVE  /\ suggestion[c] \notin pending
         /\ loop = "insert" => proposed.id # suggestion[c]
         /\ \A d \in Conns : suggestion[d] = suggestion[c] => d = c
<1>1. c \in takenBy[suggestion[c]]
  BY DEF HeldInv
<1>2. \A d \in Conns : suggestion[d] = suggestion[c] => d \in takenBy[suggestion[c]]
  BY DEF HeldInv
<1>3. PICK d \in Conns : takenBy[suggestion[c]] = {d}
  BY <1>1 DEF DecisionInv
<1>4. QED
  BY <1>1, <1>2, <1>3 DEF DecisionInv, Undecided

LEMMA RotateKeepsRows ==
  ASSUME DecisionInv, RowInv, Rotate
  PROVE  RowInv'
<1>1. /\ UNCHANGED <<pc, suggestion, takenBy>>
      /\ status \in [Ids -> {"none", "pending", "approved", "rejected"}]
  BY DEF Rotate, Score, Propose, ProposeNothing, SaveSuggestion, InsertSuggestion,
         RotationDies, handlers, history, DecisionInv, TypeInv, DataType
<1>2. CASE (\E t \in ScoreTables : Score(t)) \/ (\E w \in Wallets : Propose(w))
           \/ ProposeNothing
  <2>1. UNCHANGED <<pending, status, dbErrors>> /\ loop # "insert" /\ loop' # "insert"
    BY <1>2 DEF Score, Propose, ProposeNothing, memory, database, bounds
  <2>2. QED
    BY <1>1, <2>1 DEF RowInv, HeldInv, SuggestionsMatchRows
<1>3. CASE RotationDies
  <2>1. UNCHANGED <<pending, status>> /\ loop' # "insert"
        /\ dbErrors' \in Nat /\ dbErrors' # 0
    BY <1>3 DEF RotationDies, memory, database, RowInv
  <2>2. QED
    BY <1>1, <2>1 DEF RowInv, HeldInv, SuggestionsMatchRows
<1>4. CASE SaveSuggestion
  <2>1. /\ loop = "save" /\ loop' = "insert" /\ proposed' = proposed
        /\ UNCHANGED <<pending, dbErrors>>
        /\ status' = [status EXCEPT ![proposed.id] = "pending"]
    BY <1>4 DEF SaveSuggestion, memory, bounds
  <2>2. proposed.id \in Ids /\ status[proposed.id] = "none"
    BY <2>1 DEF DecisionInv, FreshIds
  <2>3. \A c \in Conns : suggestion[c] \in Ids => suggestion[c] # proposed.id
    BY <2>2 DEF DecisionInv, TypeInv, KnownIds
  <2>4. HeldInv'
    BY <1>1, <2>1, <2>3 DEF RowInv, HeldInv
  <2>5. SuggestionsMatchRows'
    BY <1>1, <2>1, <2>2 DEF RowInv, SuggestionsMatchRows
  <2>6. QED
    BY <1>1, <2>1, <2>2, <2>4, <2>5 DEF RowInv
<1>5. CASE InsertSuggestion
  <2>1. /\ loop = "insert" /\ loop' = "idle" /\ UNCHANGED <<status, dbErrors>>
        /\ pending' = pending \cup {proposed.id}
    BY <1>5 DEF InsertSuggestion, database, bounds
  <2>2. QED
    BY <1>1, <2>1 DEF RowInv, HeldInv, SuggestionsMatchRows
<1>6. QED
  BY <1>2, <1>3, <1>4, <1>5 DEF Rotate

LEMMA HandleKeepsRows ==
  ASSUME DecisionInv, RowInv, NEW c \in Conns, Handle(c)
  PROVE  RowInv'
<1> DEFINE i == suggestion[c]
<1>0. TypeInv /\ HeldInv /\ None \notin Ids
  BY DEF DecisionInv, RowInv, None, Ids
<1>1. Others(c) /\ UNCHANGED <<pending, loop, proposed, takenBy, dbErrors>>
  BY <1>0, HandleType DEF rotation, Handle, Look, Choose, Evict, Track, EvictRow, AddRow,
     DropRow, ApproveRow, RejectRow, Stamp, Decide, bounds, history
<1>2. /\ RowsFollow(c, i) /\ i = suggestion[c] /\ (i \in Ids => c \in takenBy[i])
      /\ status \in [Ids -> {"none", "pending", "approved", "rejected"}]
      /\ pending \subseteq Ids
  BY <1>0, HandleRows DEF HeldInv, TypeInv, DataType
<1>3. i \in Ids =>
        /\ i \notin pending
        /\ loop = "insert" => proposed.id # i
        /\ \A d \in Conns : suggestion[d] = i => d = c
  BY <1>0, HeldByOne
<1> HIDE DEF i
<1>4. HeldInv'
  <2>1. ASSUME NEW d \in Conns, suggestion'[d] \in Ids
        PROVE  d \in takenBy'[suggestion'[d]]
    BY <1>0, <1>1, <1>2, <2>1 DEF HeldInv, Others, RowsFollow
  <2>2. ASSUME NEW d \in Conns
        PROVE  /\ pc'[d] \in {"idle", "dropRow"} => suggestion'[d] = None
               /\ pc'[d] \in {"approveRow", "rejectRow", "stamp"} => suggestion'[d] \in Ids
    BY <1>0, <1>1, <1>2 DEF HeldInv, Others, RowsFollow
  <2>3. ASSUME NEW d \in Conns, pc'[d] = "stamp"
        PROVE  status'[suggestion'[d]] # "pending"
    <3>1. CASE d = c
      BY <1>2, <2>3, <3>1 DEF RowsFollow
    <3>2. CASE d # c
      <4>1. /\ suggestion'[d] = suggestion[d] /\ suggestion[d] \in Ids
            /\ status[suggestion[d]] # "pending"
        BY <1>0, <1>1, <2>3, <3>2 DEF HeldInv, Others
      <4>2. suggestion[d] # i
        BY <1>2, <1>3, <3>2, <4>1
      <4>3. QED
        BY <1>2, <4>1, <4>2 DEF RowsFollow
    <3>3. QED
      BY <3>1, <3>2
  <2>4. QED
    BY <2>1, <2>2, <2>3 DEF HeldInv
<1>5. \A j \in pending' : status'[j] = "pending"
  BY <1>1, <1>2, <1>3 DEF RowInv, SuggestionsMatchRows, RowsFollow
<1>6. loop' = "insert" => status'[proposed'.id] = "pending"
  <2>1. loop = "insert" => proposed.id \in Ids
    BY <1>0 DEF TypeInv, RotationType
  <2>2. QED
    BY <1>1, <1>2, <1>3, <2>1 DEF RowInv, RowsFollow
<1>7. ASSUME dbErrors' = 0, NEW j \in Ids \ pending', status'[j] = "pending"
      PROVE  \/ loop' = "insert" /\ proposed'.id = j
             \/ \E d \in Conns : suggestion'[d] = j
  <2>1. status[j] = "pending"
    BY <1>2, <1>7 DEF RowsFollow
  <2>2. (loop = "insert" /\ proposed.id = j) \/ \E d \in Conns : suggestion[d] = j
    BY <1>1, <1>7, <2>1 DEF RowInv, SuggestionsMatchRows
  <2>3. CASE loop = "insert" /\ proposed.id = j
    BY <1>1, <2>3
  <2>4. ASSUME NEW d \in Conns, suggestion[d] = j
        PROVE  \E e \in Conns : suggestion'[e] = j
    <3>1. CASE d # c
      BY <1>1, <2>4, <3>1 DEF Others
    <3>2. CASE d = c
      BY <1>2, <1>7, <2>4, <3>2 DEF RowsFollow
    <3>3. QED
      BY <3>1, <3>2
  <2>5. QED
    BY <2>2, <2>3, <2>4
<1>8. QED
  BY <1>1, <1>4, <1>5, <1>6, <1>7 DEF RowInv, SuggestionsMatchRows

LEMMA RowStep == DecisionInv /\ RowInv /\ [Next]_vars => RowInv'
<1> SUFFICES ASSUME DecisionInv, RowInv, [Next]_vars PROVE RowInv'
  OBVIOUS
<1>0. TypeInv /\ HeldInv /\ None \notin Ids
  BY DEF DecisionInv, RowInv, None, Ids
<1>1. CASE Rotate
  BY <1>1, RotateKeepsRows
<1>2. CASE Tick \/ UNCHANGED vars
  BY <1>2 DEF Tick, vars, memory, database, rotation, handlers, bounds, history, RowInv,
              HeldInv, SuggestionsMatchRows
<1>3. CASE Restart
  BY <1>0, <1>3 DEF Restart, All, database, RowInv, HeldInv, SuggestionsMatchRows
<1>4. ASSUME NEW c \in Conns, Handle(c) PROVE RowInv'
  BY <1>4, HandleKeepsRows
<1>5. ASSUME NEW c \in Conns, WriteFails(c) PROVE RowInv'
  <2>1. /\ Others(c) /\ UNCHANGED <<pending, status, loop, proposed>>
        /\ suggestion'[c] = None /\ pc'[c] = "idle"
    BY <1>0, <1>5, WriteFailsType DEF rotation
  <2>2. takenBy' = takenBy /\ dbErrors' \in Nat /\ dbErrors' # 0
    BY <1>5 DEF WriteFails, RowInv
  <2>3. HeldInv'
    BY <1>0, <2>1, <2>2 DEF HeldInv, Others
  <2>4. QED
    BY <2>1, <2>2, <2>3 DEF RowInv, SuggestionsMatchRows
<1>6. ASSUME NEW c \in Conns, NEW w \in Wallets, AddWallet(c, w) \/ RemoveWallet(c, w)
      PROVE  RowInv'
  <2>1. /\ Others(c) /\ pc[c] = "idle" /\ pc'[c] \in {"addRow", "dropRow"}
        /\ UNCHANGED <<pending, status, loop, proposed, takenBy, suggestion, dbErrors>>
    BY <1>0, <1>6, WalletCommandType DEF AddWallet, RemoveWallet, Command, rotation
  <2>2. HeldInv'
    BY <1>0, <2>1 DEF HeldInv, Others
  <2>3. QED
    BY <2>1, <2>2 DEF RowInv, SuggestionsMatchRows
<1>7. ASSUME NEW c \in Conns, NEW i \in Ids, Ack(c, i) \/ Reject(c, i) PROVE RowInv'
  <2>1. /\ Others(c) /\ pc[c] = "idle" /\ pc'[c] \in {"look", "rejectRow"}
        /\ suggestion'[c] = i /\ i \in pending /\ pending' = pending \ {i}
        /\ takenBy' = [takenBy EXCEPT ![i] = @ \cup {c}]
        /\ UNCHANGED <<status, loop, proposed, dbErrors>>
    BY <1>0, <1>7, TakeType DEF Ack, Reject, Take, Command, rotation
  <2>2. \A j \in Ids : takenBy[j] \subseteq takenBy'[j]
    BY <1>0, <2>1 DEF TypeInv, DataType
  <2>3. c \in takenBy'[i]
    BY <1>0, <2>1 DEF TypeInv, DataType
  <2>4. HeldInv'
    BY <1>0, <2>1, <2>2, <2>3 DEF HeldInv, Others
  <2>5. suggestion[c] = None
    BY <1>0, <2>1 DEF HeldInv
  <2>6. ASSUME NEW d \in Conns, suggestion[d] \in Ids PROVE suggestion'[d] = suggestion[d]
    BY <1>0, <2>1, <2>5, <2>6 DEF Others
  <2>7. SuggestionsMatchRows'
    BY <2>1, <2>6 DEF RowInv, SuggestionsMatchRows
  <2>8. QED
    BY <2>1, <2>4, <2>7 DEF RowInv
<1>8. QED
  BY <1>1, <1>2, <1>3, <1>4, <1>5, <1>6, <1>7 DEF Next

\* A restart offers every suggestion that was pending again; of those decided before
\* it reopens only what was still being decided, or whose row was not written.
THEOREM RowsKeepSuggestions == Spec => []SuggestionsMatchRows
<1>1. Init => RowInv
  BY DEF Init, All, None, Ids, RowInv, HeldInv, SuggestionsMatchRows
<1>2. RowInv => SuggestionsMatchRows
  BY DEF RowInv
<1>3. QED
  BY <1>1, <1>2, RowStep, DecisionAlways, PTL DEF Spec

-----------------------------------------------------------------------------
(* Suggestions: a cooldown apart.                                          *)

\* The time of the last rotation is never before the last suggestion, so that a
\* tick that found no cooldown is a cooldown after both.
SpacingInv ==
    /\ lastCreated # NoTime => /\ lastRotation # NoTime
                               /\ lastCreated <= lastRotation
                               /\ lastCreated <= now
    /\ tickAt <= now
    /\ loop \in {"save", "insert"} /\ lastCreated # NoTime
       => tickAt - lastCreated >= Cooldown

LEMMA CooledDown ==
  ASSUME TypeInv, tickAt \in Nat, ~CoolingDown, lastRotation # NoTime
  PROVE  tickAt - lastRotation >= Cooldown
<1> DEFINE d == tickAt - lastRotation
           m == Max({d, 0})
<1>1. d \in Int /\ lastRotation \in Nat
  BY DEF TypeInv, DataType
<1>2. \E x \in {d, 0} : \A y \in {d, 0} : x >= y
  <2>1. CASE d >= 0
    BY <1>1, <2>1
  <2>2. CASE ~(d >= 0)
    BY <1>1, <2>2
  <2>3. QED
    BY <2>1, <2>2
<1>3. m \in {d, 0}
  BY <1>2 DEF Max
<1> HIDE DEF m
<1>4. ~(m < Cooldown)
  BY DEF CoolingDown, m
<1>5. QED
  BY <1>1, <1>3, <1>4, RotationAssumption

LEMMA SpacingInit == Init => SpacingInv
BY DEF Init, SpacingInv, NoTime

LEMMA SpacingKept ==
  ASSUME TypeInv, SpacingInv, lastRotation' \in {lastRotation, now},
         UNCHANGED <<lastCreated, rotation>>, now' \in {now, now + 1}
  PROVE  SpacingInv'
<1>1. now \in Nat /\ tickAt \in Int /\ lastCreated \in Int /\ lastRotation \in Int
  BY DEF TypeInv, DataType, RotationType, NoTime
<1>2. UNCHANGED <<lastCreated, loop, tickAt>>
  BY DEF rotation
<1>3. now # NoTime
  BY <1>1 DEF NoTime
<1>4. QED
  BY <1>1, <1>2, <1>3 DEF SpacingInv

LEMMA RotateSpaces ==
  ASSUME TypeInv, SpacingInv, Rotate
  PROVE  SpacingInv'
<1>0. /\ now' = now /\ now \in Nat /\ tickAt \in Int /\ lastCreated \in Int
      /\ lastRotation \in Int /\ NoTime <= now
  BY DEF Rotate, Score, Propose, ProposeNothing, SaveSuggestion, InsertSuggestion,
         RotationDies, TypeInv, DataType, RotationType, NoTime
<1>1. CASE \E t \in ScoreTables : Score(t)
  BY <1>0, <1>1 DEF Score, memory, history, SpacingInv
<1>2. CASE \E w \in Wallets : Propose(w)
  <2>1. /\ loop = "decide" /\ ~CoolingDown /\ tickAt' = tickAt
        /\ lastRotation' = lastRotation /\ lastCreated' = lastCreated
    BY <1>2 DEF Propose, Suggests, memory, history
  <2>2. tickAt \in Nat
    BY <2>1 DEF TypeInv, RotationType
  <2>3. lastRotation # NoTime => tickAt - lastRotation >= Cooldown
    BY <2>1, <2>2, CooledDown
  <2>4. QED
    BY <1>0, <2>1, <2>3, RotationAssumption DEF SpacingInv
<1>3. CASE ProposeNothing
  BY <1>0, <1>3 DEF ProposeNothing, memory, history, SpacingInv
<1>4. CASE SaveSuggestion
  BY <1>0, <1>4 DEF SaveSuggestion, memory, history, SpacingInv
<1>5. CASE InsertSuggestion
  BY <1>0, <1>5 DEF InsertSuggestion, SpacingInv
<1>6. CASE RotationDies
  BY <1>0, <1>6 DEF RotationDies, memory, history, SpacingInv
<1>7. QED
  BY <1>1, <1>2, <1>3, <1>4, <1>5, <1>6 DEF Rotate

LEMMA SpacingStep == TypeInv /\ SpacingInv /\ [Next]_vars => SpacingInv'
<1> SUFFICES ASSUME TypeInv, SpacingInv, [Next]_vars PROVE SpacingInv'
  OBVIOUS
<1>1. CASE Rotate
  BY <1>1, RotateSpaces
<1>2. CASE Tick
  BY <1>2, SpacingKept DEF Tick, memory, history
<1>3. CASE Restart
  <2>1. now' = now /\ now \in Nat
    BY <1>3 DEF Restart, TypeInv, DataType
  <2>2. QED
    BY <1>3, <2>1 DEF Restart, SpacingInv, NoTime
<1>4. ASSUME NEW c \in Conns, Handle(c) PROVE SpacingInv'
  <2>1. /\ lastRotation' \in {lastRotation, now} /\ now' = now
        /\ lastCreated' = lastCreated
    BY <1>4 DEF Handle, Look, Choose, Evict, Track, EvictRow, AddRow, DropRow, ApproveRow,
                RejectRow, Stamp, Decide, memory, history
  <2>2. QED
    BY <1>4, <2>1, HandleType, SpacingKept
<1>5. ASSUME NEW c \in Conns, WriteFails(c) PROVE SpacingInv'
  BY <1>5, SpacingKept DEF WriteFails, memory
<1>6. ASSUME NEW c \in Conns, Command(c) PROVE SpacingInv'
  BY <1>6, SpacingKept DEF Command
<1>7. CASE UNCHANGED vars
  BY <1>7, SpacingKept DEF vars, memory, history
<1>8. QED
  BY <1>1, <1>2, <1>3, <1>4, <1>5, <1>6, <1>7
  DEF Next, AddWallet, RemoveWallet, Ack, Reject, Take

\* Suggestions of one process are a cooldown apart, although approvals and
\* older ticks overwrite the time of the last rotation.
THEOREM SuggestionsSpaced == Spec => SuggestionsAreSpaced
<1>1. DecisionInv /\ SpacingInv /\ [Next]_vars
      => [lastCreated # NoTime /\ ~(pending' \subseteq pending) /\ restarts' = restarts
              => lastCreated' - lastCreated >= Cooldown]_vars
  <2> SUFFICES ASSUME DecisionInv, SpacingInv, [Next]_vars, lastCreated # NoTime,
                      ~(pending' \subseteq pending), restarts' = restarts
               PROVE  lastCreated' - lastCreated >= Cooldown
    OBVIOUS
  <2>1. InsertSuggestion
    BY GrowsByInsertion
  <2>2. QED
    BY <2>1 DEF InsertSuggestion, SpacingInv
<1>2. QED
  BY <1>1, DecisionAlways, TypeAlways, SpacingInit, SpacingStep, PTL
  DEF Spec, SuggestionsAreSpaced

-----------------------------------------------------------------------------
(* Memory and rows, while no two commands overlap and no write is lost.    *)

Busy(c) == pc[c] # "idle"

\* How far the rows of the only busy handler are behind the memory.
Apart(c) ==
    /\ pc[c] \in {"look", "choose", "evict", "approveRow", "rejectRow", "stamp"}
           => allowlist = tracked
    /\ pc[c] \in {"choose", "evict"} => seen[c] = tracked
    /\ pc[c] = "evict" => victim[c] \in tracked
    /\ pc[c] = "track" /\ victim[c] = NoWallet
           => allowlist = tracked /\ Cardinality(tracked) < MaxActiveWallets
    /\ pc[c] = "track" /\ victim[c] # NoWallet
           => victim[c] \in allowlist /\ tracked = allowlist \ {victim[c]}
    /\ pc[c] = "evictRow" => tracked = (allowlist \ {victim[c]}) \cup {target[c]}
    /\ pc[c] = "addRow"   => tracked = allowlist \cup {target[c]}
    /\ pc[c] = "dropRow"  => tracked = allowlist \ {target[c]}

WithinLimit(set) == IsFiniteSet(set) /\ Cardinality(set) <= MaxActiveWallets

CleanInv ==
    clean => /\ WithinLimit(tracked) /\ WithinLimit(allowlist)
             /\ \A c, d \in Conns : Busy(c) /\ Busy(d) => c = d
             /\ (\A c \in Conns : ~Busy(c)) => allowlist = tracked
             /\ \A c \in Conns : Busy(c) => Apart(c)

LEMMA WithAnother ==
  ASSUME NEW set, IsFiniteSet(set), Cardinality(set) < MaxActiveWallets, NEW w
  PROVE  WithinLimit(set \cup {w})
<1>1. /\ IsFiniteSet(set \cup {w}) /\ Cardinality(set) \in Nat
      /\ Cardinality(set \cup {w}) = Cardinality(set)
         \/ Cardinality(set \cup {w}) = Cardinality(set) + 1
  BY FS_AddElement, FS_CardinalityType
<1>2. QED
  BY <1>1, RotationAssumption DEF WithinLimit

LEMMA WithoutSome ==
  ASSUME NEW set, WithinLimit(set), NEW w
  PROVE  /\ WithinLimit(set \ {w})
         /\ w \in set => Cardinality(set \ {w}) < MaxActiveWallets
<1>1. /\ IsFiniteSet(set \ {w}) /\ Cardinality(set) \in Nat
      /\ Cardinality(set \ {w}) = IF w \in set THEN Cardinality(set) - 1 ELSE Cardinality(set)
  BY FS_RemoveElement, FS_CardinalityType DEF WithinLimit
<1>2. QED
  BY <1>1, RotationAssumption DEF WithinLimit

LEMMA CleanInit == Init => CleanInv
<1>1. WithinLimit({})
  BY FS_EmptySet, RotationAssumption DEF WithinLimit
<1>2. QED
  BY <1>1 DEF Init, CleanInv, Busy, All

LEMMA HandlerKeepsClean ==
  ASSUME TypeInv, CleanInv, clean, NEW c \in Conns, Others(c),
         \A d \in Conns \ {c} : ~Busy(d),
         WithinLimit(tracked'), WithinLimit(allowlist'),
         IF pc'[c] = "idle" THEN allowlist' = tracked' ELSE Apart(c)'
  PROVE  CleanInv'
BY DEF CleanInv, Busy, Others

\* A handler at work alone.
LEMMA HandleKeepsClean ==
  ASSUME TypeInv, CleanInv, clean, NEW c \in Conns, Handle(c)
  PROVE  CleanInv'
<1>1. Busy(c)
  BY DEF Busy, Handle, Look, Choose, Evict, Track, EvictRow, AddRow, DropRow, ApproveRow,
         RejectRow, Stamp, Decide
<1>2. /\ Others(c) /\ \A d \in Conns \ {c} : ~Busy(d)
      /\ Apart(c) /\ WithinLimit(tracked) /\ WithinLimit(allowlist)
  BY <1>1, HandleType DEF CleanInv
<1>3. TypeInv /\ HandlersType /\ HandlersType'
  BY HandleType DEF TypeInv
<1> SUFFICES /\ WithinLimit(tracked') /\ WithinLimit(allowlist')
             /\ IF pc'[c] = "idle" THEN allowlist' = tracked' ELSE Apart(c)'
  BY <1>2, HandlerKeepsClean
<1> USE DEF HandlersType
<1>4. CASE Look(c)
  <2>1. CASE Cardinality(tracked) < MaxActiveWallets
    BY <1>2, <1>3, <1>4, <2>1 DEF Look, GoTo, Apart, memory, database
  <2>2. CASE ~(Cardinality(tracked) < MaxActiveWallets)
    BY <1>2, <1>3, <1>4, <2>2 DEF Look, GoTo, Apart, memory, database
  <2>3. QED
    BY <2>1, <2>2
<1>5. CASE Choose(c)
  <2>1. PICK t \in {scores, NoScores} : victim' = [victim EXCEPT ![c] = Weakest(t, seen[c])]
    BY <1>5 DEF Choose
  <2>2. Weakest(t, seen[c]) \in seen[c]
    BY <1>3, <1>5, NoScoresType, WeakestIsMember DEF Choose, TypeInv, DataType
  <2>3. QED
    BY <1>2, <1>3, <1>5, <2>1, <2>2 DEF Choose, GoTo, Apart, memory, database
<1>6. CASE Evict(c)
  <2>1. victim[c] \in tracked /\ victim[c] # NoWallet
    BY <1>2, <1>3, <1>6, WalletAssumption DEF Evict, Apart, TypeInv, DataType, NoWallet
  <2>2. QED
    BY <1>2, <1>3, <1>6, <2>1, WithoutSome DEF Evict, GoTo, Apart, database
<1>7. CASE Track(c)
  <2>1. allowlist' = allowlist /\ tracked' = tracked \cup {target[c]}
        /\ target' = target /\ victim' = victim
    BY <1>7 DEF Track, database
  <2>2. CASE victim[c] = NoWallet
    <3>1. IsFiniteSet(tracked) /\ Cardinality(tracked) < MaxActiveWallets
      BY <1>2, <1>7, <2>2 DEF Track, Apart, WithinLimit
    <3>2. WithinLimit(tracked')
      BY <2>1, <3>1, WithAnother
    <3>3. pc'[c] = "addRow" /\ allowlist = tracked
      BY <1>2, <1>3, <1>7, <2>2 DEF Track, GoTo, Apart
    <3>4. QED
      BY <1>2, <2>1, <3>2, <3>3 DEF Apart
  <2>3. CASE victim[c] # NoWallet
    <3>1. victim[c] \in allowlist /\ tracked = allowlist \ {victim[c]}
      BY <1>2, <1>7, <2>3 DEF Track, Apart
    <3>2. IsFiniteSet(tracked) /\ Cardinality(tracked) < MaxActiveWallets
      BY <1>2, <3>1, WithoutSome DEF WithinLimit
    <3>3. WithinLimit(tracked')
      BY <2>1, <3>2, WithAnother
    <3>4. pc'[c] = "evictRow"
      BY <1>3, <1>7, <2>3 DEF Track, GoTo
    <3>5. QED
      BY <1>2, <2>1, <3>1, <3>3, <3>4 DEF Apart
  <2>4. QED
    BY <2>2, <2>3
<1>8. CASE EvictRow(c)
  BY <1>2, <1>3, <1>8, WithoutSome DEF EvictRow, GoTo, Apart, memory
<1>9. CASE AddRow(c)
  <2>1. /\ allowlist' = tracked /\ tracked' = tracked
        /\ pc'[c] \in {"idle", "approveRow"}
    BY <1>2, <1>3, <1>9 DEF AddRow, Finish, GoTo, Apart, memory
  <2>2. QED
    BY <1>2, <2>1 DEF Apart
<1>10. CASE DropRow(c)
  BY <1>2, <1>3, <1>10 DEF DropRow, Finish, GoTo, Apart, memory
<1>11. CASE ApproveRow(c)
  BY <1>2, <1>3, <1>11 DEF ApproveRow, Decide, GoTo, Apart, memory
<1>12. CASE Stamp(c)
  BY <1>2, <1>3, <1>12 DEF Stamp, Finish, GoTo, Apart, database
<1>13. CASE RejectRow(c)
  BY <1>2, <1>3, <1>13 DEF RejectRow, Decide, Finish, GoTo, Apart, memory
<1>14. QED
  BY <1>4, <1>5, <1>6, <1>7, <1>8, <1>9, <1>10, <1>11, <1>12, <1>13 DEF Handle

\* A command that finds no other handler at work.
LEMMA CommandKeepsClean ==
  ASSUME TypeInv, CleanInv, clean', NEW c \in Conns, Command(c), Others(c),
         \/ tracked' = tracked /\ pc'[c] \in {"look", "rejectRow"}
         \/ \E w \in Wallets :
               \/ /\ Cardinality(tracked) < MaxActiveWallets /\ pc'[c] = "addRow"
                  /\ tracked' = tracked \cup {w} /\ target'[c] = w
               \/ /\ pc'[c] = "dropRow"
                  /\ tracked' = tracked \ {w} /\ target'[c] = w
  PROVE  CleanInv'
<1>1. clean /\ (\A d \in Conns : ~Busy(d)) /\ allowlist' = allowlist
  BY DEF Command, Busy, database, TypeInv, DataType
<1>2. allowlist = tracked /\ WithinLimit(tracked)
  BY <1>1 DEF CleanInv
<1>3. CASE tracked' = tracked /\ pc'[c] \in {"look", "rejectRow"}
  <2>1. Apart(c)'
    BY <1>1, <1>2, <1>3 DEF Apart
  <2>2. QED
    BY <1>1, <1>2, <1>3, <2>1, HandlerKeepsClean
<1>4. ASSUME NEW w \in Wallets, Cardinality(tracked) < MaxActiveWallets, pc'[c] = "addRow",
             tracked' = tracked \cup {w}, target'[c] = w
      PROVE  CleanInv'
  <2>1. WithinLimit(tracked')
    BY <1>2, <1>4, WithAnother DEF WithinLimit
  <2>2. Apart(c)'
    BY <1>1, <1>2, <1>4 DEF Apart
  <2>3. QED
    BY <1>1, <1>2, <1>4, <2>1, <2>2, HandlerKeepsClean
<1>5. ASSUME NEW w \in Wallets, pc'[c] = "dropRow", tracked' = tracked \ {w}, target'[c] = w
      PROVE  CleanInv'
  <2>1. WithinLimit(tracked')
    BY <1>2, <1>5, WithoutSome
  <2>2. Apart(c)'
    BY <1>1, <1>2, <1>5 DEF Apart
  <2>3. QED
    BY <1>1, <1>2, <1>5, <2>1, <2>2, HandlerKeepsClean
<1>6. QED
  BY <1>3, <1>4, <1>5

LEMMA CleanStep == TypeInv /\ CleanInv /\ [Next]_vars => CleanInv'
<1> SUFFICES ASSUME TypeInv, CleanInv, [Next]_vars, clean' PROVE CleanInv'
  BY DEF CleanInv
<1>1. ASSUME UNCHANGED <<clean, tracked, allowlist, handlers>> PROVE CleanInv'
  BY <1>1 DEF CleanInv, Apart, Busy, handlers
<1>2. CASE Rotate
  BY <1>1, <1>2 DEF Rotate, Score, Propose, ProposeNothing, SaveSuggestion,
                    InsertSuggestion, RotationDies, memory, database, history
<1>3. CASE Restart
  BY <1>3 DEF Restart, database, CleanInv, Busy, All
<1>4. ASSUME NEW c \in Conns, Handle(c) PROVE CleanInv'
  <2>1. clean
    BY <1>4 DEF Handle, Look, Choose, Evict, Track, EvictRow, AddRow, DropRow, ApproveRow,
                RejectRow, Stamp, Decide, history
  <2>2. QED
    BY <1>4, <2>1, HandleKeepsClean
<1>5. ASSUME NEW c \in Conns, WriteFails(c) PROVE CleanInv'
  BY <1>5 DEF WriteFails
<1>6. ASSUME NEW c \in Conns, NEW w \in Wallets, AddWallet(c, w) \/ RemoveWallet(c, w)
      PROVE  CleanInv'
  <2>1. Others(c)
    BY <1>6, WalletCommandType
  <2>2. target'[c] = w
    BY <1>6 DEF AddWallet, RemoveWallet, TypeInv, HandlersType
  <2>3. \/ AddWallet(c, w) /\ pc'[c] = "addRow"
        \/ RemoveWallet(c, w) /\ pc'[c] = "dropRow"
    BY <1>6 DEF AddWallet, RemoveWallet, GoTo, TypeInv, HandlersType
  <2>4. QED
    BY <2>1, <2>2, <2>3, CommandKeepsClean DEF AddWallet, RemoveWallet
<1>7. ASSUME NEW c \in Conns, NEW i \in Ids, Ack(c, i) \/ Reject(c, i) PROVE CleanInv'
  <2>1. Others(c) /\ tracked' = tracked /\ pc'[c] \in {"look", "rejectRow"}
    BY <1>7, TakeType
  <2>2. Command(c)
    BY <1>7 DEF Ack, Reject, Take
  <2>3. QED
    BY <2>1, <2>2, CommandKeepsClean
<1>8. CASE Tick \/ UNCHANGED vars
  BY <1>1, <1>8 DEF Tick, vars, memory, database, history
<1>9. QED
  BY <1>2, <1>3, <1>4, <1>5, <1>6, <1>7, <1>8 DEF Next

LEMMA CleanAlways == Spec => []CleanInv
BY TypeAlways, CleanInit, CleanStep, PTL DEF Spec

\* Without overlaps and lost writes, the rows are the wallets in memory whenever
\* no command is at work: each handler brings back what it took apart.
THEOREM RowsAreMemory == Spec => []OnlyOverlapSplitsWallets
<1>1. CleanInv => OnlyOverlapSplitsWallets
  BY DEF CleanInv, Busy, OnlyOverlapSplitsWallets
<1>2. QED
  BY <1>1, CleanAlways, PTL

\* Without them the limit holds at every step, because an approval evicts before
\* it adds, and what it chose to evict is still tracked.
THEOREM LimitKept == Spec => []OnlyOverlapExceedsLimit
<1>1. CleanInv => OnlyOverlapExceedsLimit
  BY DEF CleanInv, WithinLimit, OnlyOverlapExceedsLimit
<1>2. QED
  BY <1>1, CleanAlways, PTL
=============================================================================
