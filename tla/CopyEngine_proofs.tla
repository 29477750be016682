-------------------------- MODULE CopyEngine_proofs -------------------------
(***************************************************************************)
(* Theorems about CopyEngine for every set of fills, wallets and markets,  *)
(* every settings value and every bound.                                   *)
(***************************************************************************)
EXTENDS CopyEngine, SequenceTheorems, FiniteSetTheorems, TLAPS

-----------------------------------------------------------------------------
(* Arithmetic of the risk guard.                                           *)

LEMMA DivNat == ASSUME NEW a \in Nat, NEW b \in Nat, b > 0
                PROVE  a \div b \in Nat
BY SMT

LEMMA FillType == ASSUME NEW id \in ExecIds PROVE Fill(id) \in FillRecords
<1>1. FillOf[id[1]] \in FillRecords
  BY FillAssumption DEF ExecIds
<1>2. QED
  BY <1>1, SourceEquityAssumption DEF Fill, FillRecords, WsEdgeBps

LEMMA QuantityType == ASSUME NEW n \in Nat, NEW p \in Prices
                      PROVE  QuantityFor(n, p) \in Nat
<1>1. n * PriceScale \in Nat
  BY PriceScaleAssumption
<1>2. p \in Nat /\ p > 0
  BY DEF Prices
<1>3. QED
  BY <1>1, <1>2, DivNat DEF QuantityFor

LEMMA CopyNotionalType ==
  ASSUME NEW fill \in FillRecords, NEW s \in Settings, EquityOf(fill) > 0
  PROVE  CopyNotional(fill, s) \in Nat
<1>1. fill.notional * s.followerEquity * s.multiplier \in Nat
  <2>1. fill.notional \in Nat /\ s.followerEquity \in Nat /\ s.multiplier \in Nat
    BY DEF FillRecords, Settings
  <2>2. QED
    BY <2>1
<1>2. EquityOf(fill) * MultScale \in Nat /\ EquityOf(fill) * MultScale > 0
  BY SourceEquityAssumption DEF EquityOf, MultScale, FillRecords
<1>3. QED
  BY <1>1, <1>2, DivNat DEF CopyNotional

\* What the risk decision guarantees about a signal it allows.
LEMMA AllowedWithinCaps ==
  ASSUME NEW n \in Nat, NEW p \in Prices, NEW edge \in Nat,
         NEW s \in Settings, NEW e \in Nat, NEW d \in Nat, NEW o \in Nat,
         RiskDecision(n, p, edge, s, e, d, o) = "allow"
  PROVE  LET a == AdjustedNotional(n, s, e, d)
         IN  /\ a \in 1..s.caps.perTrade
             /\ d + a <= s.caps.daily
             /\ e + a <= s.caps.market
             /\ o + 1 <= s.caps.open
<1>1. s.caps.perTrade \in Nat /\ s.caps.daily \in Nat /\ s.caps.market \in Nat
      /\ s.caps.open \in Nat
  BY DEF Settings, Caps
<1>2. ~PositionsFull(s, o) /\ ~(AdjustedNotional(n, s, e, d) <= 0)
  BY DEF RiskDecision
<1>3. QED
  BY <1>1, <1>2 DEF PositionsFull, AdjustedNotional, MarketRemaining,
                    DailyRemaining, Lesser, Greater

LEMMA DecisionType ==
  ASSUME NEW n, NEW p, NEW edge, NEW s, NEW e, NEW d, NEW o
  PROVE  RiskDecision(n, p, edge, s, e, d, o) \in BlockReasons \cup {"allow"}
BY DEF RiskDecision, BlockReasons

LEMMA VerdictType ==
  ASSUME NEW id, NEW snap
  PROVE  Verdict(id, snap) \in (Reasons \cup {"allow", "unsizeable"})
BY DecisionType DEF Verdict, Reasons

\* The facts an allowed verdict stands for.
LEMMA AllowedVerdict ==
  ASSUME NEW id \in ExecIds, NEW snap \in Snapshots, Verdict(id, snap) = "allow"
  PROVE  LET order_ == Intent(id, snap)
             caps   == snap.settings.caps
         IN  /\ order_ \in Orders
             /\ order_.notional \in 1..caps.perTrade
             /\ snap.daily + order_.notional <= caps.daily
             /\ snap.exposure + order_.notional <= caps.market
             /\ snap.open + 1 <= caps.open
<1> DEFINE fill == Fill(id)
           s    == snap.settings
           n    == CopyNotional(fill, s)
           a    == AdjustedNotional(n, s, snap.exposure, snap.daily)
<1>1. fill \in FillRecords
  BY FillType
<1>2. s \in Settings /\ snap.exposure \in Nat /\ snap.daily \in Nat /\ snap.open \in Nat
  BY DEF Snapshots
<1>3. /\ Sizeable(fill, s)
      /\ RiskDecision(n, fill.price, fill.edge, s, snap.exposure, snap.daily,
                      snap.open) = "allow"
  BY DEF Verdict
<1>4. n \in Nat
  BY <1>1, <1>2, <1>3, CopyNotionalType DEF Sizeable
<1>5. fill.price \in Prices /\ fill.edge \in Nat
  BY <1>1 DEF FillRecords
<1>6. /\ a \in 1..s.caps.perTrade
      /\ snap.daily + a <= s.caps.daily
      /\ snap.exposure + a <= s.caps.market
      /\ snap.open + 1 <= s.caps.open
  BY <1>2, <1>3, <1>4, <1>5, AllowedWithinCaps
<1>7. s.limitOffset \in Nat /\ s.caps.perTrade \in Nat
  BY <1>2 DEF Settings, Caps
<1>8. a \in Nat /\ QuantityFor(a, fill.price) \in Nat
  BY <1>5, <1>6, <1>7, QuantityType
<1>9. LimitPrice(fill.side, fill.price, s) \in Prices
  BY <1>5, <1>7, PriceScaleAssumption
     DEF LimitPrice, Lesser, Greater, MinPrice, MaxPrice, Prices
<1>10. QED
  BY <1>6, <1>8, <1>9 DEF Intent, Orders

-----------------------------------------------------------------------------
(* Type correctness.                                                       *)

LEMMA InitTypeOK == Init => TypeOK
<1> SUFFICES ASSUME Init PROVE TypeOK
  OBVIOUS
<1>1. InitialSettings \in Settings
  BY SettingsAssumption
<1>2. NoOrder \in Orders
  BY DEF NoOrder, Orders, Prices
<1>3. NoSnapshot \in Snapshots
  BY <1>1 DEF NoSnapshot, Snapshots
<1>4. \A f \in Fills : 0 \in 0..MaxParses
  BY SizeAssumption
<1>5. QED
  BY <1>1, <1>2, <1>3, <1>4, SwitchAssumption
     DEF Init, TypeOK, NoTrades, Performances, EmptyCache, NoExposure, Steps

\* The values Return leaves behind are well typed.
LEMMA ReturnTypeOK ==
  ASSUME Return
  PROVE  /\ pc' \in Steps /\ pc' = "idle" /\ current' = NoId
         /\ snapshot' \in Snapshots /\ verdict' = "none" /\ order' \in Orders
         /\ batch' = batch /\ toFetch' = toFetch
<1>1. NoOrder \in Orders
  BY DEF NoOrder, Orders, Prices
<1>2. NoSnapshot \in Snapshots
  BY SettingsAssumption DEF NoSnapshot, Snapshots
<1>3. QED
  BY <1>1, <1>2 DEF Return, Steps

LEMMA CurrentFill == ASSUME TypeOK, pc # "idle"
                     PROVE  current \in ExecIds /\ Fill(current) \in FillRecords
BY FillType DEF TypeOK

LEMMA IngestTypeOK == ASSUME TypeOK, Ingest PROVE TypeOK'
<1>1. CASE Tick
  BY <1>1 DEF TypeOK, Tick, MaybeResetDailyNotional, memory, database, task, world,
              bounds, history
<1>2. ASSUME NEW w \in Wallets, FetchActivity(w) PROVE TypeOK'
  <2> DEFINE page == Recent(published[w])
  <2>1. page \in Seq(Fills)
    <3>1. published[w] \in Seq(Fills)
      BY DEF TypeOK
    <3>2. Greater(1, Len(published[w]) - LookbackLimit + 1) \in 1..Len(published[w]) + 1
      BY <3>1, SizeAssumption, LenProperties DEF Greater
    <3>3. QED
      BY <3>1, <3>2, SubSeqProperties DEF Recent
  <2>2. \A i \in DOMAIN page : page[i] \in Fills
    BY <2>1
  <2>3. \A f \in Fills : parses[f] \in 0..MaxParses
    BY DEF TypeOK
  <2> DEFINE drawn == {f \in {page[i] : i \in DOMAIN page} : ~FillOf[f].identified}
  <2>4. \A f \in drawn : parses[f] < MaxParses
    BY <1>2 DEF FetchActivity
  <2>5. \A i \in DOMAIN page : ParsedId(page[i]) \in ExecIds
    BY <2>2, <2>3, <2>4, SizeAssumption DEF ParsedId, ExecIds
  <2>6. batch' = [i \in 1..Len(page) |-> ParsedId(page[i])]
    BY <1>2, <2>1 DEF FetchActivity
  <2>7. batch' \in Seq(ExecIds)
    BY <2>1, <2>5, <2>6
  <2>8. parses' \in [Fills -> 0..MaxParses]
    BY <1>2, <2>3, <2>4, SizeAssumption DEF FetchActivity
  <2>9. QED
    BY <1>2, <2>7, <2>8 DEF TypeOK, FetchActivity, memory, database, bounds, history
<1>3. ASSUME NEW w \in Wallets, FetchFails(w) PROVE TypeOK'
  BY <1>3 DEF TypeOK, FetchFails, memory, database, world, bounds, history
<1>4. ASSUME NEW f \in Fills, TradeMessage(f) PROVE TypeOK'
  <2>1. batch' \in Seq(ExecIds)
    BY <1>4, SizeAssumption DEF TradeMessage, ExecIds
  <2>2. QED
    BY <1>4, <2>1 DEF TypeOK, TradeMessage, memory, database, world, bounds, history
<1>5. QED
  BY <1>1, <1>2, <1>3, <1>4 DEF Ingest

LEMMA OutsideTypeOK ==
  ASSUME TypeOK,
         \/ Midnight \/ Restart \/ WriteFails \/ Reconcile
         \/ \E f \in Fills : Publish(f)
         \/ \E m \in Markets, side \in Sides, size \in UserFillSizes :
                UserFillMessage(m, side, size)
  PROVE  TypeOK'
<1>1. CASE Midnight
  BY <1>1, SizeAssumption
     DEF TypeOK, Midnight, memory, database, task, world, bounds, history
<1>2. CASE Restart
  <2>1. NoOrder \in Orders
    BY DEF NoOrder, Orders, Prices
  <2>2. NoSnapshot \in Snapshots
    BY SettingsAssumption DEF NoSnapshot, Snapshots
  <2>3. QED
    BY <1>2, <2>1, <2>2 DEF TypeOK, Restart, database, world, NoTrades, Performances,
                            EmptyCache, NoExposure, Steps
<1>3. CASE WriteFails
  BY <1>3, ReturnTypeOK DEF TypeOK, WriteFails, memory, database, world
<1>4. ASSUME NEW f \in Fills, Publish(f) PROVE TypeOK'
  <2>1. FillOf[f].wallet \in Wallets
    BY FillAssumption DEF FillRecords
  <2>2. published' \in [Wallets -> Seq(Fills)]
    BY <1>4, <2>1 DEF TypeOK, Publish
  <2>3. QED
    BY <1>4, <2>2 DEF TypeOK, Publish, memory, database, task, bounds, history
<1>5. ASSUME NEW m \in Markets, NEW side \in Sides, NEW size \in UserFillSizes,
             UserFillMessage(m, side, size)
      PROVE  TypeOK'
  <2>1. size \in Nat /\ exposure[m] \in Nat
    BY SizeAssumption DEF TypeOK
  <2>2. exposure' \in [Markets -> Nat]
    BY <1>5, <2>1 DEF TypeOK, UserFillMessage, Greater
  <2>3. QED
    BY <1>5, <2>2 DEF TypeOK, UserFillMessage, database, task, world, bounds, history
<1>6. CASE CriticalPause
  <2>1. [settings EXCEPT !.paused = TRUE] \in Settings
    BY DEF TypeOK, Settings
  <2>2. QED
    BY <1>6, <2>1 DEF TypeOK, CriticalPause, database, task, world, bounds, history
<1>7. ASSUME NEW found \in Corrections, AutoCorrect(found) PROVE TypeOK'
  <2>1. exposure' \in [Markets -> Nat] /\ openPositions' \in Nat
    BY <1>7, CorrectionAssumption DEF AutoCorrect
  <2>2. QED
    BY <1>7, <2>1 DEF TypeOK, AutoCorrect, database, task, world, bounds, history
<1>8. QED
  BY <1>1, <1>2, <1>3, <1>4, <1>5, <1>6, <1>7 DEF Reconcile

\* What a rejected set_caps leaves behind: some of its caps, and nothing else changed.
Partial(c) ==
    /\ settings' = [settings EXCEPT !.caps = settings'.caps]
    /\ settings'.caps = [perTrade |-> settings'.caps.perTrade,
                         market   |-> settings'.caps.market,
                         daily    |-> settings'.caps.daily,
                         open     |-> settings.caps.open]
    /\ settings'.caps.perTrade = c.perTrade
    /\ settings'.caps.market \in {settings.caps.market, c.market}
    /\ settings'.caps.daily \in {settings.caps.daily, c.daily}

LEMMA RejectedPart ==
  ASSUME TypeOK, RejectedSetCaps PROVE \E c \in NewCaps : Partial(c)
<1>1. PICK c \in NewCaps :
        settings' \in {[settings EXCEPT !.caps.perTrade = c.perTrade],
                       [settings EXCEPT !.caps.perTrade = c.perTrade,
                                        !.caps.market = c.market],
                       [settings EXCEPT !.caps = [c EXCEPT !.open = settings.caps.open]]}
  BY DEF RejectedSetCaps
<1>2. settings \in Settings /\ settings.caps \in Caps /\ c \in Caps
  BY SettingsAssumption DEF TypeOK, Settings
<1>3. CASE settings' = [settings EXCEPT !.caps.perTrade = c.perTrade]
  BY <1>2, <1>3 DEF Partial, Settings, Caps
<1>4. CASE settings' = [settings EXCEPT !.caps.perTrade = c.perTrade,
                                        !.caps.market = c.market]
  BY <1>2, <1>4 DEF Partial, Settings, Caps
<1>5. CASE settings' = [settings EXCEPT !.caps = [c EXCEPT !.open = settings.caps.open]]
  BY <1>2, <1>5 DEF Partial, Settings, Caps
<1>6. QED
  BY <1>1, <1>3, <1>4, <1>5

LEMMA RpcTypeOK == ASSUME TypeOK, Rpc PROVE TypeOK'
<1>1. ASSUME NEW s \in Settings, Command, ChangeSettings(s) PROVE TypeOK'
  BY <1>1 DEF TypeOK, Command, ChangeSettings, database, task, world
<1>2. \A b \in BOOLEAN : [settings EXCEPT !.paused = b] \in Settings
  BY DEF TypeOK, Settings
<1>3. CASE PauseTrading
  BY <1>1, <1>2, <1>3 DEF PauseTrading
<1>4. CASE ResumeTrading
  BY <1>1, <1>2, <1>4 DEF ResumeTrading
<1>5. CASE PanicClose
  BY <1>1, <1>2, <1>5 DEF PanicClose
<1>6. CASE SetMode
  <2>1. \A m \in NewModes : [settings EXCEPT !.mode = m] \in Settings
    BY SettingsAssumption DEF TypeOK, Settings
  <2>2. QED
    BY <1>1, <1>6, <2>1 DEF SetMode
<1>7. CASE SetRiskProfile
  <2>1. \A p \in NewProfiles : [settings EXCEPT !.profile = p] \in Settings
    BY SettingsAssumption DEF TypeOK, Settings
  <2>2. QED
    BY <1>1, <1>7, <2>1 DEF SetRiskProfile
<1>8. CASE SetCaps
  <2>1. \A c \in NewCaps : [settings EXCEPT !.caps = c] \in Settings
    BY SettingsAssumption DEF TypeOK, Settings
  <2>2. QED
    BY <1>1, <1>8, <2>1 DEF SetCaps
<1>9. CASE SetCopySells
  <2>1. \A b \in BOOLEAN : [settings EXCEPT !.copySells = b] \in Settings
    BY DEF TypeOK, Settings
  <2>2. QED
    BY <1>1, <1>9, <2>1 DEF SetCopySells
<1>10. CASE SetAutoStop
  <2>1. \A a \in NewAutoStops : [settings EXCEPT !.autoStop = a] \in Settings
    BY SettingsAssumption DEF TypeOK, Settings
  <2>2. QED
    BY <1>1, <1>10, <2>1 DEF SetAutoStop
<1>11. ASSUME NEW w \in Wallets, ResumeWallet(w) PROVE TypeOK'
  BY <1>11 DEF TypeOK, ResumeWallet, Command, database, task, world
<1>12. CASE SaveSettings
  BY <1>12 DEF TypeOK, SaveSettings, memory, task, world, bounds, history
<1>13. CASE SaveFails
  BY <1>13 DEF TypeOK, SaveFails, memory, database, task, world, history
<1>14. CASE SetMultiplier
  <2>1. \A x \in NewMultipliers : [settings EXCEPT !.multiplier = x] \in Settings
    BY SettingsAssumption DEF TypeOK, Settings
  <2>2. QED
    BY <1>1, <1>14, <2>1 DEF SetMultiplier
<1>15. CASE SetFollowerEquity
  <2>1. \A x \in NewEquities : [settings EXCEPT !.followerEquity = x] \in Settings
    BY SettingsAssumption DEF TypeOK, Settings
  <2>2. QED
    BY <1>1, <1>15, <2>1 DEF SetFollowerEquity
<1>16. CASE RejectedSetCaps
  <2>1. PICK c \in NewCaps : Partial(c)
    BY <1>16, RejectedPart
  <2>2. c \in Caps /\ settings.caps \in Caps
    BY SettingsAssumption DEF TypeOK, Settings
  <2>3. settings'.caps \in Caps
    BY <2>1, <2>2 DEF Partial, Caps
  <2>4. settings' \in Settings
    BY <2>1, <2>3 DEF Partial, TypeOK, Settings
  <2>5. QED
    BY <1>16, <2>4 DEF TypeOK, RejectedSetCaps, Command, database, task, world
<1>17. QED
  BY <1>3, <1>4, <1>5, <1>6, <1>7, <1>8, <1>9, <1>10, <1>11, <1>12, <1>13,
     <1>14, <1>15, <1>16
  DEF Rpc

LEMMA AddKeyType ==
  ASSUME NEW c, c.seen \in SUBSET ExecIds, c.queue \in Seq(ExecIds),
         NEW id \in ExecIds, NEW n \in Nat
  PROVE  /\ AddKey(c, id, n).seen \in SUBSET ExecIds
         /\ AddKey(c, id, n).queue \in Seq(ExecIds)
<1>1. Append(c.queue, id) \in Seq(ExecIds) /\ Append(c.queue, id) # <<>>
  OBVIOUS
<1>2. Tail(Append(c.queue, id)) \in Seq(ExecIds)
  BY <1>1
<1>3. QED
  BY <1>1, <1>2 DEF AddKey

\* A step of execute_intent that ends with an answered attempt.
LEMMA AnsweredType ==
  ASSUME TypeOK, NEW filled \in Nat, NEW average \in Prices,
         Answered(filled, average)
  PROVE  order' \in Orders /\ pc' = "orderRow"
BY DEF TypeOK, Answered, Orders

LEMMA ExecuteType ==
  ASSUME TypeOK, current \in ExecIds, Execute
  PROVE  executions' \in [ExecIds -> Nat]
BY DEF TypeOK, Execute, Orders

LEMMA SendTypeOK ==
  ASSUME TypeOK, SimulateFill \/ RefuseLive \/ PostFilled \/ PostFailed \/ GiveUp
  PROVE  TypeOK'
<1>1. CASE SimulateFill
  <2>1. pc # "idle" /\ current \in ExecIds
    BY <1>1, CurrentFill DEF SimulateFill
  <2>2. order.quantity \in Nat /\ order.limit \in Prices
    BY DEF TypeOK, Orders
  <2>3. order' \in Orders /\ pc' = "orderRow"
    BY <1>1, <2>2, AnsweredType DEF SimulateFill
  <2>4. executions' \in [ExecIds -> Nat]
    BY <1>1, <2>1, ExecuteType DEF SimulateFill
  <2>5. QED
    BY <1>1, <2>1, <2>3, <2>4
       DEF TypeOK, SimulateFill, Answered, memory, database, bounds, Steps
<1>2. CASE RefuseLive
  BY <1>2 DEF TypeOK, RefuseLive, Orders, Steps, memory, database, world, bounds, history
<1>3. CASE PostFilled
  <2>1. pc # "idle" /\ current \in ExecIds
    BY <1>3, CurrentFill DEF PostFilled, Posting
  <2>2. order.quantity \in Nat /\ order.price \in Prices
    BY DEF TypeOK, Orders
  <2>3. \A i \in Improvements :
            /\ Greater(order.price - i, MinPrice) \in Prices
            /\ order.price + i \in Prices
    BY <2>2, SizeAssumption DEF Greater, MinPrice, Prices
  <2>4. order' \in Orders /\ pc' = "orderRow"
    <3>1. PICK filled \in 0..order.quantity, i \in Improvements :
              Answered(filled, IF Fill(current).side = "buy"
                               THEN Greater(order.price - i, MinPrice)
                               ELSE order.price + i)
      BY <1>3 DEF PostFilled
    <3>2. filled \in Nat
      BY <2>2
    <3>3. QED
      BY <2>3, <3>1, <3>2, AnsweredType
  <2>5. executions' \in [ExecIds -> Nat]
    BY <1>3, <2>1, ExecuteType DEF PostFilled
  <2>6. QED
    BY <1>3, <2>1, <2>4, <2>5
       DEF TypeOK, PostFilled, Posting, Answered, memory, database, bounds, Steps
<1>4. CASE PostFailed
  <2>1. pc # "idle" /\ current \in ExecIds
    BY <1>4, CurrentFill DEF PostFailed, Posting
  <2>2. order.price \in Prices /\ order.attempt \in Nat
        /\ snapshot.settings.limitOffset \in Nat
    BY DEF TypeOK, Orders, Snapshots, Settings
  <2>3. RetryStep(snapshot.settings) \in Nat
    BY <2>2 DEF RetryStep, Greater
  <2>4. \A side : NextAttemptPrice(side, order.price, snapshot.settings)
                      \in Prices
    BY <2>2, <2>3, PriceScaleAssumption
       DEF NextAttemptPrice, Greater, Lesser, MinPrice, MaxPrice, Prices
  <2>5. order' \in Orders
    <3> DEFINE next == NextAttemptPrice(Fill(current).side, order.price,
                                        snapshot.settings)
    <3>1. next \in Prices /\ order \in Orders
      BY <2>4 DEF TypeOK
    <3>2. order' = [order EXCEPT !.attempt = order.attempt + 1, !.price = next]
      BY <1>4, <3>1 DEF PostFailed, Orders
    <3> HIDE DEF next
    <3>3. order.attempt + 1 \in Nat
      BY <2>2
    <3>4. \A a \in Nat, p \in Prices :
              [order EXCEPT !.attempt = a, !.price = p] \in Orders
      BY <3>1 DEF Orders
    <3>5. QED
      BY <3>1, <3>2, <3>3, <3>4
  <2>6. executions' \in [ExecIds -> Nat]
    BY <1>4, <2>1, ExecuteType DEF PostFailed, TypeOK
  <2>7. QED
    BY <1>4, <2>5, <2>6 DEF TypeOK, PostFailed, Posting, memory, database, bounds
<1>5. CASE GiveUp
  <2>1. pc' = "orderRow" /\ pc = "sending"
    BY <1>5 DEF GiveUp, GoTo
  <2>2. UNCHANGED <<current, snapshot, verdict, order, batch, toFetch, unsaved,
                    memory, database, world, history>>
    BY <1>5 DEF GiveUp, GoTo
  <2>3. QED
    BY <2>1, <2>2 DEF TypeOK, Steps, memory, database, world, history
<1>6. QED
  BY <1>1, <1>2, <1>3, <1>4, <1>5

LEMMA ProcessTypeOK == ASSUME TypeOK, Process PROVE TypeOK'
<1>1. CASE SkipDuplicate
  BY <1>1 DEF TypeOK, SkipDuplicate, memory, database, world, bounds, history
<1>2. CASE Admit
  <2>1. Head(batch) \in ExecIds /\ Tail(batch) \in Seq(ExecIds)
    BY <1>2 DEF TypeOK, Admit
  <2>2. Fill(Head(batch)) \in FillRecords
    BY <2>1, FillType
  <2>3. snapshot' \in Snapshots
    BY <1>2, <2>2 DEF TypeOK, Admit, Snapshots, FillRecords
  <2>4. dedupe'.seen \in SUBSET ExecIds /\ dedupe'.queue \in Seq(ExecIds)
    BY <1>2, <2>1, AddKeyType, SizeAssumption DEF TypeOK, Admit
  <2>5. QED
    BY <1>2, <2>1, <2>3, <2>4
       DEF TypeOK, Admit, Steps, database, world, bounds, history
<1>3. CASE RecordStop
  BY <1>3 DEF TypeOK, RecordStop, GoTo, Steps, Reasons, memory, world, bounds, history
<1>4. CASE RecordStopEvent
  BY <1>4 DEF TypeOK, RecordStopEvent, GoTo, Steps, memory, database, world, bounds,
              history
<1>5. CASE MarkStopped
  <2>1. Fill(current).wallet \in Wallets
    BY <1>5, CurrentFill DEF MarkStopped, FillRecords
  <2>2. QED
    BY <1>5, <2>1, ReturnTypeOK
       DEF TypeOK, MarkStopped, database, world, bounds, history
<1>6. CASE DropUnsizeable
  BY <1>6, ReturnTypeOK
     DEF TypeOK, DropUnsizeable, memory, database, world, bounds, history
<1>7. CASE Block
  <2>1. verdict' \in Reasons
    BY <1>7, VerdictType DEF Block
  <2>2. QED
    BY <1>7, <2>1 DEF TypeOK, Block, Steps, memory, database, world, bounds, history
<1>8. CASE RecordBlock
  <2>1. verdict \in Reasons /\ current \in ExecIds
    BY <1>8 DEF RecordBlock, TypeOK
  <2>2. QED
    BY <1>8, <2>1 DEF TypeOK, RecordBlock, GoTo, Steps, memory, world, bounds, history
<1>9. CASE Allow
  <2>1. current \in ExecIds /\ snapshot \in Snapshots
    BY <1>9, CurrentFill DEF Allow, TypeOK
  <2>2. order' \in Orders
    BY <1>9, <2>1, AllowedVerdict DEF Allow
  <2>3. QED
    BY <1>9, <2>1, <2>2 DEF TypeOK, Allow, Steps, memory, database, world, bounds
<1>10. CASE SimulateFill \/ RefuseLive \/ PostFilled \/ PostFailed \/ GiveUp
  BY <1>10, SendTypeOK
<1>11. CASE InsertOrder
  BY <1>11 DEF TypeOK, InsertOrder, GoTo, Steps, memory, world, bounds, history
<1>12. CASE OrderConflict
  BY <1>12, ReturnTypeOK, CurrentFill
     DEF TypeOK, OrderConflict, memory, database, world, bounds
<1>13. CASE Settle
  <2>1. Fill(current) \in FillRecords /\ current \in ExecIds
    BY <1>13, CurrentFill DEF Settle
  <2>2. order.notional \in Nat /\ order.filled \in Nat /\ order.average \in Int
    BY DEF TypeOK, Orders, Prices
  <2>3. Fill(current).wallet \in Wallets /\ Fill(current).market \in Markets
        /\ Fill(current).price \in Int
    BY <2>1 DEF FillRecords, Prices
  <2>4. exposure' \in [Markets -> Nat] /\ daily' \in Nat /\ openPositions' \in Nat
    <3> DEFINE charged == IF Fill(current).side = "buy"
                          THEN exposure[Fill(current).market] + order.notional
                          ELSE Greater(exposure[Fill(current).market]
                                           - order.notional, 0)
    <3>1. exposure[Fill(current).market] \in Nat /\ exposure \in [Markets -> Nat]
      BY <2>3 DEF TypeOK
    <3>2. charged \in Nat
      BY <2>2, <3>1 DEF Greater
    <3>3. exposure' = [exposure EXCEPT ![Fill(current).market] = charged]
      BY <1>13, <2>3, <3>1 DEF Settle
    <3>4. exposure' \in [Markets -> Nat]
      BY <3>1, <3>2, <3>3
    <3>5. daily' \in Nat /\ openPositions' \in Nat
      BY <1>13, <2>2 DEF Settle, TypeOK, Greater
    <3>6. QED
      BY <3>4, <3>5
  <2> DEFINE pnl == EstimatedPnl(Fill(current).side, order.average,
                                 Fill(current).price, order.filled)
  <2>5. pnl \in Int
    BY <2>2, <2>3 DEF EstimatedPnl
  <2>6. \A p \in Performances : RecordTrade(p, pnl) \in Performances
    <3> HIDE DEF pnl
    <3>1. QED
      BY <2>5 DEF RecordTrade, Performances
  <2>7. performance' \in [Wallets -> Performances]
    BY <1>13, <2>3, <2>6 DEF Settle, TypeOK
  <2>8. QED
    BY <1>13, <2>4, <2>7
       DEF TypeOK, Settle, GoTo, Steps, database, world, bounds, history
<1>14. CASE RecordFailure
  BY <1>14 DEF TypeOK, RecordFailure, GoTo, Steps, Reasons, memory, world, bounds,
               history
<1>15. CASE RecordLast
  BY <1>15, ReturnTypeOK DEF TypeOK, RecordLast, memory, database, world, bounds, history
<1>16. QED
  BY <1>1, <1>2, <1>3, <1>4, <1>5, <1>6, <1>7, <1>8, <1>9, <1>10, <1>11, <1>12, <1>13,
     <1>14, <1>15 DEF Process

\* The engine's state, its tables and the task stay well typed, for every set
\* of fills and every sequence of commands, faults and restarts.
THEOREM TypeCorrect == Spec => []TypeOK
<1>1. TypeOK /\ [Next]_vars => TypeOK'
  <2> SUFFICES ASSUME TypeOK, [Next]_vars PROVE TypeOK'
    OBVIOUS
  <2>1. CASE UNCHANGED vars
    BY <2>1 DEF TypeOK, vars, memory, database, task, world, bounds, history
  <2>2. CASE Next
    BY <2>2, IngestTypeOK, ProcessTypeOK, OutsideTypeOK, RpcTypeOK DEF Next
  <2>3. QED
    BY <2>1, <2>2
<1>2. QED
  BY InitTypeOK, <1>1, PTL DEF Spec

-----------------------------------------------------------------------------
(* The reservation invariant.  InFlightWithinCaps is not inductive: Allow   *)
(* establishes it for the snapshot's counters, so it rests on the snapshot  *)
(* still being current, which no step but the task's own may disturb.       *)

CapsInv == TypeOK /\ SnapshotStaysCurrent /\ InFlightWithinCaps

\* What the conjuncts of CapsInv depend on.
counters == <<pc, current, snapshot, order, daily, exposure, openPositions>>

LEMMA CountersUnchanged ==
  ASSUME SnapshotStaysCurrent, InFlightWithinCaps, UNCHANGED counters
  PROVE  SnapshotStaysCurrent' /\ InFlightWithinCaps'
BY DEF SnapshotStaysCurrent, InFlightWithinCaps, InFlight, counters, Fill

LEMMA IdleIsTrivial ==
  ASSUME pc' \in {"idle", "lastEvent"}
  PROVE  SnapshotStaysCurrent' /\ InFlightWithinCaps'
BY DEF SnapshotStaysCurrent, InFlightWithinCaps, InFlight

\* A step of the task that keeps the counters, the snapshot and the order's
\* notional and does not become in flight keeps both.
LEMMA StepKeepsCaps ==
  ASSUME SnapshotStaysCurrent, InFlightWithinCaps, pc \notin {"idle", "lastEvent"},
         UNCHANGED <<current, snapshot, daily, exposure, openPositions>>,
         order'.notional = order.notional,
         InFlight' => InFlight
  PROVE  SnapshotStaysCurrent' /\ InFlightWithinCaps'
BY DEF SnapshotStaysCurrent, InFlightWithinCaps, InFlight, Fill

LEMMA IngestCaps ==
  ASSUME CapsInv, Ingest PROVE SnapshotStaysCurrent' /\ InFlightWithinCaps'
<1>1. pc = "idle" /\ pc' = "idle"
  BY DEF Ingest, Tick, FetchActivity, FetchFails, TradeMessage, Ready
<1>2. QED
  BY <1>1, IdleIsTrivial

LEMMA OutsideCaps ==
  ASSUME CapsInv,
         \/ Midnight \/ Restart \/ WriteFails \/ Reconcile
         \/ \E f \in Fills : Publish(f)
         \/ \E m \in Markets, side \in Sides, size \in UserFillSizes :
                UserFillMessage(m, side, size)
  PROVE  SnapshotStaysCurrent' /\ InFlightWithinCaps'
<1>1. CASE Midnight
  BY <1>1, CountersUnchanged DEF CapsInv, Midnight, counters, memory, task
<1>2. CASE Restart
  BY <1>2, IdleIsTrivial DEF Restart
<1>3. CASE WriteFails
  BY <1>3, IdleIsTrivial DEF WriteFails, Return
<1>4. ASSUME NEW f \in Fills, Publish(f)
      PROVE  SnapshotStaysCurrent' /\ InFlightWithinCaps'
  BY <1>4, CountersUnchanged DEF CapsInv, Publish, counters, memory, task
<1>5. ASSUME NEW m \in Markets, NEW side \in Sides, NEW size \in UserFillSizes,
             UserFillMessage(m, side, size)
      PROVE  SnapshotStaysCurrent' /\ InFlightWithinCaps'
  BY <1>5, IdleIsTrivial DEF UserFillMessage, Ready, task
<1>6. CASE CriticalPause
  BY <1>6, CountersUnchanged DEF CapsInv, CriticalPause, counters, task
<1>7. ASSUME NEW found \in Corrections, AutoCorrect(found)
      PROVE  SnapshotStaysCurrent' /\ InFlightWithinCaps'
  <2>1. Corrections # {} /\ UNCHANGED <<daily, pc, snapshot, order>>
    BY <1>7 DEF AutoCorrect, task
  <2>2. QED
    BY <2>1 DEF CapsInv, SnapshotStaysCurrent, InFlightWithinCaps, InFlight
<1>8. QED
  BY <1>1, <1>2, <1>3, <1>4, <1>5, <1>6, <1>7 DEF Reconcile

LEMMA RpcUnchanged == ASSUME Rpc PROVE UNCHANGED counters
BY DEF Rpc, PauseTrading, ResumeTrading, PanicClose, SetMode, SetRiskProfile,
       SetMultiplier, SetFollowerEquity, SetCaps, RejectedSetCaps, SetCopySells, SetAutoStop,
       ResumeWallet, SaveSettings, SaveFails, Command, memory, task, counters

LEMMA ProcessCaps ==
  ASSUME CapsInv, Process PROVE SnapshotStaysCurrent' /\ InFlightWithinCaps'
<1> USE DEF CapsInv
<1>1. CASE SkipDuplicate
  BY <1>1, IdleIsTrivial DEF SkipDuplicate
<1>2. CASE Admit
  <2>1. snapshot' = [settings |-> settings,
                     exposure |-> exposure[Fill(Head(batch)).market],
                     daily |-> daily, open |-> openPositions]
    BY <1>2 DEF Admit
  <2>2. SnapshotStaysCurrent'
    BY <1>2, <2>1 DEF Admit, SnapshotStaysCurrent, Fill
  <2>3. InFlightWithinCaps'
    BY <1>2 DEF Admit, InFlightWithinCaps, InFlight
  <2>4. QED
    BY <2>2, <2>3
<1>3. CASE RecordStop \/ RecordStopEvent \/ RecordBlock \/ RecordFailure
  BY <1>3, StepKeepsCaps
     DEF RecordStop, RecordStopEvent, RecordBlock, RecordFailure, GoTo, InFlight, memory
<1>4. CASE MarkStopped \/ DropUnsizeable \/ OrderConflict \/ RecordLast
  BY <1>4, IdleIsTrivial DEF MarkStopped, DropUnsizeable, OrderConflict, RecordLast, Return
<1>5. CASE Block
  BY <1>5, StepKeepsCaps DEF Block, InFlight, memory
<1>6. CASE Allow
  <2>1. current \in ExecIds /\ snapshot \in Snapshots
    BY <1>6, CurrentFill DEF Allow, TypeOK
  <2>2. LET caps == snapshot.settings.caps
        IN  /\ order'.notional \in 1..caps.perTrade
            /\ snapshot.daily + order'.notional <= caps.daily
            /\ snapshot.exposure + order'.notional <= caps.market
            /\ snapshot.open + 1 <= caps.open
    BY <1>6, <2>1, AllowedVerdict DEF Allow
  <2>3. SnapshotStaysCurrent'
    BY <1>6 DEF Allow, SnapshotStaysCurrent, memory, Fill
  <2>4. QED
    BY <1>6, <2>2, <2>3
       DEF Allow, SnapshotStaysCurrent, InFlightWithinCaps, memory, Fill
<1>7. CASE SimulateFill \/ PostFilled
  <2>1. order'.notional = order.notional
    BY <1>7 DEF SimulateFill, PostFilled, Answered, TypeOK, Orders
  <2>2. pc = "sending"
    BY <1>7 DEF SimulateFill, PostFilled, Posting
  <2>3. UNCHANGED <<current, snapshot, daily, exposure, openPositions>>
    BY <1>7 DEF SimulateFill, PostFilled, Posting, Answered, memory
  <2>4. QED
    BY <2>1, <2>2, <2>3, StepKeepsCaps DEF InFlight
<1>8. CASE PostFailed
  <2>1. order'.notional = order.notional
    BY <1>8 DEF PostFailed, TypeOK, Orders
  <2>2. QED
    BY <1>8, <2>1, StepKeepsCaps DEF PostFailed, Posting, InFlight, memory
<1>9. CASE RefuseLive
  <2>1. order'.notional = order.notional
    BY <1>9 DEF RefuseLive, TypeOK, Orders
  <2>2. QED
    BY <1>9, <2>1, StepKeepsCaps DEF RefuseLive, InFlight, memory
<1>10. CASE GiveUp \/ InsertOrder
  BY <1>10, StepKeepsCaps DEF GiveUp, InsertOrder, GoTo, InFlight, memory
<1>11. CASE Settle
  BY <1>11, IdleIsTrivial DEF Settle, GoTo
<1>12. QED
  BY <1>1, <1>2, <1>3, <1>4, <1>5, <1>6, <1>7, <1>8, <1>9, <1>10, <1>11 DEF Process

LEMMA CapsInvInductive == CapsInv /\ [Next]_vars => CapsInv'
<1> SUFFICES ASSUME CapsInv, [Next]_vars PROVE CapsInv'
  OBVIOUS
<1>1. TypeOK'
  <2>1. CASE UNCHANGED vars
    BY <2>1 DEF CapsInv, TypeOK, vars, memory, database, task, world, bounds, history
  <2>2. CASE Next
    BY <2>2, IngestTypeOK, ProcessTypeOK, OutsideTypeOK, RpcTypeOK DEF CapsInv, Next
  <2>3. QED
    BY <2>1, <2>2
<1>2. SnapshotStaysCurrent' /\ InFlightWithinCaps'
  <2>1. CASE UNCHANGED vars
    BY <2>1, CountersUnchanged DEF CapsInv, vars, memory, task, counters
  <2>2. CASE Rpc
    BY <2>2, RpcUnchanged, CountersUnchanged DEF CapsInv
  <2>3. CASE Next /\ ~Rpc
    BY <2>3, IngestCaps, ProcessCaps, OutsideCaps DEF Next
  <2>4. QED
    BY <2>1, <2>2, <2>3
<1>3. QED
  BY <1>1, <1>2 DEF CapsInv

LEMMA InitCapsInv == Init => CapsInv
BY InitTypeOK DEF Init, CapsInv, SnapshotStaysCurrent, InFlightWithinCaps, InFlight

\* What a risk decision read stays true until its order is charged.
THEOREM SnapshotCurrent == Spec => []SnapshotStaysCurrent
<1>1. CapsInv => SnapshotStaysCurrent
  BY DEF CapsInv
<1>2. QED
  BY <1>1, InitCapsInv, CapsInvInductive, PTL DEF Spec

\* No order in flight can take the counters over a cap it was judged under.
THEOREM CapsRespected == Spec => []InFlightWithinCaps
<1>1. CapsInv => InFlightWithinCaps
  BY DEF CapsInv
<1>2. QED
  BY <1>1, InitCapsInv, CapsInvInductive, PTL DEF Spec

-----------------------------------------------------------------------------
(* The pause invariant: an order that may still leave while trading is      *)
(* paused is the one of a snapshot taken before, and there is one snapshot. *)

MayStillLeave ==
    \/ pc = "detected" /\ ~snapshot.settings.paused
    \/ pc = "sending" /\ order.attempt = 1

PauseInv ==
    /\ startsPaused \in {0, 1}
    /\ ~settings.paused => startsPaused = 0
    /\ MayStillLeave => startsPaused = 0
    /\ pc = "sending" => order.attempt > 0

LEMMA PauseInvStep == TypeOK /\ PauseInv /\ [Next]_vars => PauseInv'
<1> SUFFICES ASSUME TypeOK, PauseInv, [Next]_vars PROVE PauseInv'
  OBVIOUS
<1> USE DEF PauseInv
<1>1. CASE UNCHANGED vars
  BY <1>1 DEF MayStillLeave, vars, memory, task, history
<1>2. CASE Ingest
  <2>1. pc = "idle" /\ pc' = "idle" /\ UNCHANGED <<settings, startsPaused>>
    BY <1>2 DEF Ingest, Tick, FetchActivity, FetchFails, TradeMessage, Ready, memory,
                history
  <2>2. QED
    BY <2>1 DEF MayStillLeave
<1>3. CASE Rpc
  <2>1. UNCHANGED <<pc, snapshot, order>>
    BY <1>3, RpcUnchanged DEF counters
  <2>2. ASSUME NEW s, ChangeSettings(s), s.paused \in BOOLEAN PROVE PauseInv'
    BY <2>1, <2>2 DEF ChangeSettings, MayStillLeave
  <2>3. settings \in Settings
    BY DEF TypeOK
  <2>4. CASE PauseTrading \/ ResumeTrading \/ PanicClose
    BY <2>2, <2>3, <2>4 DEF PauseTrading, ResumeTrading, PanicClose, Settings
  <2>5. CASE SetMode
    <3>1. \A m \in NewModes : [settings EXCEPT !.mode = m].paused \in BOOLEAN
      BY <2>3 DEF Settings
    <3>2. QED
      BY <2>2, <2>5, <3>1 DEF SetMode
  <2>6. CASE SetRiskProfile
    <3>1. \A p \in NewProfiles : [settings EXCEPT !.profile = p].paused \in BOOLEAN
      BY <2>3 DEF Settings
    <3>2. QED
      BY <2>2, <2>6, <3>1 DEF SetRiskProfile
  <2>7. CASE SetCaps
    <3>1. \A c \in NewCaps : [settings EXCEPT !.caps = c].paused \in BOOLEAN
      BY <2>3 DEF Settings
    <3>2. QED
      BY <2>2, <2>7, <3>1 DEF SetCaps
  <2>8. CASE SetCopySells
    <3>1. \A b \in BOOLEAN : [settings EXCEPT !.copySells = b].paused \in BOOLEAN
      BY <2>3 DEF Settings
    <3>2. QED
      BY <2>2, <2>8, <3>1 DEF SetCopySells
  <2>9. CASE SetAutoStop
    <3>1. \A a \in NewAutoStops : [settings EXCEPT !.autoStop = a].paused \in BOOLEAN
      BY <2>3 DEF Settings
    <3>2. QED
      BY <2>2, <2>9, <3>1 DEF SetAutoStop
  <2>10. CASE (\E w \in Wallets : ResumeWallet(w)) \/ SaveSettings \/ SaveFails
    BY <2>1, <2>10
       DEF ResumeWallet, SaveSettings, SaveFails, MayStillLeave, memory, history
  <2>11. CASE SetMultiplier
    <3>1. \A x \in NewMultipliers : [settings EXCEPT !.multiplier = x].paused \in BOOLEAN
      BY <2>3 DEF Settings
    <3>2. QED
      BY <2>2, <2>11, <3>1 DEF SetMultiplier
  <2>12. CASE SetFollowerEquity
    <3>1. \A x \in NewEquities : [settings EXCEPT !.followerEquity = x].paused \in BOOLEAN
      BY <2>3 DEF Settings
    <3>2. QED
      BY <2>2, <2>12, <3>1 DEF SetFollowerEquity
  <2>13. CASE RejectedSetCaps
    <3>1. settings'.paused = settings.paused
      BY <2>3, <2>13, RejectedPart DEF Partial, Settings
    <3>2. QED
      BY <2>1, <2>13, <3>1 DEF RejectedSetCaps, MayStillLeave
  <2>14. QED
    BY <1>3, <2>4, <2>5, <2>6, <2>7, <2>8, <2>9, <2>10, <2>11, <2>12, <2>13 DEF Rpc
<1>4. CASE Midnight \/ \E f \in Fills : Publish(f)
  BY <1>4 DEF Midnight, Publish, MayStillLeave, memory, task, history
<1>5. CASE Restart
  BY <1>5 DEF Restart, MayStillLeave
<1>6. CASE WriteFails
  BY <1>6 DEF WriteFails, Return, MayStillLeave, memory
<1>7. CASE \E m \in Markets, side \in Sides, size \in UserFillSizes :
               UserFillMessage(m, side, size)
  BY <1>7 DEF UserFillMessage, MayStillLeave, task, history
<1>8. CASE Process
  <2>1. CASE Admit
    <3>1. snapshot'.settings = settings /\ pc' \in {"stopRow", "detected"}
      BY <2>1 DEF Admit
    <3>2. UNCHANGED <<settings, startsPaused>>
      BY <2>1 DEF Admit, history
    <3>3. QED
      BY <3>1, <3>2 DEF MayStillLeave
  <2>2. CASE Allow
    <3>1. ~snapshot.settings.paused
      BY <2>2 DEF Allow, Verdict, Paused
    <3>2. order'.attempt = 1
      BY <2>2 DEF Allow, Intent
    <3>3. QED
      BY <2>2, <3>1, <3>2 DEF Allow, MayStillLeave, memory
  <2>3. CASE SimulateFill \/ PostFilled
    <3>1. pc = "sending" /\ pc' = "orderRow" /\ UNCHANGED settings /\ CountPaused
      BY <2>3 DEF SimulateFill, PostFilled, Posting, Answered, memory
    <3>2. order.attempt = 1 => startsPaused = 0
      BY <3>1 DEF MayStillLeave
    <3>3. QED
      BY <3>1, <3>2 DEF CountPaused, MayStillLeave
  <2>4. CASE PostFailed
    <3>1. order'.attempt = order.attempt + 1 /\ order.attempt \in Nat
      BY <2>4 DEF PostFailed, TypeOK, Orders
    <3>2. pc = "sending" /\ pc' = "sending" /\ UNCHANGED settings /\ CountPaused
      BY <2>4 DEF PostFailed, Posting, memory
    <3>3. order.attempt = 1 => startsPaused = 0
      BY <3>2 DEF MayStillLeave
    <3>4. order.attempt > 0 /\ order'.attempt # 1 /\ order'.attempt > 0
      BY <3>1, <3>2
    <3>5. startsPaused' \in {0, 1} /\ (~settings'.paused => startsPaused' = 0)
      BY <3>2, <3>3 DEF CountPaused
    <3>6. QED
      BY <3>2, <3>4, <3>5 DEF MayStillLeave
  <2>5. CASE SkipDuplicate \/ RecordStop \/ RecordStopEvent \/ RecordBlock
             \/ RecordFailure \/ GiveUp \/ InsertOrder \/ Settle \/ Block \/ RefuseLive
    BY <2>5 DEF SkipDuplicate, RecordStop, RecordStopEvent, RecordBlock, RecordFailure,
                GiveUp, InsertOrder, Settle, Block, RefuseLive, GoTo, MayStillLeave,
                memory, history
  <2>6. CASE MarkStopped \/ DropUnsizeable \/ OrderConflict \/ RecordLast
    BY <2>6 DEF MarkStopped, DropUnsizeable, OrderConflict, RecordLast, Return,
                MayStillLeave, memory, history
  <2>7. QED
    BY <1>8, <2>1, <2>2, <2>3, <2>4, <2>5, <2>6 DEF Process
<1>9. CASE Reconcile
  <2>1. UNCHANGED <<pc, snapshot, order, startsPaused>>
        /\ (settings' = settings \/ settings'.paused = TRUE)
    BY <1>9 DEF Reconcile, CriticalPause, AutoCorrect, task, history, TypeOK, Settings
  <2>2. QED
    BY <2>1 DEF MayStillLeave
<1>10. QED
  BY <1>1, <1>2, <1>3, <1>4, <1>5, <1>6, <1>7, <1>8, <1>9 DEF Next

\* After a pause at most one order still starts, whatever else is going on.
THEOREM PauseLeavesOneOrder == Spec => []AtMostOneOrderAfterPause
<1>1. Init => PauseInv
  BY DEF Init, PauseInv, MayStillLeave
<1>2. PauseInv => AtMostOneOrderAfterPause
  BY DEF PauseInv, AtMostOneOrderAfterPause
<1>3. QED
  BY <1>1, <1>2, PauseInvStep, TypeCorrect, PTL DEF Spec

-----------------------------------------------------------------------------
(* Every fill leaves a trace.                                              *)

\* The rows that are there before the last event of a fill is recorded.
TraceInv ==
    /\ pc \in {"stopEvent", "stopMark", "lastEvent"} => Traced(current)
    /\ pc = "settle" => <<current, "filled">> \in orders
    /\ restarts \in Nat

LEMMA TraceStays ==
  ASSUME TraceInv, UNCHANGED <<pc, current, restarts>>, orders \subseteq orders',
         riskEvents \subseteq riskEvents'
  PROVE  TraceInv'
BY DEF TraceInv, Traced

LEMMA TraceProcess == ASSUME TypeOK, TraceInv, Process PROVE TraceInv'
<1>0. restarts' = restarts
  BY DEF Process, SkipDuplicate, Admit, RecordStop, RecordStopEvent, MarkStopped,
         DropUnsizeable, Block, RecordBlock, Allow, SimulateFill, RefuseLive, PostFilled,
         PostFailed, Posting, GiveUp, InsertOrder, OrderConflict, Settle, RecordFailure,
         RecordLast, bounds
<1>1. CASE SkipDuplicate
  BY <1>0, <1>1, TraceStays DEF SkipDuplicate, database
<1>2. CASE Admit
  BY <1>0, <1>2 DEF Admit, TraceInv
<1>3. CASE RecordStop \/ RecordFailure
  <2>1. <<current, "auto_stop_triggered">> \in riskEvents'
        \/ <<current, "execution_failed">> \in riskEvents'
    BY <1>0, <1>3 DEF RecordStop, RecordFailure
  <2>2. current' = current /\ pc' # "settle"
    BY <1>0, <1>3 DEF RecordStop, RecordFailure, GoTo
  <2>3. QED
    BY <1>0, <2>1, <2>2 DEF TraceInv, Traced, Reasons
<1>4. CASE RecordStopEvent
  BY <1>0, <1>4 DEF RecordStopEvent, GoTo, TraceInv, Traced, database
<1>5. CASE MarkStopped \/ DropUnsizeable \/ OrderConflict \/ RecordLast
  BY <1>0, <1>5 DEF MarkStopped, DropUnsizeable, OrderConflict, RecordLast, Return, TraceInv
<1>6. CASE Block \/ Allow \/ RefuseLive
  BY <1>0, <1>6 DEF Block, Allow, RefuseLive, TraceInv
<1>7. CASE RecordBlock
  <2>1. verdict \in Reasons /\ <<current, verdict>> \in riskEvents'
    BY <1>0, <1>7 DEF RecordBlock, TypeOK
  <2>2. current' = current /\ pc' = "lastEvent"
    BY <1>0, <1>7 DEF RecordBlock, GoTo
  <2>3. QED
    BY <1>0, <2>1, <2>2 DEF TraceInv, Traced
<1>8. CASE SimulateFill \/ PostFilled \/ GiveUp
  BY <1>0, <1>8 DEF SimulateFill, PostFilled, GiveUp, Answered, GoTo, TraceInv
<1>9. CASE PostFailed
  BY <1>0, <1>9 DEF PostFailed, Posting, TraceInv
<1>10. CASE InsertOrder
  BY <1>0, <1>10 DEF InsertOrder, GoTo, TraceInv
<1>11. CASE Settle
  BY <1>0, <1>11 DEF Settle, GoTo, TraceInv, Traced, database
<1>12. QED
  BY <1>1, <1>2, <1>3, <1>4, <1>5, <1>6, <1>7, <1>8, <1>9, <1>10, <1>11 DEF Process

LEMMA TraceInvStep == TypeOK /\ TraceInv /\ [Next]_vars => TraceInv'
<1> SUFFICES ASSUME TypeOK, TraceInv, [Next]_vars PROVE TraceInv'
  OBVIOUS
<1>1. CASE Process
  BY <1>1, TraceProcess
<1>2. CASE Ingest
  BY <1>2 DEF Ingest, Tick, FetchActivity, FetchFails, TradeMessage, Ready,
                TraceInv, database, bounds
<1>3. CASE Rpc \/ Reconcile \/ Midnight \/ \E f \in Fills : Publish(f)
  <2>1. UNCHANGED <<pc, current, orders, riskEvents, restarts>>
    BY <1>3 DEF Rpc, PauseTrading, ResumeTrading, PanicClose, SetMode, SetRiskProfile,
                SetMultiplier, SetFollowerEquity, SetCaps, RejectedSetCaps, SetCopySells, SetAutoStop,
                ResumeWallet, SaveSettings, SaveFails, Command, ChangeSettings,
                Reconcile, CriticalPause, AutoCorrect, Midnight, Publish, database, task,
                bounds
  <2>2. QED
    BY <2>1, TraceStays
<1>4. CASE WriteFails \/ Restart
  BY <1>4 DEF WriteFails, Restart, Return, TraceInv
<1>5. CASE \E m \in Markets, side \in Sides, size \in UserFillSizes :
               UserFillMessage(m, side, size)
  BY <1>5, TraceStays DEF UserFillMessage, database, task, bounds
<1>6. CASE UNCHANGED vars
  BY <1>6, TraceStays DEF vars, database, task, bounds
<1>7. QED
  BY <1>1, <1>2, <1>3, <1>4, <1>5, <1>6 DEF Next

\* Whatever fails or is commanded meanwhile, a fill the engine is done with has
\* an order, a reason in the risk events, no size, or a write that failed.
THEOREM FillsLeaveTraces == Spec => EveryFillLeavesATrace
<1>1. ASSUME TypeOK, TraceInv, [Next]_vars, NEW id \in ExecIds,
             pc # "idle", current = id, pc' = "idle", restarts' = restarts
      PROVE  \/ Traced(id)' \/ id \in dropped'
             \/ ~Sizeable(Fill(id), snapshot.settings)
  <2>1. CASE MarkStopped \/ RecordLast
    <3>1. pc \in {"stopMark", "lastEvent"} /\ UNCHANGED <<orders, riskEvents>>
      BY <2>1 DEF MarkStopped, RecordLast, database
    <3>2. Traced(id)
      BY <1>1, <3>1 DEF TraceInv
    <3>3. QED
      BY <3>1, <3>2 DEF Traced
  <2>2. CASE DropUnsizeable
    <3>1. Verdict(current, snapshot) = "unsizeable"
      BY <2>2 DEF DropUnsizeable
    <3>2. CASE Sizeable(Fill(current), snapshot.settings)
      BY <3>1, <3>2, DecisionType DEF Verdict, BlockReasons
    <3>3. QED
      BY <1>1, <3>2
  <2>3. CASE OrderConflict \/ WriteFails
    BY <1>1, <2>3 DEF OrderConflict, WriteFails
  <2>4. CASE Restart
    <3>1. restarts' = restarts + 1 /\ restarts \in Nat
      BY <1>1, <2>4 DEF Restart, TraceInv
    <3>2. QED
      BY <1>1, <3>1
  <2>5. CASE \/ SkipDuplicate \/ Admit \/ RecordStop \/ RecordStopEvent \/ Block
             \/ RecordBlock \/ Allow \/ SimulateFill \/ RefuseLive \/ PostFilled
             \/ PostFailed \/ GiveUp \/ InsertOrder \/ Settle \/ RecordFailure
    BY <1>1, <2>5
       DEF SkipDuplicate, Admit, RecordStop, RecordStopEvent, Block, RecordBlock, Allow,
           SimulateFill, RefuseLive, PostFilled, PostFailed, Posting, Answered, GiveUp,
           InsertOrder, Settle, RecordFailure, GoTo
  <2>6. CASE Ingest \/ Rpc \/ Reconcile \/ Midnight \/ (\E f \in Fills : Publish(f))
             \/ UNCHANGED vars
             \/ \E m \in Markets, side \in Sides, size \in UserFillSizes :
                    UserFillMessage(m, side, size)
    <3>1. pc' = pc
      BY <2>6 DEF Ingest, Tick, FetchActivity, FetchFails, TradeMessage, Rpc,
                  PauseTrading, ResumeTrading, PanicClose, SetMode, SetRiskProfile,
                  SetMultiplier, SetFollowerEquity, SetCaps, RejectedSetCaps, SetCopySells, SetAutoStop,
                  ResumeWallet, SaveSettings, SaveFails, Command, Reconcile,
                  CriticalPause, AutoCorrect, Midnight, Publish, UserFillMessage, vars,
                  task
    <3>2. QED
      BY <1>1, <3>1
  <2>7. QED
    BY <1>1, <2>1, <2>2, <2>3, <2>4, <2>5, <2>6 DEF Next, Process
<1>2. TypeOK /\ TraceInv /\ [Next]_vars
      => [\A id \in ExecIds :
            /\ pc # "idle" /\ current = id
            /\ pc' = "idle" /\ restarts' = restarts
            => \/ Traced(id)' \/ id \in dropped'
               \/ ~Sizeable(Fill(id), snapshot.settings)]_vars
  BY <1>1, Zenon
<1>3. Init => TraceInv
  BY DEF Init, TraceInv
<1>4. QED
  BY <1>2, <1>3, TraceInvStep, TypeCorrect, PTL DEF Spec, EveryFillLeavesATrace

-----------------------------------------------------------------------------
(* One order per id and process, as long as the cache never has to evict.  *)

BootInv ==
    /\ Cardinality(dedupe.seen) = Len(dedupe.queue)
    /\ \A id \in ExecIds : starts[id] \in {0, 1} /\ (starts[id] = 1 => id \in dedupe.seen)
    /\ pc = "detected" => current \in dedupe.seen /\ starts[current] = 0

LEMMA BootStays ==
  ASSUME BootInv, UNCHANGED <<dedupe, starts>>,
         pc' # "detected" \/ UNCHANGED <<pc, current>>
  PROVE  BootInv'
BY DEF BootInv

\* With room for every id the cache only grows.
LEMMA NothingEvicted ==
  ASSUME IsFiniteSet(ExecIds), Cardinality(ExecIds) <= MaxDedupe, TypeOK, BootInv,
         NEW id \in ExecIds, IsFresh(dedupe, id)
  PROVE  LET after == AddKey(dedupe, id, MaxDedupe)
         IN  /\ after.seen = dedupe.seen \cup {id}
             /\ Cardinality(after.seen) = Len(after.queue)
<1>1. dedupe.seen \in SUBSET ExecIds /\ dedupe.queue \in Seq(ExecIds)
  BY DEF TypeOK
<1>2. IsFiniteSet(dedupe.seen) /\ dedupe.seen \cup {id} \in SUBSET ExecIds
  BY <1>1, FS_Subset
<1>3. Cardinality(dedupe.seen \cup {id}) = Cardinality(dedupe.seen) + 1
  BY <1>2, FS_AddElement DEF IsFresh
<1>4. Cardinality(dedupe.seen \cup {id}) <= Cardinality(ExecIds)
  BY <1>2, FS_Subset
<1>5. /\ Cardinality(dedupe.seen) \in Nat /\ Cardinality(ExecIds) \in Nat
      /\ MaxDedupe \in Nat
  BY <1>2, FS_CardinalityType, SizeAssumption
<1> DEFINE queue == Append(dedupe.queue, id)
<1>6. Len(queue) = Cardinality(dedupe.seen) + 1
  BY <1>1 DEF BootInv
<1>7. ~(Len(queue) > MaxDedupe)
  BY <1>3, <1>4, <1>5, <1>6
<1>8. AddKey(dedupe, id, MaxDedupe) = [seen |-> dedupe.seen \cup {id}, queue |-> queue]
  BY <1>7 DEF AddKey
<1>9. QED
  BY <1>3, <1>6, <1>8

LEMMA BootInvStep ==
  ASSUME IsFiniteSet(ExecIds), Cardinality(ExecIds) <= MaxDedupe
  PROVE  TypeOK /\ BootInv /\ [Next]_vars => BootInv'
<1> SUFFICES ASSUME TypeOK, BootInv, [Next]_vars PROVE BootInv'
  OBVIOUS
<1>1. CASE Admit
  <2> DEFINE id == Head(batch)
  <2>1. id \in ExecIds /\ IsFresh(dedupe, id)
    BY <1>1 DEF Admit, TypeOK
  <2>2. /\ dedupe' = AddKey(dedupe, id, MaxDedupe)
        /\ current' = id /\ starts' = starts
    BY <1>1 DEF Admit, history
  <2> HIDE DEF id
  <2>3. /\ dedupe'.seen = dedupe.seen \cup {id}
        /\ Cardinality(dedupe'.seen) = Len(dedupe'.queue)
    BY <2>1, <2>2, NothingEvicted
  <2>4. starts[id] = 0
    BY <2>1 DEF BootInv, IsFresh
  <2>5. QED
    BY <2>1, <2>2, <2>3, <2>4 DEF BootInv
<1>2. CASE Allow
  <2>1. current \in ExecIds /\ pc = "detected" /\ pc' = "sending" /\ dedupe' = dedupe
    BY <1>2, CurrentFill DEF Allow, memory
  <2>2. starts' = [starts EXCEPT ![current] = @ + 1] /\ starts \in [ExecIds -> Nat]
    BY <1>2 DEF Allow, TypeOK
  <2>3. current \in dedupe.seen /\ starts'[current] = 1
    BY <2>1, <2>2 DEF BootInv
  <2>4. \A id \in ExecIds \ {current} : starts'[id] = starts[id]
    BY <2>2
  <2>5. QED
    BY <2>1, <2>3, <2>4 DEF BootInv
<1>3. CASE Process /\ ~Admit /\ ~Allow
  <2>1. UNCHANGED <<dedupe, starts>>
    BY <1>3 DEF Process, SkipDuplicate, RecordStop, RecordStopEvent, MarkStopped,
                DropUnsizeable, Block, RecordBlock, SimulateFill, RefuseLive, PostFilled,
                PostFailed, Posting, GiveUp, InsertOrder, OrderConflict, Settle,
                RecordFailure, RecordLast, memory, history
  <2>2. pc' # "detected" \/ UNCHANGED <<pc, current>>
    BY <1>3 DEF Process, SkipDuplicate, RecordStop, RecordStopEvent, MarkStopped,
                DropUnsizeable, Block, RecordBlock, SimulateFill, RefuseLive, PostFilled,
                PostFailed, Posting, GiveUp, InsertOrder, OrderConflict, Settle,
                RecordFailure, RecordLast, Return, GoTo, Answered
  <2>3. QED
    BY <2>1, <2>2, BootStays
<1>4. CASE Ingest \/ Rpc \/ Reconcile \/ Midnight \/ (\E f \in Fills : Publish(f))
           \/ UNCHANGED vars
           \/ \E m \in Markets, side \in Sides, size \in UserFillSizes :
                  UserFillMessage(m, side, size)
  <2>1. UNCHANGED <<pc, current>>
    BY <1>4 DEF Ingest, Tick, FetchActivity, FetchFails, TradeMessage, Rpc,
                PauseTrading, ResumeTrading, PanicClose, SetMode, SetRiskProfile,
                SetMultiplier, SetFollowerEquity, SetCaps, RejectedSetCaps, SetCopySells, SetAutoStop,
                ResumeWallet, SaveSettings, SaveFails, Command, Reconcile,
                CriticalPause, AutoCorrect, Midnight, Publish, UserFillMessage, vars, task
  <2>2. UNCHANGED <<dedupe, starts>>
    BY <1>4 DEF Ingest, Tick, FetchActivity, FetchFails, TradeMessage, Rpc,
                PauseTrading, ResumeTrading, PanicClose, SetMode, SetRiskProfile,
                SetMultiplier, SetFollowerEquity, SetCaps, RejectedSetCaps, SetCopySells, SetAutoStop,
                ResumeWallet, SaveSettings, SaveFails, Command, ChangeSettings, Reconcile,
                CriticalPause, AutoCorrect, Midnight, Publish, UserFillMessage, vars,
                memory, history
  <2>3. QED
    BY <2>1, <2>2, BootStays
<1>5. CASE WriteFails
  BY <1>5, BootStays DEF WriteFails, Return, memory
<1>6. CASE Restart
  <2>1. dedupe' = EmptyCache /\ pc' = "idle" /\ starts' = [id \in ExecIds |-> 0]
    BY <1>6 DEF Restart
  <2>2. QED
    BY <2>1, FS_EmptySet DEF BootInv, EmptyCache
<1>7. QED
  BY <1>1, <1>2, <1>3, <1>4, <1>5, <1>6 DEF Next

\* An execution id becomes an order at most once per process, however often it is
\* polled or delivered, while the ids fit the cache (100 000 in the engine).
THEOREM IdsOrderedOnce ==
  ASSUME IsFiniteSet(ExecIds), Cardinality(ExecIds) <= MaxDedupe
  PROVE  Spec => []OneOrderPerBoot
<1>1. Init => BootInv
  BY FS_EmptySet DEF Init, BootInv, EmptyCache
<1>2. BootInv => OneOrderPerBoot
  BY DEF BootInv, OneOrderPerBoot
<1>3. QED
  BY <1>1, <1>2, BootInvStep, TypeCorrect, PTL DEF Spec

-----------------------------------------------------------------------------
(* A wallet that fails the auto-stop test is not traded for any more.      *)

\* An order that may still be charged is for a wallet that passed the test of its
\* snapshot, on the record it still has.
StopInv ==
    /\ pc \in {"detected", "sending", "orderRow", "settle"} =>
           ~CheckAutoStop(performance[Fill(current).wallet], snapshot.settings.autoStop)
    /\ restarts \in Nat

LEMMA StopStays ==
  ASSUME StopInv, UNCHANGED <<performance, current, snapshot, restarts>>,
         \/ pc' = pc \/ pc' \notin {"detected", "sending", "orderRow", "settle"}
         \/ pc \in {"detected", "sending", "orderRow", "settle"}
  PROVE  StopInv'
BY DEF StopInv, Fill

LEMMA StopInvStep == TypeOK /\ StopInv /\ [Next]_vars => StopInv'
<1> SUFFICES ASSUME TypeOK, StopInv, [Next]_vars PROVE StopInv'
  OBVIOUS
<1>1. CASE Admit
  <2>1. /\ current' = Head(batch) /\ UNCHANGED <<performance, restarts>>
        /\ snapshot'.settings = settings
        /\ pc' = IF StopsCopying(Fill(Head(batch)).wallet) THEN "stopRow" ELSE "detected"
    BY <1>1 DEF Admit, bounds
  <2>2. Fill(current)' = Fill(Head(batch))
    BY <2>1 DEF Fill
  <2>3. QED
    BY <2>1, <2>2 DEF StopInv, StopsCopying
<1>2. CASE Process /\ ~Admit
  <2>1. CASE RecordStop \/ RecordStopEvent \/ RecordBlock \/ RecordFailure \/ GiveUp
             \/ InsertOrder \/ Block \/ Allow \/ RefuseLive \/ SkipDuplicate
             \/ SimulateFill \/ PostFilled \/ PostFailed
    BY <2>1, StopStays
       DEF RecordStop, RecordStopEvent, RecordBlock, RecordFailure, GiveUp, InsertOrder,
           Block, Allow, RefuseLive, SkipDuplicate, SimulateFill, PostFilled, PostFailed,
           Posting, Answered, GoTo, memory, bounds
  <2>2. CASE MarkStopped \/ DropUnsizeable \/ OrderConflict \/ RecordLast
    BY <2>2 DEF MarkStopped, DropUnsizeable, OrderConflict, RecordLast, Return, StopInv,
                bounds
  <2>3. CASE Settle
    BY <2>3 DEF Settle, GoTo, StopInv, bounds
  <2>4. QED
    BY <1>2, <2>1, <2>2, <2>3 DEF Process
<1>3. CASE Ingest \/ Rpc \/ Reconcile \/ Midnight \/ (\E f \in Fills : Publish(f))
           \/ UNCHANGED vars
           \/ \E m \in Markets, side \in Sides, size \in UserFillSizes :
                  UserFillMessage(m, side, size)
  <2>1. UNCHANGED <<pc, current, snapshot>>
    BY <1>3 DEF Ingest, Tick, FetchActivity, FetchFails, TradeMessage, Rpc,
                PauseTrading, ResumeTrading, PanicClose, SetMode, SetRiskProfile,
                SetMultiplier, SetFollowerEquity, SetCaps, RejectedSetCaps, SetCopySells, SetAutoStop,
                ResumeWallet, SaveSettings, SaveFails, Command, Reconcile,
                CriticalPause, AutoCorrect, Midnight, Publish, UserFillMessage, vars, task
  <2>2. UNCHANGED <<performance, restarts>>
    BY <1>3 DEF Ingest, Tick, FetchActivity, FetchFails, TradeMessage, Rpc,
                PauseTrading, ResumeTrading, PanicClose, SetMode, SetRiskProfile,
                SetMultiplier, SetFollowerEquity, SetCaps, RejectedSetCaps, SetCopySells, SetAutoStop,
                ResumeWallet, SaveSettings, SaveFails, Command, ChangeSettings, Reconcile,
                CriticalPause, AutoCorrect, Midnight, Publish, UserFillMessage, vars,
                memory, bounds
  <2>3. QED
    BY <2>1, <2>2, StopStays
<1>4. CASE WriteFails \/ Restart
  BY <1>4 DEF WriteFails, Restart, Return, StopInv
<1>5. QED
  BY <1>1, <1>2, <1>3, <1>4 DEF Next

\* Only Settle and a restart touch the records.
LEMMA PerformanceFrame ==
  ASSUME [Next]_vars, ~Settle, ~Restart PROVE performance' = performance
<1>1. CASE Process
  BY <1>1 DEF Process, SkipDuplicate, Admit, RecordStop, RecordStopEvent,
              MarkStopped, DropUnsizeable, Block, RecordBlock, Allow, SimulateFill,
              RefuseLive, PostFilled, PostFailed, Posting, GiveUp, InsertOrder,
              OrderConflict, RecordFailure, RecordLast, memory
<1>2. CASE ~Process
  BY <1>2
     DEF Next, WriteFails, Ingest, Tick, FetchActivity, FetchFails, TradeMessage, Rpc,
         PauseTrading, ResumeTrading, PanicClose, SetMode, SetRiskProfile,
         SetMultiplier, SetFollowerEquity, SetCaps, RejectedSetCaps, SetCopySells, SetAutoStop,
         ResumeWallet, SaveSettings, SaveFails, Command, ChangeSettings, Reconcile,
         CriticalPause, AutoCorrect, Midnight, Publish, UserFillMessage, vars, memory
<1>3. QED
  BY <1>1, <1>2

\* No trade is added to the record of a wallet that nobody resumed while it fails the
\* thresholds in force, whatever else is commanded and whatever was under way.
THEOREM StoppedTradeNoMore == Spec => StoppedWalletsTradeNoMore
<1>1. ASSUME TypeOK, StopInv, [Next]_vars, NEW w \in Wallets, AutoStopped(w), w \notin resumed,
             InFlight => snapshot.settings.autoStop = settings.autoStop
      PROVE  performance'[w].trades <= performance[w].trades
  <2>1. performance \in [Wallets -> Performances] /\ performance[w].trades \in Nat
    <3>1. performance \in [Wallets -> Performances]
      BY <1>1 DEF TypeOK
    <3>2. performance[w] \in Performances
      BY <3>1
    <3>3. QED
      BY <3>1, <3>2 DEF Performances
  <2>2. CASE Settle
    <3>1. /\ pc = "settle" /\ current \in ExecIds
          /\ ~CheckAutoStop(performance[Fill(current).wallet],
                            snapshot.settings.autoStop)
      BY <1>1, <2>2, CurrentFill DEF Settle, StopInv
    <3>2. Fill(current).wallet # w
      BY <1>1, <3>1 DEF InFlight, AutoStopped
    <3>3. performance'[w] = performance[w]
      BY <2>1, <2>2, <3>2 DEF Settle
    <3>4. QED
      BY <2>1, <3>3
  <2>3. CASE Restart
    BY <2>1, <2>3 DEF Restart, NoTrades
  <2>4. CASE ~Settle /\ ~Restart
    <3>1. performance' = performance
      BY <1>1, <2>4, PerformanceFrame
    <3>2. QED
      BY <2>1, <3>1
  <2>5. QED
    BY <2>2, <2>3, <2>4
<1>2. TypeOK /\ StopInv /\ [Next]_vars
      => [\A w \in Wallets :
            /\ AutoStopped(w) /\ w \notin resumed
            /\ InFlight => snapshot.settings.autoStop = settings.autoStop
            => performance'[w].trades <= performance[w].trades]_vars
  BY <1>1, Zenon
<1>3. Init => StopInv
  BY DEF Init, StopInv
<1>4. QED
  BY <1>2, <1>3, StopInvStep, TypeCorrect, PTL DEF Spec, StoppedWalletsTradeNoMore

-----------------------------------------------------------------------------
(* The refinement of the reservation ledger.                               *)

\* What a step leaves to the ledger when it charges nothing and nothing is in
\* flight, before or after.
LEMMA LookStep ==
  ASSUME ~InFlight, ~InFlight', UNCHANGED <<daily, exposure, openPositions>>
  PROVE  Ledger!Look
BY DEF Ledger!Look

\* A step that keeps the order in flight keeps the claim.
LEMMA StutterStep ==
  ASSUME InFlight, InFlight', order'.notional = order.notional,
         UNCHANGED <<current, snapshot, daily, exposure, openPositions>>
  PROVE  UNCHANGED Ledger!ledgerVars
BY DEF Ledger!ledgerVars, Fill

\* A step that drops the order in flight without charging it.
LEMMA ReleaseStep ==
  ASSUME TypeOK, InFlightWithinCaps, InFlight, ~InFlight',
         UNCHANGED <<daily, exposure, openPositions>>
  PROVE  Ledger!Release
<1>1. order.notional > 0
  <2>1. snapshot.settings.caps.perTrade \in Nat
    BY DEF TypeOK, Snapshots, Settings, Caps
  <2>2. QED
    BY <2>1 DEF InFlightWithinCaps
<1>2. QED
  BY <1>1 DEF Ledger!Release

LEMMA LedgerProcess ==
  ASSUME CapsInv, CapsInv', Corrections = {}, Process
  PROVE  Ledger!Next \/ UNCHANGED Ledger!ledgerVars
<1> USE DEF CapsInv
<1>1. CASE SkipDuplicate \/ Admit
  <2>1. ~InFlight /\ ~InFlight'
    BY <1>1 DEF SkipDuplicate, Admit, InFlight
  <2>2. UNCHANGED <<daily, exposure, openPositions>>
    BY <1>1 DEF SkipDuplicate, Admit, memory
  <2>3. QED
    BY <2>1, <2>2, LookStep DEF Ledger!Next
<1>2. CASE RecordStop \/ RecordStopEvent \/ RecordBlock \/ RecordFailure
  <2>1. ~InFlight /\ ~InFlight'
    BY <1>2 DEF RecordStop, RecordStopEvent, RecordBlock, RecordFailure, GoTo, InFlight
  <2>2. UNCHANGED <<daily, exposure, openPositions>>
    BY <1>2 DEF RecordStop, RecordStopEvent, RecordBlock, RecordFailure, memory
  <2>3. QED
    BY <2>1, <2>2, LookStep DEF Ledger!Next
<1>3. CASE MarkStopped \/ DropUnsizeable \/ RecordLast \/ Block
  <2>1. ~InFlight /\ ~InFlight'
    BY <1>3 DEF MarkStopped, DropUnsizeable, RecordLast, Block, Return, InFlight
  <2>2. UNCHANGED <<daily, exposure, openPositions>>
    BY <1>3 DEF MarkStopped, DropUnsizeable, RecordLast, Block, memory
  <2>3. QED
    BY <2>1, <2>2, LookStep DEF Ledger!Next
<1>4. CASE Allow
  <2>1. ~InFlight /\ InFlight'
    BY <1>4 DEF Allow, InFlight
  <2>2. UNCHANGED <<current, snapshot, daily, exposure, openPositions>>
    BY <1>4 DEF Allow, memory
  <2>3. LET caps == snapshot.settings.caps
        IN  /\ order'.notional \in 1..caps.perTrade
            /\ daily + order'.notional <= caps.daily
            /\ exposure[Fill(current).market] + order'.notional <= caps.market
            /\ openPositions + 1 <= caps.open
    BY <2>1, <2>2 DEF InFlightWithinCaps, Fill
  <2>4. snapshot.settings.caps.perTrade \in Nat
    BY DEF TypeOK, Snapshots, Settings, Caps
  <2>5. Ledger!Claim
    BY <2>1, <2>2, <2>3, <2>4 DEF Ledger!Claim, Fill
  <2>6. QED
    BY <2>5 DEF Ledger!Next
<1>5. CASE SimulateFill \/ PostFilled
  <2>1. order'.notional = order.notional
    BY <1>5 DEF SimulateFill, PostFilled, Answered, TypeOK, Orders
  <2>2. InFlight /\ InFlight'
    BY <1>5 DEF SimulateFill, PostFilled, Posting, Answered, InFlight
  <2>3. UNCHANGED <<current, snapshot, daily, exposure, openPositions>>
    BY <1>5 DEF SimulateFill, PostFilled, Posting, Answered, memory
  <2>4. QED
    BY <2>1, <2>2, <2>3, StutterStep
<1>6. CASE PostFailed \/ RefuseLive \/ GiveUp
  <2>1. order'.notional = order.notional
    BY <1>6 DEF PostFailed, RefuseLive, GiveUp, GoTo, TypeOK, Orders
  <2>2. InFlight /\ InFlight'
    BY <1>6 DEF PostFailed, RefuseLive, GiveUp, GoTo, Posting, InFlight
  <2>3. UNCHANGED <<current, snapshot, daily, exposure, openPositions>>
    BY <1>6 DEF PostFailed, RefuseLive, GiveUp, GoTo, Posting, memory
  <2>4. QED
    BY <2>1, <2>2, <2>3, StutterStep
<1>7. CASE InsertOrder
  <2>1. InFlight /\ UNCHANGED <<current, snapshot, order, daily, exposure, openPositions>>
    BY <1>7 DEF InsertOrder, GoTo, InFlight, memory
  <2>2. CASE order.success
    BY <1>7, <2>1, <2>2, StutterStep DEF InsertOrder, GoTo, InFlight
  <2>3. CASE ~order.success
    BY <1>7, <2>1, <2>3, ReleaseStep DEF InsertOrder, GoTo, InFlight, Ledger!Next
  <2>4. QED
    BY <2>2, <2>3
<1>8. CASE OrderConflict
  <2>1. InFlight /\ ~InFlight' /\ UNCHANGED <<daily, exposure, openPositions>>
    BY <1>8 DEF OrderConflict, Return, InFlight, memory
  <2>2. QED
    BY <2>1, ReleaseStep DEF Ledger!Next
<1>9. CASE Settle
  <2>1. InFlight /\ ~InFlight'
    BY <1>9 DEF Settle, GoTo, InFlight
  <2>2. order.notional \in Nat /\ order.notional > 0
    <3>1. snapshot.settings.caps.perTrade \in Nat
      BY DEF TypeOK, Snapshots, Settings, Caps
    <3>2. QED
      BY <2>1, <3>1 DEF InFlightWithinCaps
  <2>3. Fill(current) \in FillRecords
    BY <1>9, CurrentFill DEF Settle
  <2>4. Fill(current).market \in Markets /\ exposure[Fill(current).market] \in Nat
        /\ openPositions \in Nat
    BY <2>3 DEF FillRecords, TypeOK
  <2>5. /\ daily' = daily + order.notional
        /\ exposure' = [exposure EXCEPT ![Fill(current).market] =
                IF Fill(current).side = "buy" THEN @ + order.notional
                ELSE Greater(@ - order.notional, 0)]
        /\ openPositions' = IF Fill(current).side = "buy" THEN openPositions + 1
                            ELSE Greater(openPositions - 1, 0)
    BY <1>9 DEF Settle
  <2>6. Ledger!Charge
    <3>1. CASE Fill(current).side = "buy"
      BY <2>1, <2>2, <2>5, <3>1 DEF Ledger!Charge
    <3>2. CASE Fill(current).side # "buy"
      <4>1. openPositions' = IF openPositions > 0 THEN openPositions - 1 ELSE 0
        BY <2>4, <2>5, <3>2 DEF Greater
      <4>2. exposure' = [exposure EXCEPT ![Fill(current).market] =
                IF @ > order.notional THEN @ - order.notional ELSE 0]
        <5>1. \A a, b \in Nat : Greater(a - b, 0) = IF a > b THEN a - b ELSE 0
          BY DEF Greater
        <5>2. Greater(exposure[Fill(current).market] - order.notional, 0)
              = IF exposure[Fill(current).market] > order.notional
                THEN exposure[Fill(current).market] - order.notional ELSE 0
          BY <2>2, <2>4, <5>1
        <5>3. QED
          BY <2>5, <3>2, <5>2
      <4>3. QED
        BY <2>1, <2>2, <2>5, <3>2, <4>1, <4>2 DEF Ledger!Charge
    <3>3. QED
      BY <3>1, <3>2
  <2>7. QED
    BY <2>6 DEF Ledger!Next
<1>10. QED
  BY <1>1, <1>2, <1>3, <1>4, <1>5, <1>6, <1>7, <1>8, <1>9 DEF Process

LEMMA LedgerStep ==
  ASSUME Corrections = {}
  PROVE  CapsInv /\ CapsInv' /\ [Next]_vars => [Ledger!Next]_(Ledger!ledgerVars)
<1> SUFFICES ASSUME CapsInv, CapsInv', [Next]_vars
             PROVE  Ledger!Next \/ UNCHANGED Ledger!ledgerVars
  OBVIOUS
<1>1. CASE UNCHANGED vars
  BY <1>1 DEF vars, memory, task, Ledger!ledgerVars, InFlight, Fill
<1>2. CASE Process
  BY <1>2, LedgerProcess
<1>3. CASE Tick
  <2>1. ~InFlight /\ ~InFlight' /\ UNCHANGED <<snapshot, exposure, openPositions>>
    BY <1>3 DEF Tick, Ready, InFlight
  <2>2. daily' = 0 \/ daily' = daily
    BY <1>3 DEF Tick, MaybeResetDailyNotional
  <2>3. Ledger!NewDay \/ Ledger!Look
    BY <2>1, <2>2 DEF Ledger!NewDay, Ledger!Look
  <2>4. QED
    BY <2>3 DEF Ledger!Next
<1>4. CASE Ingest /\ ~Tick
  <2>1. ~InFlight /\ ~InFlight' /\ UNCHANGED <<daily, exposure, openPositions>>
    BY <1>4 DEF Ingest, FetchActivity, FetchFails, TradeMessage, Ready, InFlight, memory
  <2>2. QED
    BY <2>1, LookStep DEF Ledger!Next
<1>5. CASE Midnight \/ Rpc \/ Reconcile \/ \E f \in Fills : Publish(f)
  <2>1. UNCHANGED counters
    BY <1>5, RpcUnchanged
       DEF Midnight, Reconcile, CriticalPause, Publish, memory, task, counters
  <2>2. QED
    BY <2>1 DEF counters, Ledger!ledgerVars, InFlight, Fill
<1>6. CASE WriteFails
  <2>1. ~InFlight' /\ UNCHANGED <<daily, exposure, openPositions>>
    BY <1>6 DEF WriteFails, Return, InFlight, memory
  <2>2. QED
    BY <2>1, LookStep, ReleaseStep DEF CapsInv, Ledger!Next
<1>7. CASE Restart
  BY <1>7 DEF Restart, InFlight, NoExposure, Ledger!Forget, Ledger!Next
<1>8. ASSUME NEW m \in Markets, NEW side \in Sides, NEW size \in UserFillSizes,
             UserFillMessage(m, side, size)
      PROVE  Ledger!Next
  <2>1. ~InFlight /\ ~InFlight' /\ UNCHANGED <<snapshot, daily, openPositions>>
    BY <1>8 DEF UserFillMessage, Ready, InFlight, task
  <2>2. \A n \in Markets \ {m} : exposure'[n] = exposure[n]
    BY <1>8 DEF UserFillMessage, CapsInv, TypeOK
  <2>3. Ledger!External
    BY <2>1, <2>2 DEF Ledger!External
  <2>4. QED
    BY <2>3 DEF Ledger!Next
<1>9. QED
  BY <1>1, <1>2, <1>3, <1>4, <1>5, <1>6, <1>7, <1>8 DEF Next

\* The pipeline, with every interleaving, failed write and restart, implements
\* the ledger: claims within the caps, charged in full or released, as long as
\* reconciliation does not overwrite the exposure.
THEOREM LedgerRefined ==
  ASSUME Corrections = {}
  PROVE  Spec => ImplementsLedger
<1>1. Init => Ledger!Init
  BY DEF Init, Ledger!Init, InFlight, NoExposure
<1>2. QED
  BY <1>1, InitCapsInv, CapsInvInductive, LedgerStep, PTL
     DEF Spec, ImplementsLedger, Ledger!Spec

-----------------------------------------------------------------------------
(* What a day may cost.                                                    *)

\* The caps in force now, those saved and those an order is judged under.
CapsBelow(d, o) ==
    /\ settings.caps.daily <= d /\ settings.caps.open <= o
    /\ savedSettings.caps.daily <= d /\ savedSettings.caps.open <= o
    /\ \A s \in unsaved : s.caps.daily <= d /\ s.caps.open <= o
    /\ snapshot.settings.caps.daily <= d /\ snapshot.settings.caps.open <= o

\* No day costs more than the largest daily cap, and no more positions are open
\* than the largest cap on them allows, a reconciliation apart.
WithinLargestCaps(d, o) == daily <= d /\ (Corrections = {} => openPositions <= o)

LEMMA CapsBelowStep ==
  ASSUME NEW d \in Nat, NEW o \in Nat, TypeOK, CapsBelow(d, o), [Next]_vars,
         InitialSettings.caps.daily <= d, InitialSettings.caps.open <= o,
         \A c \in NewCaps : c.daily <= d /\ c.open <= o
  PROVE  CapsBelow(d, o)'
<1>1. CASE Rpc
  <2>1. snapshot' = snapshot
    BY <1>1, RpcUnchanged DEF counters
  <2>2. CASE SaveSettings \/ SaveFails
    BY <2>1, <2>2 DEF SaveSettings, SaveFails, memory, database, CapsBelow
  <2>3. ASSUME NEW w \in Wallets, ResumeWallet(w) PROVE CapsBelow(d, o)'
    BY <2>1, <2>3 DEF ResumeWallet, Command, database, CapsBelow
  <2>4. CASE SetCaps
    <3>1. PICK c \in NewCaps : ChangeSettings([settings EXCEPT !.caps = c])
      BY <2>4 DEF SetCaps
    <3>2. settings'.caps = c /\ unsaved' = {settings'}
      BY <3>1 DEF ChangeSettings, TypeOK, Settings
    <3>3. savedSettings' = savedSettings
      BY <2>4 DEF SetCaps, Command, database
    <3>4. QED
      BY <2>1, <3>2, <3>3 DEF CapsBelow
  <2>5. CASE PauseTrading \/ ResumeTrading \/ PanicClose \/ SetMode \/ SetRiskProfile
             \/ SetMultiplier \/ SetFollowerEquity \/ SetCopySells \/ SetAutoStop
    <3>1. settings'.caps = settings.caps /\ unsaved' = {settings'}
      BY <2>5 DEF PauseTrading, ResumeTrading, PanicClose, SetMode, SetRiskProfile,
                  SetMultiplier, SetFollowerEquity, SetCopySells, SetAutoStop,
                  ChangeSettings, TypeOK, Settings
    <3>2. savedSettings' = savedSettings
      BY <2>5 DEF PauseTrading, ResumeTrading, PanicClose, SetMode, SetRiskProfile,
                  SetMultiplier, SetFollowerEquity, SetCopySells, SetAutoStop, Command,
                  database
    <3>3. QED
      BY <2>1, <3>1, <3>2 DEF CapsBelow
  <2>6. CASE RejectedSetCaps
    <3>1. PICK c \in NewCaps : Partial(c)
      BY <2>6, RejectedPart
    <3>2. /\ settings'.caps.daily \in {settings.caps.daily, c.daily}
          /\ settings'.caps.open = settings.caps.open
      BY <3>1 DEF Partial
    <3>3. UNCHANGED <<unsaved, savedSettings>>
      BY <2>6 DEF RejectedSetCaps, Command, database
    <3>4. c.daily <= d
      OBVIOUS
    <3>5. QED
      BY <2>1, <3>2, <3>3, <3>4 DEF CapsBelow
  <2>7. QED
    BY <1>1, <2>2, <2>3, <2>4, <2>5, <2>6 DEF Rpc
<1>2. CASE Process \/ WriteFails
  <2>1. UNCHANGED <<settings, savedSettings, unsaved>>
    BY <1>2 DEF Process, WriteFails, SkipDuplicate, Admit, RecordStop, RecordStopEvent,
                MarkStopped, DropUnsizeable, Block, RecordBlock, Allow, SimulateFill,
                RefuseLive, PostFilled, PostFailed, Posting, GiveUp, InsertOrder,
                OrderConflict, Settle, RecordFailure, RecordLast, memory, database
  <2>2. snapshot'.settings \in {settings, snapshot.settings, InitialSettings}
    <3>1. CASE Admit
      BY <3>1 DEF Admit
    <3>2. CASE ~Admit
      <4>1. snapshot' = snapshot \/ snapshot' = NoSnapshot
        BY <1>2, <3>2
           DEF Process, WriteFails, SkipDuplicate, RecordStop, RecordStopEvent,
               MarkStopped, DropUnsizeable, Block, RecordBlock, Allow, SimulateFill,
               RefuseLive, PostFilled, PostFailed, GiveUp, InsertOrder, OrderConflict,
               Settle, RecordFailure, RecordLast, Answered, GoTo, Return
      <4>2. QED
        BY <4>1 DEF NoSnapshot
    <3>3. QED
      BY <3>1, <3>2
  <2>3. QED
    BY <2>1, <2>2 DEF CapsBelow
<1>3. CASE Reconcile
  <2>1. UNCHANGED <<savedSettings, unsaved, snapshot>>
    BY <1>3 DEF Reconcile, CriticalPause, AutoCorrect, database, task
  <2>2. settings'.caps = settings.caps
    BY <1>3 DEF Reconcile, CriticalPause, AutoCorrect, TypeOK, Settings
  <2>3. QED
    BY <2>1, <2>2 DEF CapsBelow
<1>4. CASE Restart
  BY <1>4 DEF Restart, database, NoSnapshot, CapsBelow
<1>5. CASE Ingest \/ Midnight \/ (\E f \in Fills : Publish(f)) \/ UNCHANGED vars
           \/ \E m \in Markets, side \in Sides, size \in UserFillSizes :
                  UserFillMessage(m, side, size)
  <2>1. UNCHANGED <<settings, savedSettings, unsaved, snapshot>>
    BY <1>5 DEF Ingest, Tick, FetchActivity, FetchFails, TradeMessage, Midnight, Publish,
                UserFillMessage, vars, memory, database, task
  <2>2. QED
    BY <2>1 DEF CapsBelow
<1>6. QED
  BY <1>1, <1>2, <1>3, <1>4, <1>5 DEF Next

LEMMA WithinStep ==
  ASSUME NEW d \in Nat, NEW o \in Nat, CapsInv, CapsBelow(d, o), WithinLargestCaps(d, o),
         [Next]_vars
  PROVE  WithinLargestCaps(d, o)'
<1>1. daily \in Nat /\ openPositions \in Nat /\ order.notional \in Nat
      /\ snapshot.settings.caps.daily \in Nat /\ snapshot.settings.caps.open \in Nat
  BY DEF CapsInv, TypeOK, Orders, Snapshots, Settings, Caps
<1>2. CASE Settle
  <2>1. InFlight /\ daily' = daily + order.notional
    BY <1>2 DEF Settle, InFlight
  <2>2. daily + order.notional <= snapshot.settings.caps.daily
    BY <2>1 DEF CapsInv, InFlightWithinCaps
  <2>3. Corrections = {} => openPositions + 1 <= snapshot.settings.caps.open
    BY <2>1 DEF CapsInv, InFlightWithinCaps
  <2>4. openPositions' <= openPositions + 1
    BY <1>1, <1>2 DEF Settle, Greater
  <2>5. openPositions' \in Nat
    BY <1>1, <1>2 DEF Settle, Greater
  <2>6. QED
    BY <1>1, <2>1, <2>2, <2>3, <2>4, <2>5 DEF CapsBelow, WithinLargestCaps
<1>3. CASE Tick
  BY <1>3 DEF Tick, MaybeResetDailyNotional, WithinLargestCaps
<1>4. CASE Restart
  BY <1>4 DEF Restart, WithinLargestCaps
<1>5. CASE Reconcile
  BY <1>5 DEF Reconcile, CriticalPause, AutoCorrect, WithinLargestCaps
<1>6. CASE Rpc
  BY <1>6, RpcUnchanged DEF counters, WithinLargestCaps
<1>7. CASE Process /\ ~Settle
  BY <1>7 DEF Process, SkipDuplicate, Admit, RecordStop, RecordStopEvent, MarkStopped,
              DropUnsizeable, Block, RecordBlock, Allow, SimulateFill, RefuseLive,
              PostFilled, PostFailed, Posting, GiveUp, InsertOrder, OrderConflict,
              RecordFailure, RecordLast, memory, WithinLargestCaps
<1>8. CASE (Ingest /\ ~Tick) \/ WriteFails \/ Midnight \/ (\E f \in Fills : Publish(f))
           \/ UNCHANGED vars
           \/ \E m \in Markets, side \in Sides, size \in UserFillSizes :
                  UserFillMessage(m, side, size)
  BY <1>8 DEF Ingest, FetchActivity, FetchFails, TradeMessage, WriteFails, Midnight,
              Publish, UserFillMessage, vars, memory, WithinLargestCaps
<1>9. QED
  BY <1>2, <1>3, <1>4, <1>5, <1>6, <1>7, <1>8 DEF Next

\* Whatever is commanded meanwhile, a process never spends more on a day than the
\* largest daily cap ever set, nor opens more positions than the largest cap.
THEOREM DayWithinLargestCap ==
  ASSUME NEW d \in Nat, NEW o \in Nat,
         InitialSettings.caps.daily <= d, InitialSettings.caps.open <= o,
         \A c \in NewCaps : c.daily <= d /\ c.open <= o
  PROVE  Spec => []WithinLargestCaps(d, o)
<1>1. Init => CapsBelow(d, o) /\ WithinLargestCaps(d, o)
  BY DEF Init, NoSnapshot, CapsBelow, WithinLargestCaps
<1>2. CapsInv /\ CapsBelow(d, o) /\ [Next]_vars => CapsBelow(d, o)'
  BY CapsBelowStep DEF CapsInv
<1>3. CapsInv /\ CapsBelow(d, o) /\ WithinLargestCaps(d, o) /\ [Next]_vars
      => WithinLargestCaps(d, o)'
  BY WithinStep
<1>4. QED
  BY <1>1, <1>2, <1>3, InitCapsInv, CapsInvInductive, PTL DEF Spec

-----------------------------------------------------------------------------
(* How often one trade may be executed.                                    *)

\* An order goes out at most once more than its profile retries it, and is repeated
\* only where there is an exchange to repeat it to.
RetryInv ==
    pc = "sending" =>
        /\ order.attempt \in 1..(MaxAttempts[snapshot.settings.profile] + 1)
        /\ order.attempt > 1 => Live /\ executionApi

\* Each attempt stands for one execution at most.
ExecutionInv ==
    /\ restarts \in Nat
    /\ pc = "sending" => starts[current] # 0
    /\ \A id \in ExecIds :
          executions[id] <= MostAttempts * restarts
              + (IF starts[id] = 0 THEN 0
                 ELSE IF pc = "sending" /\ current = id THEN order.attempt - 1
                 ELSE MostAttempts)

LEMMA ProfileAttempts ==
  ASSUME TypeOK
  PROVE  /\ MaxAttempts[snapshot.settings.profile] \in 1..MostAttempts
         /\ MostAttempts = 3
<1>1. snapshot.settings.profile \in Profiles
  BY DEF TypeOK, Snapshots, Settings
<1>2. \A p \in Profiles : MaxAttempts[p] \in 1..3
  BY DEF Profiles, MaxAttempts
<1>3. MostAttempts = 3
  BY DEF MaxAttempts, MostAttempts
<1>4. QED
  BY <1>1, <1>2, <1>3

\* The configuration stays what it was at the start.
LEMMA ApiStays == [Next]_vars => executionApi' = executionApi
<1> SUFFICES ASSUME [Next]_vars PROVE executionApi' = executionApi
  OBVIOUS
<1>1. CASE Process
  BY <1>1 DEF Process, SkipDuplicate, Admit, RecordStop, RecordStopEvent, MarkStopped,
              DropUnsizeable, Block, RecordBlock, Allow, SimulateFill, RefuseLive, PostFilled,
              PostFailed, Posting, GiveUp, InsertOrder, OrderConflict, Settle, RecordFailure,
              RecordLast, world
<1>2. CASE Rpc
  BY <1>2 DEF Rpc, PauseTrading, ResumeTrading, PanicClose, SetMode, SetRiskProfile,
              SetMultiplier, SetFollowerEquity, SetCaps, RejectedSetCaps, SetCopySells,
              SetAutoStop, ResumeWallet, SaveSettings, SaveFails, Command, world
<1>3. CASE Ingest \/ Reconcile \/ WriteFails \/ Restart \/ Midnight
           \/ (\E f \in Fills : Publish(f)) \/ UNCHANGED vars
           \/ \E m \in Markets, side \in Sides, size \in UserFillSizes :
                  UserFillMessage(m, side, size)
  BY <1>3 DEF Ingest, Tick, FetchActivity, FetchFails, TradeMessage, Reconcile, CriticalPause,
              AutoCorrect, WriteFails, Restart, Midnight, Publish, UserFillMessage, vars, world
<1>4. QED
  BY <1>1, <1>2, <1>3 DEF Next

LEMMA RetryInvStep == TypeOK /\ RetryInv /\ [Next]_vars => RetryInv'
<1> SUFFICES ASSUME TypeOK, RetryInv, [Next]_vars PROVE RetryInv'
  OBVIOUS
<1>1. CASE Allow
  <2>1. order'.attempt = 1 /\ snapshot' = snapshot
    BY <1>1 DEF Allow, Intent
  <2>2. QED
    BY <2>1, ProfileAttempts DEF RetryInv
<1>2. CASE PostFailed
  <2>1. /\ order'.attempt = order.attempt + 1 /\ order.attempt \in Nat /\ pc = "sending"
        /\ order.attempt <= MaxAttempts[snapshot.settings.profile]
        /\ Live /\ executionApi' /\ snapshot' = snapshot
    BY <1>2, ApiStays DEF PostFailed, Posting, AttemptsLeft, TypeOK, Orders
  <2>2. order'.attempt \in 1..(MaxAttempts[snapshot.settings.profile] + 1)
    BY <2>1, ProfileAttempts
  <2>3. Live'
    BY <2>1 DEF Live
  <2>4. QED
    BY <2>1, <2>2, <2>3 DEF RetryInv
<1>3. CASE WriteFails \/ Restart
  BY <1>3 DEF WriteFails, Restart, Return, RetryInv
<1>4. CASE Process /\ ~Allow /\ ~PostFailed
  <2>1. pc' # "sending"
    BY <1>4 DEF Process, SkipDuplicate, Admit, RecordStop, RecordStopEvent, MarkStopped,
                DropUnsizeable, Block, RecordBlock, SimulateFill, RefuseLive, PostFilled,
                Answered, GiveUp, InsertOrder, OrderConflict, Settle, RecordFailure,
                RecordLast, GoTo, Return
  <2>2. QED
    BY <2>1 DEF RetryInv
<1>5. CASE Rpc
  BY <1>5, RpcUnchanged, ApiStays DEF counters, RetryInv, Live
<1>6. CASE Ingest \/ Reconcile \/ Midnight \/ (\E f \in Fills : Publish(f))
           \/ UNCHANGED vars
           \/ \E m \in Markets, side \in Sides, size \in UserFillSizes :
                  UserFillMessage(m, side, size)
  <2>1. UNCHANGED <<pc, order, snapshot>>
    BY <1>6 DEF Ingest, Tick, FetchActivity, FetchFails, TradeMessage, Reconcile,
                CriticalPause, AutoCorrect, Midnight, Publish, UserFillMessage, vars, task
  <2>2. QED
    BY <2>1, ApiStays DEF RetryInv, Live
<1>7. QED
  BY <1>1, <1>2, <1>3, <1>4, <1>5, <1>6 DEF Next

\* What the attempts so far stand for, whatever the task is doing.
LEMMA ExecutedSoFar ==
  ASSUME TypeOK, RetryInv, ExecutionInv, NEW id \in ExecIds
  PROVE  /\ executions[id] \in Nat /\ restarts \in Nat
         /\ executions[id] <= MostAttempts * restarts
                                + (IF starts[id] = 0 THEN 0 ELSE MostAttempts)
<1>1. executions[id] \in Nat /\ restarts \in Nat /\ order.attempt \in Nat
  BY DEF TypeOK, ExecutionInv, Orders
<1>2. pc = "sending" => order.attempt - 1 <= MostAttempts
  BY <1>1, ProfileAttempts DEF RetryInv
<1>3. QED
  BY <1>1, <1>2, ProfileAttempts DEF ExecutionInv

\* A step that sends nothing and starts nothing.
LEMMA ExecutionStays ==
  ASSUME TypeOK, RetryInv, ExecutionInv, UNCHANGED <<restarts, executions, starts>>,
         UNCHANGED <<pc, current, order>> \/ pc' # "sending"
  PROVE  ExecutionInv'
<1>1. CASE UNCHANGED <<pc, current, order>>
  BY <1>1 DEF ExecutionInv
<1>2. CASE pc' # "sending"
  BY <1>2, ExecutedSoFar DEF ExecutionInv
<1>3. QED
  BY <1>1, <1>2

LEMMA ExecutionSend ==
  ASSUME TypeOK, RetryInv, ExecutionInv,
         SimulateFill \/ PostFilled \/ PostFailed \/ RefuseLive \/ GiveUp
  PROVE  ExecutionInv'
<1>1. /\ pc = "sending" /\ current \in ExecIds /\ order \in Orders /\ order.attempt \in Nat
      /\ executions \in [ExecIds -> Nat] /\ restarts \in Nat
      /\ UNCHANGED <<restarts, starts, current, snapshot>>
  BY CurrentFill
     DEF SimulateFill, PostFilled, PostFailed, RefuseLive, GiveUp, Posting, Answered, GoTo,
         bounds, history, TypeOK, Orders, ExecutionInv
<1>2. order.attempt \in 1..(MaxAttempts[snapshot.settings.profile] + 1)
      /\ (order.attempt > 1 => Live /\ executionApi)
      /\ MaxAttempts[snapshot.settings.profile] \in 1..3 /\ MostAttempts = 3
  BY <1>1, ProfileAttempts DEF RetryInv
<1>3. CASE RefuseLive \/ GiveUp
  <2>1. pc' = "orderRow" /\ UNCHANGED executions
    BY <1>3 DEF RefuseLive, GiveUp, GoTo, world
  <2>2. QED
    BY <1>1, <2>1, ExecutionStays
<1>4. CASE SimulateFill \/ PostFilled \/ PostFailed
  <2> DEFINE sent == MostAttempts * restarts
  <2>1. executions[current] <= sent + (order.attempt - 1) /\ starts[current] # 0
    BY <1>1 DEF ExecutionInv
  <2>2. executions' = executions
        \/ executions' = [executions EXCEPT ![current] = executions[current] + 1]
    BY <1>4 DEF SimulateFill, PostFilled, PostFailed, Execute
  <2>3. \A id \in ExecIds \ {current} : executions'[id] = executions[id]
    BY <1>1, <2>2
  <2>4. executions'[current] \in {executions[current], executions[current] + 1}
    BY <1>1, <2>2
  <2>5. sent \in Nat /\ executions[current] \in Nat
    BY <1>1, <1>2
  <2> HIDE DEF sent
  <2>6. executions'[current] <= sent + order.attempt
    BY <1>1, <2>1, <2>4, <2>5
  <2>7. \A id \in ExecIds \ {current} :
          executions'[id] <= sent + (IF starts[id] = 0 THEN 0 ELSE MostAttempts)
    BY <1>1, <2>3 DEF ExecutionInv, sent
  <2>8. CASE SimulateFill \/ PostFilled
    <3>1. pc' = "orderRow"
      BY <2>8 DEF SimulateFill, PostFilled, Answered
    <3>2. order.attempt <= MostAttempts
      <4>1. CASE SimulateFill
        BY <1>1, <1>2, <4>1 DEF SimulateFill
      <4>2. CASE PostFilled
        <5>1. order.attempt <= MaxAttempts[snapshot.settings.profile]
          BY <4>2 DEF PostFilled, Posting, AttemptsLeft
        <5>2. QED
          BY <1>1, <1>2, <5>1
      <4>3. QED
        BY <2>8, <4>1, <4>2
    <3>3. executions'[current] <= sent + MostAttempts
      BY <1>1, <1>2, <2>4, <2>5, <2>6, <3>2
    <3>4. QED
      BY <1>1, <2>1, <2>7, <3>1, <3>3 DEF ExecutionInv, sent
  <2>9. CASE PostFailed
    <3>1. /\ pc' = "sending" /\ order'.attempt = order.attempt + 1
          /\ Live /\ executionApi /\ Live'
          /\ order.attempt <= MaxAttempts[snapshot.settings.profile]
      BY <1>1, <2>9 DEF PostFailed, Posting, AttemptsLeft, Orders, Live
    <3>2. order'.attempt \in 1..(MaxAttempts[snapshot.settings.profile] + 1)
      BY <1>1, <1>2, <3>1
    <3>3. order'.attempt - 1 = order.attempt
      BY <1>1, <3>1
    <3>4. executions'[current] <= sent + (order'.attempt - 1)
      BY <2>6, <3>3
    <3>5. QED
      BY <1>1, <2>1, <2>7, <3>1, <3>2, <3>4 DEF ExecutionInv, sent
  <2>10. QED
    BY <1>4, <2>8, <2>9
<1>5. QED
  BY <1>3, <1>4

LEMMA ExecutionInvStep ==
  TypeOK /\ BootInv /\ RetryInv /\ ExecutionInv /\ [Next]_vars => ExecutionInv'
<1> SUFFICES ASSUME TypeOK, BootInv, RetryInv, ExecutionInv, [Next]_vars
             PROVE  ExecutionInv'
  OBVIOUS
<1>1. CASE Allow
  <2>1. /\ current \in ExecIds /\ pc = "detected" /\ pc' = "sending"
        /\ UNCHANGED <<current, snapshot, executions, restarts>>
        /\ starts' = [starts EXCEPT ![current] = @ + 1] /\ starts \in [ExecIds -> Nat]
    BY <1>1, CurrentFill DEF Allow, world, bounds, TypeOK
  <2>2. order'.attempt = 1
    BY <1>1 DEF Allow, Intent
  <2>3. starts[current] = 0 /\ starts'[current] = 1
        /\ \A id \in ExecIds \ {current} : starts'[id] = starts[id]
    BY <2>1 DEF BootInv
  <2>4. /\ executions[current] \in Nat /\ MostAttempts * restarts \in Nat
        /\ executions[current] <= MostAttempts * restarts + 0
    BY <2>1, <2>3, ProfileAttempts DEF ExecutionInv, TypeOK
  <2>5. \A id \in ExecIds \ {current} :
          executions[id] <= MostAttempts * restarts
                              + (IF starts[id] = 0 THEN 0 ELSE MostAttempts)
    BY <2>1 DEF ExecutionInv
  <2>6. 1 \in 1..(MaxAttempts[snapshot.settings.profile] + 1) /\ 1 - 1 = 0
    BY ProfileAttempts
  <2>7. QED
    BY <2>1, <2>2, <2>3, <2>4, <2>5, <2>6 DEF ExecutionInv
<1>2. CASE SimulateFill \/ PostFilled \/ PostFailed \/ RefuseLive \/ GiveUp
  BY <1>2, ExecutionSend
<1>3. CASE Restart
  <2>1. /\ restarts' = restarts + 1 /\ pc' = "idle" /\ UNCHANGED executions
        /\ starts' = [id \in ExecIds |-> 0]
    BY <1>3 DEF Restart, world
  <2>2. ASSUME NEW id \in ExecIds
        PROVE  executions[id] <= MostAttempts * (restarts + 1)
    BY ExecutedSoFar, ProfileAttempts
  <2>3. \A id \in ExecIds : executions'[id] <= MostAttempts * restarts' + 0
    <3>1. restarts \in Nat
      BY DEF ExecutionInv
    <3>2. MostAttempts * restarts' + 0 = MostAttempts * (restarts + 1)
      BY <2>1, <3>1, ProfileAttempts
    <3>3. QED
      BY <2>1, <2>2, <3>2
  <2>4. restarts' \in Nat /\ \A id \in ExecIds : starts'[id] = 0
    BY <2>1 DEF ExecutionInv
  <2>5. QED
    BY <2>1, <2>3, <2>4 DEF ExecutionInv
<1>4. CASE Process /\ ~Allow /\ ~(SimulateFill \/ PostFilled \/ PostFailed \/ RefuseLive
                                  \/ GiveUp)
  <2>1. UNCHANGED <<restarts, executions, starts>>
    BY <1>4 DEF Process, SkipDuplicate, Admit, RecordStop, RecordStopEvent, MarkStopped,
                DropUnsizeable, Block, RecordBlock, InsertOrder, OrderConflict, Settle,
                RecordFailure, RecordLast, world, bounds, history
  <2>2. pc' # "sending" \/ UNCHANGED <<pc, current, order, snapshot>>
    BY <1>4 DEF Process, SkipDuplicate, Admit, RecordStop, RecordStopEvent, MarkStopped,
                DropUnsizeable, Block, RecordBlock, InsertOrder, OrderConflict, Settle,
                RecordFailure, RecordLast, GoTo, Return
  <2>3. QED
    BY <2>1, <2>2, ExecutionStays
<1>5. CASE WriteFails
  BY <1>5, ExecutionStays DEF WriteFails, Return, world
<1>6. CASE Rpc
  <2>1. UNCHANGED <<restarts, executions, starts>>
    BY <1>6 DEF Rpc, PauseTrading, ResumeTrading, PanicClose, SetMode, SetRiskProfile,
                SetMultiplier, SetFollowerEquity, SetCaps, RejectedSetCaps, SetCopySells, SetAutoStop,
                ResumeWallet, SaveSettings, SaveFails, Command, world, bounds, history
  <2>2. QED
    BY <1>6, <2>1, RpcUnchanged, ExecutionStays DEF counters
<1>7. CASE Ingest \/ Reconcile \/ Midnight \/ (\E f \in Fills : Publish(f))
           \/ UNCHANGED vars
           \/ \E m \in Markets, side \in Sides, size \in UserFillSizes :
                  UserFillMessage(m, side, size)
  <2>1. UNCHANGED <<restarts, executions, starts, pc, current, order, snapshot>>
    BY <1>7 DEF Ingest, Tick, FetchActivity, FetchFails, TradeMessage, Reconcile,
                CriticalPause, AutoCorrect, Midnight, Publish, UserFillMessage, vars, task,
                world, bounds, history
  <2>2. QED
    BY <2>1, ExecutionStays
<1>8. QED
  BY <1>1, <1>2, <1>3, <1>4, <1>5, <1>6, <1>7 DEF Next

\* The exchange executes a trade at most once per attempt, and that for each start of
\* the engine: neither repeats of the feed nor unanswered requests add more.
THEOREM ExecutedOncePerAttempt ==
  ASSUME IsFiniteSet(ExecIds), Cardinality(ExecIds) <= MaxDedupe
  PROVE  Spec => []ExecutionsBounded
<1>1. Init => BootInv /\ RetryInv /\ ExecutionInv
  BY FS_EmptySet
     DEF Init, BootInv, EmptyCache, RetryInv, ExecutionInv, MostAttempts, MaxAttempts
<1>2. TypeOK /\ RetryInv /\ ExecutionInv => ExecutionsBounded
  <2> SUFFICES ASSUME TypeOK, RetryInv, ExecutionInv, NEW id \in ExecIds
               PROVE  executions[id] <= MostAttempts * (restarts + 1)
    BY DEF ExecutionsBounded
  <2>1. QED
    BY ExecutedSoFar, ProfileAttempts
<1>3. QED
  BY <1>1, <1>2, BootInvStep, RetryInvStep, ExecutionInvStep, TypeCorrect, PTL DEF Spec

-----------------------------------------------------------------------------
(* Every step of the pipeline brings the batch nearer to its end: the      *)
(* safety half of EveryBatchFinishes.                                      *)

\* The steps a fill has still to take at most, by the place it has reached.
StepsFrom == [idle |-> 0, lastEvent |-> 1, stopMark |-> 1, stopEvent |-> 2, stopRow |-> 3,
              blockRow |-> 2, settle |-> 2, failRow |-> 2, orderRow |-> 4, detected |-> 9]

WorkLeft == 10 * Len(batch)
            + (IF pc = "sending" THEN 9 - order.attempt ELSE StepsFrom[pc])

\* Retries included, the pipeline does not go round in circles, and nothing but the
\* ingestion, which waits until it is done, gives it more to do.
WorkShrinks ==
    [][/\ Process => WorkLeft' < WorkLeft
       /\ WorkLeft' > WorkLeft => Ready]_vars

FillLeft == IF pc = "sending" THEN 9 - order.attempt ELSE StepsFrom[pc]

LEMMA WorkIsNatural ==
  ASSUME TypeOK, RetryInv
  PROVE  FillLeft \in 0..9 /\ Len(batch) \in Nat /\ WorkLeft = 10 * Len(batch) + FillLeft
<1>1. CASE pc = "sending"
  <2>1. order.attempt \in 1..4
    BY <1>1, ProfileAttempts DEF RetryInv
  <2>2. QED
    BY <1>1, <2>1 DEF FillLeft, WorkLeft, TypeOK
<1>2. CASE pc # "sending"
  <2>1. \A step \in Steps \ {"sending"} : StepsFrom[step] \in 0..9
    BY DEF Steps, StepsFrom
  <2>2. QED
    BY <1>2, <2>1 DEF FillLeft, WorkLeft, TypeOK
<1>3. QED
  BY <1>1, <1>2

LEMMA ProcessShrinks ==
  ASSUME TypeOK, RetryInv, TypeOK', RetryInv', Process
  PROVE  WorkLeft' < WorkLeft /\ ~(WorkLeft' > WorkLeft)
<1>1. /\ FillLeft \in 0..9 /\ Len(batch) \in Nat /\ WorkLeft = 10 * Len(batch) + FillLeft
      /\ batch \in Seq(ExecIds)
  BY WorkIsNatural DEF TypeOK
<1>2. (FillLeft \in 0..9 /\ Len(batch) \in Nat /\ WorkLeft = 10 * Len(batch) + FillLeft)'
  <2>1. (TypeOK /\ RetryInv
         => FillLeft \in 0..9 /\ Len(batch) \in Nat
            /\ WorkLeft = 10 * Len(batch) + FillLeft)'
    BY WorkIsNatural, PTL
  <2>2. QED
    BY <2>1
<1>3. CASE SkipDuplicate \/ Admit
  <2>1. batch # <<>> /\ batch' = Tail(batch) /\ pc = "idle"
    BY <1>3 DEF SkipDuplicate, Admit
  <2>2. Len(batch') = Len(batch) - 1 /\ FillLeft = 0
    BY <1>1, <2>1 DEF FillLeft, StepsFrom
  <2>3. QED
    BY <1>1, <1>2, <2>2
<1>4. CASE ~(SkipDuplicate \/ Admit)
  <2>1. batch' = batch
    BY <1>4 DEF Process, RecordStop, RecordStopEvent, MarkStopped, DropUnsizeable, Block,
                RecordBlock, Allow, SimulateFill, RefuseLive, PostFilled, PostFailed,
                Answered, GiveUp, InsertOrder, OrderConflict, Settle, RecordFailure,
                RecordLast, GoTo, Return
  <2>2. FillLeft' < FillLeft
    <3>1. CASE PostFailed
      <4>1. pc = "sending" /\ pc' = "sending" /\ order'.attempt = order.attempt + 1
            /\ order.attempt \in Nat
        BY <3>1 DEF PostFailed, Posting, TypeOK, Orders
      <4>2. QED
        BY <4>1 DEF FillLeft
    <3>2. CASE SimulateFill \/ RefuseLive \/ PostFilled \/ GiveUp
      <4>1. pc = "sending" /\ pc' = "orderRow"
        BY <3>2 DEF SimulateFill, RefuseLive, PostFilled, Posting, Answered, GiveUp, GoTo
      <4>2. order.attempt \in 1..4
        BY <4>1, ProfileAttempts DEF RetryInv
      <4>3. QED
        BY <4>1, <4>2 DEF FillLeft, StepsFrom
    <3>3. CASE Allow
      <4>1. pc = "detected" /\ pc' = "sending" /\ order'.attempt = 1
        BY <3>3 DEF Allow, Intent
      <4>2. QED
        BY <4>1 DEF FillLeft, StepsFrom
    <3>4. CASE RecordStop \/ RecordStopEvent \/ MarkStopped \/ DropUnsizeable \/ Block
               \/ RecordBlock \/ InsertOrder \/ OrderConflict \/ Settle \/ RecordFailure
               \/ RecordLast
      BY <3>4 DEF RecordStop, RecordStopEvent, MarkStopped, DropUnsizeable, Block,
                  RecordBlock, InsertOrder, OrderConflict, Settle, RecordFailure,
                  RecordLast, GoTo, Return, FillLeft, StepsFrom
    <3>5. QED
      BY <1>4, <3>1, <3>2, <3>3, <3>4 DEF Process
  <2>3. QED
    BY <1>1, <1>2, <2>1, <2>2
<1>5. QED
  BY <1>3, <1>4

LEMMA OthersAddNothing ==
  ASSUME TypeOK, RetryInv, [Next]_vars, ~Process, ~Ready
  PROVE  ~(WorkLeft' > WorkLeft)
<1>1. FillLeft \in 0..9 /\ Len(batch) \in Nat /\ WorkLeft = 10 * Len(batch) + FillLeft
  BY WorkIsNatural
<1>2. CASE WriteFails
  <2>1. batch' = batch /\ pc' = "idle"
    BY <1>2 DEF WriteFails, Return
  <2>2. WorkLeft' = 10 * Len(batch) + 0
    BY <2>1 DEF WorkLeft, StepsFrom
  <2>3. QED
    BY <1>1, <2>2
<1>3. CASE Restart
  <2>1. batch' = <<>> /\ pc' = "idle"
    BY <1>3 DEF Restart
  <2>2. WorkLeft' = 0
    BY <2>1 DEF WorkLeft, StepsFrom
  <2>3. QED
    BY <1>1, <2>2
<1>4. CASE ~WriteFails /\ ~Restart
  <2>1. ~Ingest
    BY DEF Ingest, Tick, FetchActivity, FetchFails, TradeMessage
  <2>2. UNCHANGED <<pc, batch, order>>
    BY <1>4, <2>1
       DEF Next, Rpc, PauseTrading, ResumeTrading, PanicClose, SetMode, SetRiskProfile,
           SetMultiplier, SetFollowerEquity, SetCaps, RejectedSetCaps, SetCopySells, SetAutoStop,
           ResumeWallet, SaveSettings, SaveFails, Command, Reconcile, CriticalPause,
           AutoCorrect, Midnight, Publish, UserFillMessage, vars, task
  <2>3. WorkLeft' = WorkLeft
    BY <2>2 DEF WorkLeft
  <2>4. QED
    BY <1>1, <2>3
<1>5. QED
  BY <1>2, <1>3, <1>4

\* The pipeline cannot loop: with every step a batch is nearer to its end.
THEOREM PipelineEnds == Spec => WorkShrinks
<1>1. Init => RetryInv
  BY DEF Init, RetryInv
<1>2. TypeOK /\ RetryInv /\ TypeOK' /\ RetryInv' /\ [Next]_vars
      => [/\ Process => WorkLeft' < WorkLeft
          /\ WorkLeft' > WorkLeft => Ready]_vars
  <2> SUFFICES ASSUME TypeOK, RetryInv, TypeOK', RetryInv', [Next]_vars
               PROVE  /\ Process => WorkLeft' < WorkLeft
                      /\ WorkLeft' > WorkLeft => Ready
    OBVIOUS
  <2>1. CASE Process
    BY <2>1, ProcessShrinks
  <2>2. CASE ~Process
    BY <2>2, OthersAddNothing
  <2>3. QED
    BY <2>1, <2>2
<1>3. QED
  BY <1>1, <1>2, RetryInvStep, TypeCorrect, PTL DEF Spec, WorkShrinks

-----------------------------------------------------------------------------
(* The records of the copied wallets.                                      *)

\* A win rate never exceeds one, and the largest drawdown is at least the present
\* one: what check_auto_stop compares means what it says.
RecordSound(p) ==
    /\ p.wins <= p.trades /\ p.pnl <= p.peak /\ 0 <= p.peak
    /\ p.peak - p.pnl <= p.maxDrawdown

RecordsSound == \A w \in Wallets : RecordSound(performance[w])

\* A trade may be recorded with any result.
LEMMA RecordTradeSound ==
  ASSUME NEW p \in Performances, NEW pnl \in Int, RecordSound(p)
  PROVE  /\ RecordSound(RecordTrade(p, pnl))
         /\ RecordTrade(p, pnl).maxDrawdown >= p.maxDrawdown
BY DEF Performances, RecordSound, RecordTrade

\* The records stay consistent whatever is copied at whatever price.
THEOREM RecordsStaySound == Spec => []RecordsSound
<1>1. Init => RecordsSound
  BY DEF Init, RecordsSound, RecordSound, NoTrades
<1>2. TypeOK /\ RecordsSound /\ [Next]_vars => RecordsSound'
  <2> SUFFICES ASSUME TypeOK, RecordsSound, [Next]_vars PROVE RecordsSound'
    OBVIOUS
  <2>1. CASE Settle
    <3>1. Fill(current) \in FillRecords
      BY <2>1, CurrentFill DEF Settle
    <3> DEFINE v == Fill(current).wallet
               pnl == EstimatedPnl(Fill(current).side, order.average,
                                   Fill(current).price, order.filled)
    <3>2. v \in Wallets /\ pnl \in Int
      <4>1. order.average \in Int /\ order.filled \in Nat
        BY DEF TypeOK, Orders, Prices
      <4>2. v \in Wallets /\ Fill(current).price \in Int
        BY <3>1 DEF FillRecords, Prices
      <4>3. QED
        BY <4>1, <4>2 DEF EstimatedPnl
    <3>3. performance \in [Wallets -> Performances]
          /\ performance' = [performance EXCEPT ![v] = RecordTrade(performance[v], pnl)]
      BY <2>1 DEF Settle, TypeOK
    <3> HIDE DEF v, pnl
    <3>4. RecordSound(RecordTrade(performance[v], pnl))
      BY <3>2, <3>3, RecordTradeSound DEF RecordsSound
    <3>5. \A w \in Wallets : performance'[w] = IF w = v THEN RecordTrade(performance[v], pnl)
                                               ELSE performance[w]
      BY <3>2, <3>3
    <3>6. QED
      BY <3>4, <3>5, Zenon DEF RecordsSound
  <2>2. CASE Restart
    BY <2>2 DEF Restart, RecordsSound, RecordSound, NoTrades
  <2>3. CASE ~Settle /\ ~Restart
    BY <2>3, PerformanceFrame DEF RecordsSound
  <2>4. QED
    BY <2>1, <2>2, <2>3
<1>3. QED
  BY <1>1, <1>2, TypeCorrect, PTL DEF Spec
=============================================================================
