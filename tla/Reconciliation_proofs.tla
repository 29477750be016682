----------------------- MODULE Reconciliation_proofs -----------------------
(***************************************************************************)
(* Theorems about Reconciliation for any finite set of markets, any rates, *)
(* order size and thresholds, and all bounds.                              *)
(***************************************************************************)
EXTENDS Reconciliation, FiniteSetTheorems, WellFoundedInduction, TLAPS

-----------------------------------------------------------------------------
(* Arithmetic of shares and dollars.                                       *)

LEMMA Quotient ==
  ASSUME NEW n \in Int, NEW r \in Nat \ {0}
  PROVE  /\ n \div r \in Int
         /\ (n \div r) * r <= n /\ n < (n \div r) * r + r
         /\ n >= 0 => n \div r >= 0
OBVIOUS

LEMMA OnlyQuotient ==
  ASSUME NEW n \in Int, NEW r \in Nat \ {0}, NEW q \in Int, q * r <= n, n < q * r + r
  PROVE  n \div r = q
<1> DEFINE k == n \div r
<1>1. k \in Int /\ k * r <= n /\ n < k * r + r
  BY Quotient
<1> HIDE DEF k
<1>2. ASSUME NEW x \in Int, NEW y \in Int, x < y PROVE x * r + r <= y * r
  <2>1. (x + 1) * r <= y * r
    BY <1>2
  <2>2. (x + 1) * r = x * r + r
    OBVIOUS
  <2>3. x * r \in Int /\ y * r \in Int
    OBVIOUS
  <2>4. QED
    BY <2>1, <2>2, <2>3
<1>3. k * r \in Int /\ q * r \in Int
  BY <1>1
<1>4. ~(k < q) /\ ~(q < k)
  BY <1>1, <1>2, <1>3
<1>5. k = q
  BY <1>1, <1>4
<1>6. QED
  BY <1>5 DEF k

\* What whole dollars add to a number of shares they add to its worth.
LEMMA Adds ==
  ASSUME NEW n \in Int, NEW k \in Int, NEW r \in Nat \ {0}
  PROVE  (n + k * r) \div r = n \div r + k
<1> DEFINE q == n \div r
<1>1. q \in Int /\ q * r <= n /\ n < q * r + r
  BY Quotient
<1> HIDE DEF q
<1>2. (q + k) * r = q * r + k * r /\ q + k \in Int
  BY <1>1
<1>3. q * r \in Int /\ k * r \in Int
  BY <1>1
<1>4. n + k * r \in Int /\ (q + k) * r <= n + k * r /\ n + k * r < (q + k) * r + r
  BY <1>1, <1>2, <1>3
<1>5. (n + k * r) \div r = q + k
  BY <1>2, <1>4, OnlyQuotient
<1>6. QED
  BY <1>5 DEF q

\* The last position of a market in what was fetched.
LEMMA LastExists ==
  ASSUME NEW n \in Nat, NEW S \in SUBSET (1..n), S # {}
  PROVE  \E x \in S : \A y \in S : y <= x
<1> DEFINE T == {n - x : x \in S}
<1>1. T \in SUBSET Nat /\ T # {}
  <2>1. ASSUME NEW x \in S PROVE n - x \in Nat
    OBVIOUS
  <2>2. QED
    BY <2>1
<1>2. PICK d \in T : \A e \in T : <<e, d>> \notin OpToRel(<, Nat)
  BY <1>1, NatLessThanWellFounded, WFMin
<1>3. PICK x \in S : d = n - x
  OBVIOUS
<1>4. ASSUME NEW y \in S PROVE y <= x
  <2>1. n - y \in T /\ ~(n - y < n - x)
    BY <1>1, <1>2, <1>3 DEF OpToRel
  <2>2. QED
    BY <2>1
<1>5. QED
  BY <1>4

-----------------------------------------------------------------------------
(* Types, what is in flight, and what was fetched.                         *)

Position(h) == [market |-> h[1], side |-> h[2], size |-> shares[h],
                rate |-> rate[h[1]]]
Held == {h \in Holdings : shares[h] > 0}

TypeInv ==
    /\ TypeOK
    /\ inFlight # NoOrder => inFlight.holding \in Holdings

LEMMA HeldIsFinite == IsFiniteSet({Position(h) : h \in Held})
<1>1. IsFiniteSet(Sides)
  <2>1. IsFiniteSet({"no"}) /\ IsFiniteSet({"no"} \cup {"yes"})
    BY FS_Singleton, FS_AddElement
  <2>2. Sides = {"no"} \cup {"yes"}
    BY DEF Sides
  <2>3. QED
    BY <2>1, <2>2
<1>2. IsFiniteSet(Holdings)
  BY <1>1, FS_Product, MarketAssumption DEF Holdings
<1>3. IsFiniteSet(Held)
  BY <1>2, FS_Subset DEF Held
<1> DEFINE f == [h \in Held |-> Position(h)]
           S == {Position(h) : h \in Held}
<1>4. f \in Surjection(Held, S)
  BY DEF Surjection
<1>5. QED
  BY <1>3, <1>4, FS_Surjection

LEMMA FetchedList ==
  ASSUME TypeInv, Fetch
  PROVE  /\ fetched' \in Seq(Positions)
         /\ {fetched'[i] : i \in DOMAIN fetched'} = {Position(h) : h \in Held}
<1> DEFINE S == {Position(h) : h \in Held}
           D == 1..Cardinality(S)
<1>1. fetched' \in [D -> S] /\ \A i, j \in D : i # j => fetched'[i] # fetched'[j]
  BY DEF Fetch, SetToSeqs, Position, Held
<1>2. ASSUME NEW h \in Held PROVE Position(h) \in Positions
  <2>1. rate[h[1]] \in Nat \ {0} /\ h[1] \in Markets /\ h[2] \in Sides /\ shares[h] \in Nat
    BY RateAssumption DEF Held, Holdings, TypeInv, TypeOK
  <2>2. QED
    BY <2>1 DEF Position, Positions
<1>3. S \subseteq Positions /\ IsFiniteSet(S)
  BY <1>2, HeldIsFinite
<1> HIDE DEF S
<1>4. Cardinality(S) \in Nat
  BY <1>3, FS_CardinalityType
<1>5. fetched' \in Seq(Positions)
  BY <1>1, <1>3, <1>4
<1>6. {fetched'[i] : i \in D} = S
  <2>1. fetched' \in Injection(D, S)
    BY <1>1 DEF Injection, IsInjective
  <2>2. IsFiniteSet(D) /\ Cardinality(D) = Cardinality(S)
    BY <1>4, FS_Interval
  <2>3. fetched' \in Surjection(D, S)
    BY <1>3, <2>1, <2>2, FS_Injection
  <2>4. QED
    BY <1>1, <2>3 DEF Surjection
<1>7. QED
  BY <1>1, <1>5, <1>6 DEF S

\* A market in what was fetched has a last position there.
LEMMA LastFetched ==
  ASSUME TypeInv, NEW p \in Fetched
  PROVE  \E i \in DOMAIN fetched : /\ fetched[i].market = p.market
                                  /\ \A j \in DOMAIN fetched :
                                         fetched[j].market = p.market => j <= i
<1> DEFINE S == {i \in DOMAIN fetched : fetched[i].market = p.market}
<1>1. Len(fetched) \in Nat /\ DOMAIN fetched = 1..Len(fetched)
  BY DEF TypeInv, TypeOK
<1>2. S \in SUBSET (1..Len(fetched)) /\ S # {}
  BY <1>1 DEF Fetched
<1>3. PICK i \in S : \A j \in S : j <= i
  BY <1>1, <1>2, LastExists
<1>4. QED
  BY <1>3

LEMMA CorrectedType ==
  ASSUME TypeInv
  PROVE  DOMAIN Corrected \subseteq Markets /\ \A m \in DOMAIN Corrected : Corrected[m] \in Nat
<1>1. \A i \in DOMAIN fetched : fetched[i] \in Positions
  BY DEF TypeInv, TypeOK
<1>2. DOMAIN Corrected = {p.market : p \in Fetched}
  BY DEF Corrected
<1>3. DOMAIN Corrected \subseteq Markets
  BY <1>1, <1>2 DEF Fetched, Positions
<1>4. ASSUME NEW p \in Fetched PROVE Corrected[p.market] \in Nat
  <2> DEFINE m == p.market
             last == CHOOSE i \in DOMAIN fetched :
                        /\ fetched[i].market = m
                        /\ \A j \in DOMAIN fetched : fetched[j].market = m => j <= i
  <2>1. last \in DOMAIN fetched
    BY LastFetched
  <2>2. Corrected[m] = fetched[last].size \div fetched[last].rate
    BY DEF Corrected
  <2> HIDE DEF last
  <2>3. fetched[last].size \in Nat /\ fetched[last].rate \in Nat \ {0}
    BY <1>1, <2>1 DEF Positions
  <2>4. fetched[last].size \div fetched[last].rate \in Nat
    BY <2>3, Quotient
  <2>5. QED
    BY <2>2, <2>4
<1>5. QED
  BY <1>2, <1>3, <1>4

LEMMA TypeInit == Init => TypeInv
<1> SUFFICES ASSUME Init PROVE TypeInv
  OBVIOUS
<1>1. shares \in [Holdings -> Nat] /\ fetched \in Seq(Positions)
  BY DEF Init
<1>2. DOMAIN exposure = {}
  BY DEF Init, NoExposure
<1>3. QED
  BY <1>1, <1>2, ConfigAssumption DEF Init, TypeInv, TypeOK, NoOrder

LEMMA UsdType == TypeInv => \A m : Usd(m) \in Nat
BY DEF TypeInv, TypeOK, Usd

LEMMA RateType == TypeInv => \A m \in Markets : rate[m] \in Nat \ {0}
BY RateAssumption DEF TypeInv, TypeOK

\* What Settle and UserFill do to the exposure.
LEMMA ExposureType ==
  ASSUME TypeInv, NEW m \in Markets, NEW buy,
         exposure' = [n \in DOMAIN exposure \cup {m} |->
                         IF n = m THEN IF buy THEN Usd(m) + Lot ELSE Bigger(Usd(m) - Lot, 0)
                         ELSE exposure[n]]
  PROVE  DOMAIN exposure' \subseteq Markets /\ \A n \in DOMAIN exposure' : exposure'[n] \in Nat
<1> DEFINE usd == IF buy THEN Usd(m) + Lot ELSE Bigger(Usd(m) - Lot, 0)
<1>1. exposure' = [n \in DOMAIN exposure \cup {m} |-> IF n = m THEN usd ELSE exposure[n]]
  OBVIOUS
<1>2. usd \in Nat
  BY UsdType, RateAssumption DEF Bigger
<1> HIDE DEF usd
<1>3. QED
  BY <1>1, <1>2 DEF TypeInv, TypeOK

LEMMA TradeType ==
  ASSUME TypeInv, NEW h \in Holdings, NEW buy, NEW usd \in Nat, Trades(h, buy, usd)
  PROVE  shares' \in [Holdings -> Nat] /\ rate' = rate
<1> DEFINE traded == usd * rate[h[1]]
<1>1. traded \in Nat
  BY RateType DEF Holdings
<1>2. /\ buy \/ shares[h] >= traded
      /\ shares' = [shares EXCEPT ![h] = IF buy THEN @ + traded ELSE @ - traded]
      /\ rate' = rate
  BY DEF Trades
<1> HIDE DEF traded
<1>3. QED
  BY <1>1, <1>2 DEF TypeInv, TypeOK

LEMMA TypeStep == TypeInv /\ [Next]_vars => TypeInv'
<1> SUFFICES ASSUME TypeInv, [Next]_vars PROVE TypeInv'
  OBVIOUS
<1> USE DEF TypeInv, TypeOK
<1>1. ASSUME NEW h \in Holdings, NEW buy \in BOOLEAN, NEW part \in 0..Lot,
             Execute(h, buy, part)
      PROVE  TypeInv'
  <2>1. part \in Nat /\ h[1] \in Markets /\ Trades(h, buy, part)
    BY <1>1, RateAssumption DEF Execute, Holdings
  <2>2. shares' \in [Holdings -> Nat] /\ rate' = rate
    BY <2>1, TradeType
  <2>3. met' \subseteq Markets /\ misstated' \subseteq Markets
    BY <1>1, <2>1 DEF Execute, Meets, Upset
  <2>4. QED
    BY <1>1, <2>2, <2>3 DEF Execute, config, state, loop
<1>2. CASE ExecuteAgain
  <2>1. inFlight.holding \in Holdings /\ inFlight.holding[1] \in Markets /\ Lot \in Nat
    BY <1>2, RateAssumption DEF ExecuteAgain, Holdings
  <2>2. shares' \in [Holdings -> Nat] /\ rate' = rate
    BY <1>2, <2>1, TradeType DEF ExecuteAgain
  <2>3. met' \subseteq Markets /\ misstated' \subseteq Markets
    BY <1>2, <2>1 DEF ExecuteAgain, Meets, Upset
  <2>4. QED
    BY <1>2, <2>2, <2>3 DEF ExecuteAgain, config, state, loop
<1>3. CASE Settle
  <2>1. openPositions' \in Nat
    BY <1>3 DEF Settle, Bigger
  <2>2. inFlight' = NoOrder /\ inFlight' \in [holding : Holdings \cup {<<>>}, buy : BOOLEAN]
    BY <1>3 DEF Settle, NoOrder
  <2>3. inFlight.holding[1] \in Markets
    BY <1>3 DEF Settle, Holdings
  <2>4. met' \subseteq Markets /\ UNCHANGED <<config, market, paused, loop, misstated>>
    BY <1>3, <2>3 DEF Settle, Meets
  <2>5. DOMAIN exposure' \subseteq Markets /\ \A m \in DOMAIN exposure' : exposure'[m] \in Nat
    BY <1>3, <2>3, ExposureType DEF Settle
  <2>6. QED
    BY <1>3, <2>1, <2>2, <2>4, <2>5 DEF config, market, loop
<1>4. CASE NeverSettled
  <2>1. inFlight.holding[1] \in Markets
    BY <1>4 DEF NeverSettled, Holdings
  <2>2. inFlight' = NoOrder /\ inFlight' \in [holding : Holdings \cup {<<>>}, buy : BOOLEAN]
    BY <1>4 DEF NeverSettled, NoOrder
  <2>3. QED
    BY <1>4, <2>1, <2>2 DEF NeverSettled, Upset, config, market, state, loop
<1>5. ASSUME NEW m \in Markets, NEW buy \in BOOLEAN, UserFill(m, buy) PROVE TypeInv'
  <2>1. DOMAIN exposure' \subseteq Markets /\ \A n \in DOMAIN exposure' : exposure'[n] \in Nat
    BY <1>5, ExposureType DEF UserFill
  <2>2. QED
    BY <1>5, <2>1 DEF UserFill, Upset, config, market, loop
<1>6. ASSUME NEW h \in Holdings, TradeOutside(h) PROVE TypeInv'
  <2>1. Lot * rate[h[1]] \in Nat /\ h[1] \in Markets
    BY RateAssumption, RateType DEF Holdings
  <2>2. shares' \in [Holdings -> Nat]
    BY <1>6, <2>1 DEF TradeOutside
  <2>3. QED
    BY <1>6, <2>1, <2>2 DEF TradeOutside, Meets, Upset, config, state, loop
<1>7. ASSUME NEW m \in Markets, PriceMoves(m) PROVE TypeInv'
  BY <1>7 DEF PriceMoves, Meets, Upset, config, state, loop
<1>8. CASE Restart
  <2>1. DOMAIN exposure' = {} /\ <<>> \in Seq(Positions)
    BY <1>8 DEF Restart, NoExposure
  <2>2. NoOrder \in [holding : Holdings \cup {<<>>}, buy : BOOLEAN]
    BY DEF NoOrder
  <2>3. QED
    BY <1>8, <2>1, <2>2 DEF Restart, config, market
<1>9. CASE Resume
  BY <1>9 DEF Resume, config, market, loop, history
<1>10. CASE Tick \/ FetchFails
  BY <1>10 DEF Tick, FetchFails, config, market, state, history
<1>11. CASE Fetch
  <2>1. fetched' \in Seq(Positions)
    BY <1>11, FetchedList DEF Fetch
  <2>2. met' \subseteq Markets
    BY <1>11 DEF Fetch, Holdings
  <2>3. QED
    BY <1>11, <2>1, <2>2 DEF Fetch, config, market, state
<1>12. CASE Compare
  <2>1. /\ fetched' = fetched \/ fetched' = <<>>
        /\ critical' \in BOOLEAN \/ critical' = critical
        /\ check' \in {"correct", "pause", "idle"}
        /\ UNCHANGED <<config, market, state, inFlight, history>>
    BY <1>12 DEF Compare, NextAfter
  <2>2. fetched' \in Seq(Positions)
    <3>1. <<>> \in Seq(Positions)
      OBVIOUS
    <3>2. fetched \in Seq(Positions)
      OBVIOUS
    <3>3. QED
      BY <2>1, <3>1, <3>2, Zenon
  <2>3. QED
    BY <2>1, <2>2 DEF config, market, state, history
<1>13. CASE Correct
  <2>1. fetched' \in Seq(Positions) /\ Len(fetched) \in Nat
    BY <1>13 DEF Correct
  <2>2. DOMAIN exposure' \subseteq Markets /\ \A m \in DOMAIN exposure' : exposure'[m] \in Nat
    BY <1>13, CorrectedType DEF Correct
  <2>3. misstated' \subseteq Markets
    BY <1>13 DEF Correct
  <2>4. QED
    BY <1>13, <2>1, <2>2, <2>3 DEF Correct, NextAfter, config, market
<1>14. CASE Pause
  BY <1>14 DEF Pause, config, market, history
<1>15. CASE UNCHANGED vars
  BY <1>15 DEF vars, config, market, state, loop, history
<1>16. QED
  BY <1>1, <1>2, <1>3, <1>4, <1>5, <1>6, <1>7, <1>8, <1>9, <1>10, <1>11, <1>12, <1>13, <1>14,
     <1>15 DEF Next, Loop

LEMMA TypeAlways == Spec => []TypeInv
BY TypeInit, TypeStep, PTL DEF Spec

\* The types of holdings, exposure, the order in flight and the check; the
\* exposure stays a natural number because Settle and UserFill clamp it.
THEOREM TypeCorrect == Spec => []TypeOK
BY TypeAlways, PTL DEF TypeInv

-----------------------------------------------------------------------------
(* The exposure is the worth of what is held.                              *)

Sum(m) == shares[<<m, "yes">>] + shares[<<m, "no">>]

\* What the order in flight still has to add to the exposure of a market.
Owed(m) == IF ~OrderIn(m) THEN 0 ELSE IF inFlight.buy THEN Lot ELSE 0 - Lot

Balanced(m) == Usd(m) + Owed(m) = Sum(m) \div rate[m]

\* What was fetched of a market is what is held of it.
FetchedIsHeld(m) ==
    /\ ~OrderIn(m)
    /\ {p \in Fetched : p.market = m} = {Position(h) : h \in {g \in Held : g[1] = m}}

WorthInv ==
    /\ Checking => \A m \in Markets \ met : FetchedIsHeld(m)
    /\ \A m \in Markets \ misstated : Balanced(m)

LEMMA WorthFollows ==
  ASSUME TypeInv, WorthInv
  PROVE  ExposureIsWorth
<1> SUFFICES ASSUME NEW m \in Markets \ misstated, ~OrderIn(m)
             PROVE  Usd(m) = Worth(m)
  BY DEF ExposureIsWorth
<1>1. Usd(m) + 0 = Sum(m) \div rate[m]
  BY DEF WorthInv, Balanced, Owed
<1>2. QED
  BY <1>1, UsdType DEF Worth, Sum

\* A market of which nothing is held and nothing is known balances.
LEMMA NothingBalances ==
  ASSUME NEW m \in Markets, rate[m] \in Nat \ {0}, Sum(m) = 0, Usd(m) = 0, ~OrderIn(m)
  PROVE  Balanced(m)
<1>1. 0 \div rate[m] = 0
  BY OnlyQuotient
<1>2. QED
  BY <1>1 DEF Balanced, Owed

LEMMA WorthInit == Init => WorthInv
<1> SUFFICES ASSUME Init PROVE WorthInv
  OBVIOUS
<1>1. ASSUME NEW m \in Markets PROVE Balanced(m)
  <2>1. Sum(m) = 0
    BY DEF Init, Sum, Holdings, Sides
  <2>2. Usd(m) = 0 /\ ~OrderIn(m) /\ rate[m] \in Nat \ {0}
    BY RateAssumption DEF Init, Usd, OrderIn, NoExposure
  <2>3. QED
    BY <2>1, <2>2, NothingBalances
<1>2. ~Checking
  BY DEF Init, Checking
<1>3. QED
  BY <1>1, <1>2 DEF WorthInv

\* An order filled in full owes the exposure the dollars it moved on the exchange.
LEMMA TradeBalances ==
  ASSUME TypeInv, NEW h \in Holdings, NEW buy \in BOOLEAN, Execute(h, buy, Lot),
         NEW m \in Markets, Balanced(m)
  PROVE  Balanced(m)'
<1> DEFINE r == rate[m]
           d == IF buy THEN Lot ELSE 0 - Lot
<1>1. /\ r \in Nat \ {0} /\ Lot \in Nat \ {0} /\ Usd(m) \in Nat /\ d \in Int
      /\ shares \in [Holdings -> Nat]
  BY UsdType, RateType, RateAssumption DEF TypeInv, TypeOK
<1>2. /\ inFlight = NoOrder /\ inFlight' = [holding |-> h, buy |-> buy] /\ Usd(m)' = Usd(m)
      /\ shares' = [shares EXCEPT ![h] = IF buy THEN @ + Lot * rate[h[1]]
                                         ELSE @ - Lot * rate[h[1]]]
      /\ rate' = rate
  BY DEF Execute, Trades, state, Usd
<1>3. Owed(m) = 0 /\ Usd(m) = Sum(m) \div r
  BY <1>1, <1>2 DEF Balanced, Owed, OrderIn
<1>4. inFlight' # NoOrder
  BY <1>2 DEF NoOrder, Holdings
<1>5. CASE h[1] = m
  <2>1. h = <<m, "yes">> \/ h = <<m, "no">>
    BY <1>5 DEF Holdings, Sides
  <2>2. /\ <<m, "yes">> \in Holdings /\ <<m, "no">> \in Holdings
        /\ <<m, "yes">> # <<m, "no">>
    BY DEF Holdings, Sides
  <2>3. Lot * r \in Nat /\ (0 - Lot) * r = 0 - Lot * r
    BY <1>1
  <2>4. d * r = IF buy THEN Lot * r ELSE 0 - Lot * r
    BY <2>3
  <2>5. d * r \in Int /\ shares'[h] = shares[h] + d * r
    <3> HIDE DEF d
    <3>1. shares'[h] = IF buy THEN shares[h] + Lot * r ELSE shares[h] - Lot * r
      BY <1>1, <1>2, <1>5
    <3> HIDE DEF r
    <3>2. QED
      BY <1>1, <2>3, <2>4, <3>1
  <2>6. Sum(m) \in Int /\ Sum(m)' = Sum(m) + d * r
    <3> HIDE DEF r, d
    <3>1. CASE h = <<m, "yes">>
      BY <1>1, <1>2, <2>2, <2>5, <3>1 DEF Sum
    <3>2. CASE h = <<m, "no">>
      BY <1>1, <1>2, <2>2, <2>5, <3>2 DEF Sum
    <3>3. QED
      BY <2>1, <3>1, <3>2
  <2>7. Owed(m)' = d
    BY <1>2, <1>4, <1>5 DEF Owed, OrderIn
  <2>8. Sum(m)' \div r = Usd(m) + d
    <3> HIDE DEF r, d
    <3>1. (Sum(m) + d * r) \div r = Sum(m) \div r + d
      BY <1>1, <2>6, Adds
    <3>2. QED
      BY <1>3, <2>6, <3>1
  <2>9. QED
    BY <1>2, <2>7, <2>8 DEF Balanced
<1>6. CASE h[1] # m
  <2>1. Sum(m)' = Sum(m)
    BY <1>1, <1>2, <1>6 DEF Sum, Holdings
  <2>2. Owed(m)' = 0
    BY <1>2, <1>6 DEF Owed, OrderIn
  <2>3. QED
    BY <1>2, <1>3, <2>1, <2>2 DEF Balanced
<1>7. QED
  BY <1>5, <1>6

\* Accounting for an order moves what it owed into the exposure: a sale never
\* meets the clamp, because what is left cannot be worth less than nothing.
LEMMA SettleBalances ==
  ASSUME TypeInv, Settle, NEW m \in Markets, Balanced(m)
  PROVE  Balanced(m)'
<1> DEFINE n == inFlight.holding[1]
           usd == IF inFlight.buy THEN Usd(n) + Lot ELSE Bigger(Usd(n) - Lot, 0)
           r == rate[m]
<1>1. /\ r \in Nat \ {0} /\ Lot \in Nat \ {0} /\ Usd(m) \in Nat
      /\ shares \in [Holdings -> Nat]
  BY UsdType, RateType, RateAssumption DEF TypeInv, TypeOK
<1>2. /\ inFlight # NoOrder /\ inFlight' = NoOrder /\ shares' = shares /\ rate' = rate
      /\ exposure' = [k \in DOMAIN exposure \cup {n} |-> IF k = n THEN usd ELSE exposure[k]]
  BY DEF Settle, market
<1>3. Sum(m)' = Sum(m) /\ Owed(m)' = 0 /\ Sum(m) \in Nat
  BY <1>1, <1>2 DEF Sum, Owed, OrderIn, Holdings, Sides
<1>4. CASE n # m
  <2>1. Owed(m) = 0 /\ Usd(m)' = Usd(m)
    BY <1>2, <1>4 DEF Owed, OrderIn, Usd
  <2>2. QED
    BY <1>2, <1>3, <2>1 DEF Balanced
<1>5. CASE n = m
  <2>1. Usd(m)' = usd
    BY <1>2, <1>5 DEF Usd
  <2>2. usd = Usd(m) + Owed(m)
    <3>1. CASE inFlight.buy
      BY <1>2, <1>5, <3>1 DEF Owed, OrderIn
    <3>2. CASE ~inFlight.buy
      <4>1. Owed(m) = 0 - Lot
        BY <1>2, <1>5, <3>2 DEF Owed, OrderIn
      <4>2. Sum(m) \div r >= 0
        BY <1>1, <1>3, Quotient
      <4>3. Usd(m) - Lot >= 0 /\ Usd(m) + Owed(m) = Usd(m) - Lot
        BY <1>1, <4>1, <4>2 DEF Balanced
      <4>4. QED
        BY <1>1, <1>5, <3>2, <4>3 DEF Bigger
    <3>3. QED
      BY <3>1, <3>2
  <2>3. usd + 0 = usd
    BY <1>1, <1>5 DEF Bigger
  <2> HIDE DEF usd
  <2>4. QED
    BY <1>2, <1>3, <2>1, <2>2, <2>3 DEF Balanced
<1>6. QED
  BY <1>4, <1>5

\* A correction from what is still held of a market, one outcome of it, leaves
\* its exposure at its worth.
LEMMA CorrectBalances ==
  ASSUME TypeInv, Correct, NEW m \in Markets, FetchedIsHeld(m), ~BothOutcomes(m)
  PROVE  Balanced(m)'
<1> DEFINE r == rate[m]
           yes == <<m, "yes">>
           no == <<m, "no">>
<1>1. /\ r \in Nat \ {0} /\ shares \in [Holdings -> Nat]
      /\ yes \in Holdings /\ no \in Holdings
  BY RateType DEF TypeInv, TypeOK, Holdings, Sides
<1>2. exposure' = Corrected /\ Sum(m)' = Sum(m) /\ Owed(m)' = 0 /\ rate' = rate
  BY DEF Correct, Sum, Owed, OrderIn, FetchedIsHeld, market
<1>3. ASSUME NEW h \in {yes, no}, shares[h] > 0
      PROVE  Position(h) \in Fetched /\ Position(h).market = m
  <2>1. h \in Held /\ h[1] = m
    BY <1>1, <1>3 DEF Held
  <2>2. QED
    BY <2>1 DEF FetchedIsHeld, Position
<1>4. ~(shares[yes] > 0 /\ shares[no] > 0)
  <2> SUFFICES ASSUME shares[yes] > 0, shares[no] > 0 PROVE FALSE
    OBVIOUS
  <2>1. Position(yes) # Position(no)
    BY DEF Position
  <2>2. QED
    BY <1>3, <2>1 DEF BothOutcomes
<1>5. ASSUME NEW h \in {yes, no}, shares[h] > 0 PROVE Balanced(m)'
  <2> DEFINE last == CHOOSE i \in DOMAIN fetched :
                        /\ fetched[i].market = m
                        /\ \A j \in DOMAIN fetched : fetched[j].market = m => j <= i
  <2>1. Position(h) \in Fetched /\ Position(h).market = m
    BY <1>3, <1>5
  <2>2. last \in DOMAIN fetched /\ fetched[last].market = m
    BY <2>1, LastFetched
  <2>3. m \in DOMAIN Corrected /\ Corrected[m] = fetched[last].size \div fetched[last].rate
    BY <2>1 DEF Corrected
  <2> HIDE DEF last
  <2>4. fetched[last] \in Fetched
    BY <2>2 DEF Fetched
  <2>5. fetched[last] = Position(h)
    BY <2>1, <2>2, <2>4 DEF BothOutcomes
  <2>6. fetched[last].size = shares[h] /\ fetched[last].rate = r
    BY <1>5, <2>5 DEF Position
  <2>7. Sum(m) = shares[h]
    BY <1>1, <1>4, <1>5 DEF Sum
  <2>8. Usd(m)' = Sum(m) \div r
    BY <1>2, <2>3, <2>6, <2>7 DEF Usd
  <2>9. Usd(m)' + 0 = Usd(m)'
    BY <1>1, <2>7, <2>8, Quotient
  <2>10. QED
    BY <1>2, <2>8, <2>9 DEF Balanced
<1>6. CASE ~(shares[yes] > 0) /\ ~(shares[no] > 0)
  <2>1. Sum(m) = 0
    BY <1>1, <1>6 DEF Sum
  <2>2. m \notin DOMAIN Corrected
    <3>1. ASSUME NEW h \in Held PROVE h[1] # m
      BY <1>6 DEF Held, Holdings, Sides
    <3>2. \A p \in Fetched : p.market # m
      BY <3>1 DEF FetchedIsHeld
    <3>3. QED
      BY <3>2 DEF Corrected
  <2>3. Usd(m)' = 0
    BY <1>2, <2>2 DEF Usd
  <2>4. 0 \div r = 0
    BY <1>1, OnlyQuotient
  <2>5. QED
    BY <1>2, <2>1, <2>3, <2>4 DEF Balanced
<1>7. QED
  BY <1>5, <1>6

\* A step that leaves a market, its price and its order alone leaves what was
\* fetched and what is owed of it.
Untouched(m) ==
    /\ \A s \in Sides : shares'[<<m, s>>] = shares[<<m, s>>]
    /\ rate'[m] = rate[m]
    /\ OrderIn(m)' <=> OrderIn(m)
    /\ OrderIn(m) => inFlight' = inFlight

LEMMA KeepsFetched ==
  ASSUME WorthInv, fetched' = fetched, Checking' => Checking, met \subseteq met',
         Checking' => \A m \in Markets \ met' : Untouched(m)
  PROVE  Checking' => \A m \in Markets \ met' : FetchedIsHeld(m)'
<1> SUFFICES ASSUME Checking', NEW m \in Markets \ met' PROVE FetchedIsHeld(m)'
  OBVIOUS
<1>1. FetchedIsHeld(m) /\ Untouched(m)
  BY DEF WorthInv
<1> DEFINE S == {g \in Held : g[1] = m}
<1>2. S' = S
  BY <1>1 DEF Held, Holdings, Untouched
<1>3. \A h \in S : Position(h)' = Position(h)
  BY <1>1 DEF Held, Holdings, Untouched, Position
<1>4. Fetched' = Fetched
  BY DEF Fetched
<1>5. {Position(h) : h \in S}' = {Position(h) : h \in S}
  BY <1>2, <1>3
<1>6. QED
  BY <1>1, <1>4, <1>5 DEF FetchedIsHeld, Untouched

LEMMA KeepsBalance ==
  ASSUME WorthInv, misstated \subseteq misstated',
         \A m \in Markets \ misstated' : Untouched(m) /\ Usd(m)' = Usd(m)
  PROVE  \A m \in Markets \ misstated' : Balanced(m)'
<1> SUFFICES ASSUME NEW m \in Markets \ misstated' PROVE Balanced(m)'
  OBVIOUS
<1>1. Balanced(m) /\ Untouched(m) /\ Usd(m)' = Usd(m)
  BY DEF WorthInv
<1>2. Owed(m)' = Owed(m)
  BY <1>1 DEF Owed, Untouched
<1>3. Sum(m)' = Sum(m) /\ rate'[m] = rate[m]
  BY <1>1 DEF Sum, Untouched, Sides
<1>4. QED
  BY <1>1, <1>2, <1>3 DEF Balanced

LEMMA TradeElsewhere ==
  ASSUME TypeInv, NEW h \in Holdings, NEW buy, NEW usd, Trades(h, buy, usd),
         NEW m \in Markets, m # h[1]
  PROVE  \A s \in Sides : shares'[<<m, s>>] = shares[<<m, s>>] /\ rate' = rate
BY DEF Trades, Holdings, TypeInv, TypeOK

LEMMA WorthStep == TypeInv /\ WorthInv /\ [Next]_vars => WorthInv'
<1> SUFFICES ASSUME TypeInv, WorthInv, [Next]_vars PROVE WorthInv'
  OBVIOUS
<1>1. ASSUME NEW h \in Holdings, NEW buy \in BOOLEAN, NEW part \in 0..Lot,
             Execute(h, buy, part)
      PROVE  WorthInv'
  <2>1. Trades(h, buy, part) /\ inFlight = NoOrder /\ inFlight' = [holding |-> h, buy |-> buy]
        /\ Meets(h[1]) /\ UNCHANGED <<state, loop>>
    BY <1>1 DEF Execute
  <2>2. ASSUME NEW m \in Markets, m # h[1] PROVE Untouched(m) /\ Usd(m)' = Usd(m)
    <3>1. \A s \in Sides : shares'[<<m, s>>] = shares[<<m, s>>] /\ rate' = rate
      BY <2>1, <2>2, TradeElsewhere
    <3>2. OrderIn(m)' <=> OrderIn(m)
      BY <2>1, <2>2 DEF OrderIn
    <3>3. OrderIn(m) => inFlight' = inFlight
      BY <2>1 DEF OrderIn
    <3>4. Untouched(m)
      <4>1. rate'[m] = rate[m]
        BY <3>1 DEF Sides
      <4>2. QED
        BY <3>1, <3>2, <3>3, <4>1 DEF Untouched
    <3>5. QED
      BY <2>1, <3>4 DEF state, Usd
  <2>3. met \subseteq met' /\ (Checking' => h[1] \in met')
    BY <2>1 DEF Meets, Checking, loop
  <2>4. Checking' => \A m \in Markets \ met' : FetchedIsHeld(m)'
    BY <2>1, <2>2, <2>3, KeepsFetched DEF loop, Checking
  <2>5. CASE part = Lot
    <3>1. misstated' = misstated /\ Execute(h, buy, Lot)
      BY <1>1, <2>5 DEF Execute
    <3>2. \A m \in Markets \ misstated' : Balanced(m)'
      BY <3>1, TradeBalances DEF WorthInv
    <3>3. QED
      BY <2>4, <3>2 DEF WorthInv
  <2>6. CASE part # Lot
    <3>1. misstated' = misstated \cup {h[1]}
      BY <1>1, <2>6 DEF Execute, Upset
    <3>2. \A m \in Markets \ misstated' : Balanced(m)'
      BY <2>2, <3>1, KeepsBalance
    <3>3. QED
      BY <2>4, <3>2 DEF WorthInv
  <2>7. QED
    BY <2>5, <2>6
<1>2. CASE ExecuteAgain
  <2> DEFINE h == inFlight.holding
  <2>1. Trades(h, inFlight.buy, Lot) /\ h \in Holdings /\ Meets(h[1]) /\ Upset({h[1]})
        /\ UNCHANGED <<state, loop, inFlight>>
    BY <1>2 DEF ExecuteAgain, TypeInv
  <2>2. ASSUME NEW m \in Markets, m # h[1] PROVE Untouched(m) /\ Usd(m)' = Usd(m)
    <3>1. \A s \in Sides : shares'[<<m, s>>] = shares[<<m, s>>] /\ rate' = rate
      BY <2>1, <2>2, TradeElsewhere
    <3>2. OrderIn(m)' <=> OrderIn(m)
      BY <2>1, <2>2 DEF OrderIn
    <3>3. OrderIn(m) => inFlight' = inFlight
      BY <2>1 DEF OrderIn
    <3>4. Untouched(m)
      <4>1. rate'[m] = rate[m]
        BY <3>1 DEF Sides
      <4>2. QED
        BY <3>1, <3>2, <3>3, <4>1 DEF Untouched
    <3>5. QED
      BY <2>1, <3>4 DEF state, Usd
  <2>3. met \subseteq met' /\ (Checking' => h[1] \in met') /\ misstated' = misstated \cup {h[1]}
    BY <2>1 DEF Meets, Upset, Checking, loop
  <2>4. Checking' => \A m \in Markets \ met' : FetchedIsHeld(m)'
    BY <2>1, <2>2, <2>3, KeepsFetched DEF loop, Checking
  <2>5. \A m \in Markets \ misstated' : Balanced(m)'
    BY <2>2, <2>3, KeepsBalance
  <2>6. QED
    BY <2>4, <2>5 DEF WorthInv
<1>3. CASE Settle
  <2> DEFINE n == inFlight.holding[1]
  <2>1. /\ inFlight' = NoOrder /\ inFlight # NoOrder /\ Meets(n) /\ misstated' = misstated
        /\ UNCHANGED <<market, loop>>
    BY <1>3 DEF Settle
  <2>2. ASSUME NEW m \in Markets, m # n PROVE Untouched(m)
    BY <2>1, <2>2 DEF Untouched, OrderIn, market
  <2>3. met \subseteq met' /\ (Checking' => n \in met')
    BY <2>1 DEF Meets, Checking, loop
  <2>4. Checking' => \A m \in Markets \ met' : FetchedIsHeld(m)'
    BY <2>1, <2>2, <2>3, KeepsFetched DEF loop, Checking
  <2>5. \A m \in Markets \ misstated' : Balanced(m)'
    BY <1>3, <2>1, SettleBalances DEF WorthInv
  <2>6. QED
    BY <2>4, <2>5 DEF WorthInv
<1>4. CASE NeverSettled
  <2> DEFINE n == inFlight.holding[1]
  <2>1. /\ inFlight' = NoOrder /\ inFlight # NoOrder /\ Upset({n}) /\ met' = met
        /\ UNCHANGED <<market, state, loop>>
    BY <1>4 DEF NeverSettled
  <2>2. ASSUME NEW m \in Markets, m # n PROVE Untouched(m) /\ Usd(m)' = Usd(m)
    BY <2>1, <2>2 DEF Untouched, OrderIn, market, state, Usd
  <2>3. misstated' = misstated \cup {n}
    BY <2>1 DEF Upset
  <2>4. ASSUME Checking', NEW m \in Markets \ met' PROVE Untouched(m)
    <3>1. FetchedIsHeld(m)
      BY <2>1, <2>4 DEF WorthInv, Checking, loop
    <3>2. m # n
      BY <2>1, <3>1 DEF FetchedIsHeld, OrderIn
    <3>3. QED
      BY <2>2, <3>2
  <2>5. Checking' => \A m \in Markets \ met' : FetchedIsHeld(m)'
    BY <2>1, <2>4, KeepsFetched DEF loop, Checking
  <2>6. \A m \in Markets \ misstated' : Balanced(m)'
    BY <2>2, <2>3, KeepsBalance
  <2>7. QED
    BY <2>5, <2>6 DEF WorthInv
<1>5. ASSUME NEW n \in Markets, NEW buy \in BOOLEAN, UserFill(n, buy) PROVE WorthInv'
  <2> DEFINE usd == IF buy THEN Usd(n) + Lot ELSE Bigger(Usd(n) - Lot, 0)
  <2>1. /\ exposure' = [k \in DOMAIN exposure \cup {n} |-> IF k = n THEN usd ELSE exposure[k]]
        /\ misstated' = misstated \cup {n} /\ UNCHANGED <<market, inFlight, loop, met>>
    BY <1>5 DEF UserFill, Upset
  <2> HIDE DEF usd
  <2>2. \A m \in Markets : Untouched(m)
    BY <2>1 DEF Untouched, OrderIn, market
  <2>3. \A m \in Markets \ misstated' : Usd(m)' = Usd(m)
    BY <2>1 DEF Usd
  <2>4. QED
    BY <2>1, <2>2, <2>3, KeepsFetched, KeepsBalance DEF WorthInv, loop, Checking
<1>6. ASSUME NEW h \in Holdings, TradeOutside(h) PROVE WorthInv'
  <2>1. /\ shares' = [shares EXCEPT ![h] = IF @ = 0 THEN Lot * rate[h[1]] ELSE 0]
        /\ UNCHANGED <<rate, state, inFlight, loop>> /\ Meets(h[1]) /\ Upset({h[1]})
    BY <1>6 DEF TradeOutside
  <2>2. ASSUME NEW m \in Markets, m # h[1] PROVE Untouched(m) /\ Usd(m)' = Usd(m)
    BY <2>1, <2>2 DEF Untouched, OrderIn, state, Usd, Holdings, TypeInv, TypeOK
  <2>3. met \subseteq met' /\ (Checking' => h[1] \in met') /\ misstated' = misstated \cup {h[1]}
    BY <2>1 DEF Meets, Upset, Checking, loop
  <2>4. QED
    BY <2>1, <2>2, <2>3, KeepsFetched, KeepsBalance DEF WorthInv, loop, Checking
<1>7. ASSUME NEW n \in Markets, PriceMoves(n) PROVE WorthInv'
  <2>1. /\ \A m \in Markets : rate'[m] # rate[m] <=> m = n
        /\ UNCHANGED <<shares, state, inFlight, loop>> /\ Meets(n) /\ Upset({n})
    BY <1>7 DEF PriceMoves
  <2>2. ASSUME NEW m \in Markets, m # n PROVE Untouched(m) /\ Usd(m)' = Usd(m)
    BY <2>1, <2>2 DEF Untouched, OrderIn, state, Usd
  <2>3. met \subseteq met' /\ (Checking' => n \in met') /\ misstated' = misstated \cup {n}
    BY <2>1 DEF Meets, Upset, Checking, loop
  <2>4. QED
    BY <2>1, <2>2, <2>3, KeepsFetched, KeepsBalance DEF WorthInv, loop, Checking
<1>8. CASE Restart
  <2>1. /\ exposure' = NoExposure /\ inFlight' = NoOrder /\ check' = "idle"
        /\ misstated' = {m \in Markets : \E s \in Sides : shares[<<m, s>>] > 0}
        /\ UNCHANGED market
    BY <1>8 DEF Restart
  <2>2. ASSUME NEW m \in Markets \ misstated' PROVE Balanced(m)'
    <3>1. \A s \in Sides : shares[<<m, s>>] = 0
      <4>1. ASSUME NEW s \in Sides PROVE shares[<<m, s>>] \in Nat /\ ~(shares[<<m, s>>] > 0)
        BY <2>1, <2>2 DEF TypeInv, TypeOK, Holdings
      <4>2. QED
        BY <4>1
    <3>2. Sum(m)' = 0
      BY <2>1, <3>1 DEF Sum, Sides, market
    <3>3. Usd(m)' = 0 /\ Owed(m)' = 0
      BY <2>1 DEF Usd, NoExposure, OrderIn, Owed
    <3>4. rate'[m] \in Nat \ {0}
      BY <2>1, RateType DEF market
    <3>5. 0 \div rate'[m] = 0
      BY <3>4, OnlyQuotient
    <3>6. QED
      BY <3>2, <3>3, <3>5 DEF Balanced
  <2>3. ~Checking'
    BY <2>1 DEF Checking
  <2>4. QED
    BY <2>2, <2>3 DEF WorthInv
<1>9. ASSUME UNCHANGED <<market, exposure, inFlight, misstated>>,
             Checking' => \A m \in Markets \ met' : FetchedIsHeld(m)'
      PROVE  WorthInv'
  <2>1. \A m \in Markets : Untouched(m) /\ Usd(m)' = Usd(m)
    BY <1>9 DEF Untouched, OrderIn, market, Usd
  <2>2. QED
    BY <1>9, <2>1, KeepsBalance DEF WorthInv
<1>10. ASSUME UNCHANGED <<market, inFlight, fetched, met>>, Checking' => Checking
       PROVE  Checking' => \A m \in Markets \ met' : FetchedIsHeld(m)'
  <2>1. \A m \in Markets : Untouched(m)
    BY <1>10 DEF Untouched, OrderIn, market
  <2>2. QED
    BY <1>10, <2>1, KeepsFetched
<1>11. CASE Resume
  BY <1>9, <1>10, <1>11 DEF Resume, loop, history, Checking
<1>12. CASE Tick \/ FetchFails
  BY <1>9, <1>12 DEF Tick, FetchFails, state, history, Checking
<1>13. CASE Fetch
  <2>1. UNCHANGED <<market, exposure, inFlight, misstated>>
        /\ met' = IF inFlight = NoOrder THEN {} ELSE {inFlight.holding[1]}
    BY <1>13 DEF Fetch, state
  <2>2. Fetched' = {Position(h) : h \in Held}
    BY <1>13, FetchedList DEF Fetched
  <2>3. ASSUME NEW m \in Markets \ met' PROVE FetchedIsHeld(m)'
    <3>1. ~OrderIn(m)'
      BY <2>1, <2>3 DEF OrderIn
    <3>2. Held' = Held /\ \A h \in Held : Position(h)' = Position(h) /\ Position(h).market = h[1]
      BY <2>1 DEF Held, Position, market
    <3>3. QED
      BY <2>2, <3>1, <3>2 DEF FetchedIsHeld
  <2>4. QED
    BY <1>9, <2>1, <2>3
<1>14. CASE Compare
  <2>1. UNCHANGED <<market, exposure, inFlight, met, misstated>> /\ Checking
    BY <1>14 DEF Compare, state, history, Checking
  <2>2. Checking' => fetched' = fetched
    BY <1>14 DEF Compare, NextAfter, Checking
  <2>3. QED
    BY <1>9, <1>10, <2>1, <2>2
<1>15. CASE Correct
  <2>1. /\ UNCHANGED market /\ ~Checking' /\ Checking
        /\ misstated' = met \cup {m \in Markets : BothOutcomes(m)}
    BY <1>15 DEF Correct, NextAfter, Checking
  <2>2. \A m \in Markets \ misstated' : Balanced(m)'
    BY <1>15, <2>1, CorrectBalances DEF WorthInv
  <2>3. QED
    BY <2>1, <2>2 DEF WorthInv
<1>16. CASE Pause
  BY <1>9, <1>16 DEF Pause, history, Checking
<1>17. CASE UNCHANGED vars
  BY <1>9, <1>10, <1>17 DEF vars, state, loop, history, Checking
<1>18. QED
  BY <1>1, <1>2, <1>3, <1>4, <1>5, <1>6, <1>7, <1>8, <1>11, <1>12, <1>13, <1>14, <1>15, <1>16,
     <1>17 DEF Next, Loop

\* For every number of markets, rates, orders and upsets, the exposure the caps
\* are checked against is the worth of what is held, but for the order on its way
\* and the markets that one of the listed causes has set apart: what an order
\* filled in full adds on the exchange it owes to the exposure until it is
\* settled, and a correction that met nothing of a market mends whatever was
\* wrong about it.
THEOREM ExposureWorth == Spec => []ExposureIsWorth
<1>1. TypeInv /\ WorthInv => ExposureIsWorth
  BY WorthFollows
<1>2. QED
  BY <1>1, TypeAlways, WorthInit, WorthStep, PTL DEF Spec
=============================================================================
