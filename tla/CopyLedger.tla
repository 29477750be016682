----------------------------- MODULE CopyLedger ----------------------------
(***************************************************************************)
(* What the pipeline promises about risk, without its steps: one claim at  *)
(* a time, made only within the caps it was judged under, and charged in   *)
(* full or not at all.                                                     *)
(***************************************************************************)
EXTENDS Integers

CONSTANT Markets

VARIABLES
    caps,       \* the caps the next claim is judged under
    claim,      \* [notional, market, side] of the order in flight; notional 0: none
    spent,      \* notional charged to the day
    exposed,    \* market -> notional
    open        \* positions

ledgerVars == <<caps, claim, spent, exposed, open>>

Init ==
    /\ claim.notional = 0 /\ spent = 0 /\ open = 0
    /\ exposed = [m \in Markets |-> 0]

\* The caps change only while nothing is claimed.
Look == claim.notional = 0 /\ UNCHANGED <<claim, spent, exposed, open>>

Claim ==
    /\ claim.notional = 0 /\ claim'.notional > 0
    /\ claim'.notional <= caps.perTrade
    /\ spent + claim'.notional <= caps.daily
    /\ exposed[claim'.market] + claim'.notional <= caps.market
    /\ open + 1 <= caps.open
    /\ UNCHANGED <<caps, spent, exposed, open>>

\* The whole claim is charged: a buy raises the market and the count, a sell
\* lowers them, neither below zero.
Charge ==
    /\ claim.notional > 0 /\ claim'.notional = 0
    /\ spent' = spent + claim.notional
    /\ IF claim.side = "buy"
       THEN /\ exposed' = [exposed EXCEPT ![claim.market] = @ + claim.notional]
            /\ open' = open + 1
       ELSE /\ exposed' = [exposed EXCEPT ![claim.market] =
                               IF @ > claim.notional THEN @ - claim.notional ELSE 0]
            /\ open' = IF open > 0 THEN open - 1 ELSE 0

\* The order failed, or its bookkeeping did: nothing is charged.
Release == claim.notional > 0 /\ claim'.notional = 0 /\ UNCHANGED <<spent, exposed, open>>

NewDay ==
    /\ claim.notional = 0 /\ spent' = 0
    /\ UNCHANGED <<caps, claim, exposed, open>>

\* An own fill reported by the exchange moves one market.
External ==
    /\ claim.notional = 0
    /\ \E m \in Markets : \A n \in Markets \ {m} : exposed'[n] = exposed[n]
    /\ UNCHANGED <<caps, claim, spent, open>>

Forget ==
    /\ claim'.notional = 0 /\ spent' = 0 /\ open' = 0
    /\ exposed' = [m \in Markets |-> 0]

Next == Look \/ Claim \/ Charge \/ Release \/ NewDay \/ External \/ Forget

Spec == Init /\ [][Next]_ledgerVars
=============================================================================
