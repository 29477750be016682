-------------------------- MODULE MC_Reconciliation -------------------------
(* Instances of Reconciliation: two markets, with one or two shares for a  *)
(* dollar.                                                                 *)
EXTENDS Reconciliation, TLC

CONSTANTS m1, m2
=============================================================================
