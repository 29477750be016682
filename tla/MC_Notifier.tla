---------------------------- MODULE MC_Notifier ----------------------------
(* An instance of Notifier for TLC: pages of two events, a set of seen ids *)
(* that is pruned above two.                                               *)
EXTENDS Notifier, TLC

CONSTANTS p1, p2
=============================================================================
