--------------------------- MODULE MC_Supervision ---------------------------
(* Instances of Supervision for TLC: with and without sqlite3.             *)
EXTENDS Supervision, TLC
=============================================================================
