--------------------------- MODULE MC_CommandBot ---------------------------
(* An instance of CommandBot for TLC: see the configuration.               *)
EXTENDS CommandBot, TLC
=============================================================================
