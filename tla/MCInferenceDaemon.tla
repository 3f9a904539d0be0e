------------------------- MODULE MCInferenceDaemon -------------------------
(* Model-checking instance of InferenceDaemon. *)
EXTENDS InferenceDaemon, TLC
=============================================================================
