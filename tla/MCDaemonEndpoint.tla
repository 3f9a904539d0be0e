-------------------------- MODULE MCDaemonEndpoint --------------------------
(* Model-checking instance of DaemonEndpoint. *)
EXTENDS DaemonEndpoint, TLC

Symmetry == Permutations(Clients) \cup Permutations(Daemons)
=============================================================================
