------------------------------- MODULE MCDaemon -------------------------------
(* Nothing in Daemon tells tools apart. *)
EXTENDS Daemon, TLC

Symmetry == Permutations(Clients)
=============================================================================
