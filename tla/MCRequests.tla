----------------------------- MODULE MCRequests -----------------------------
(* Nothing in Requests tells portals apart. *)
EXTENDS Requests, TLC

Symmetry == Permutations(Portals)
=============================================================================
