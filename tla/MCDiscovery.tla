----------------------------- MODULE MCDiscovery -----------------------------
(* Nothing in Discovery tells targets, portals or discovery portals apart. *)
EXTENDS Discovery, TLC

Symmetry ==
    Permutations(Targets) \cup Permutations(Portals) \cup Permutations(DiscoveryPortals)
=============================================================================
