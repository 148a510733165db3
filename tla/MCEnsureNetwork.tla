--------------------------- MODULE MCEnsureNetwork ---------------------------
(* Two launches and an IPv6 request; one call fails or the owner makes one change. *)
EXTENDS EnsureNetwork, TLC
CONSTANTS v1, v2, g1, g2, foreign, none, l1, l2, i1
Symmetry == Permutations(Vcn) \cup Permutations(Launch) \cup Permutations(Gateway)
=============================================================================
