--------------------------- MODULE MCSecurityRules ---------------------------
(* Two requests on a list of two rules, one of them the rule that releasing writes. *)
EXTENDS SecurityRules, TLC
CONSTANTS ssh, allow, q1, q2, nobody
Symmetry == Permutations({q1, q2})
=============================================================================
