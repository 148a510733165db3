---------------------------- MODULE MCConfigKeys -----------------------------
(* Two imports and two removals over one supplied file and two generated keys; requests *)
(* of a kind are interchangeable.                                                       *)
EXTENDS ConfigKeys, TLC
CONSTANTS given, a1, a2, r1, r2
Interchangeable == Permutations({a1, a2}) \cup Permutations({r1, r2})
=============================================================================
