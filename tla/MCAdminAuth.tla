----------------------------- MODULE MCAdminAuth -----------------------------
(* A small instance of AdminAuth: two updates and two logins at a time. *)
EXTENDS AdminAuth, TLC
CONSTANTS root, boss, p0, p1, l1, l2, u1, u2, ip1, none, noone
Symmetry == Permutations(Update) \cup Permutations(Login)
=============================================================================
