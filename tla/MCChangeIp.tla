------------------------------ MODULE MCChangeIp ------------------------------
(* A small instance of ChangeIp: two tasks of one instance, two workers. *)
EXTENDS ChangeIp
CONSTANTS w1, w2, r1, a1, a2
=============================================================================
