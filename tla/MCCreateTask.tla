---------------------------- MODULE MCCreateTask ----------------------------
(* A small instance of CreateTask: two tasks of one configuration, one request at a time. *)
EXTENDS CreateTask

CONSTANTS w1, w2, r1

=============================================================================
