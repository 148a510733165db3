------------------------------ MODULE MCStartUp ------------------------------
(* A small instance of StartUp: two processes, databases of six versions. *)
EXTENDS StartUp
=============================================================================
