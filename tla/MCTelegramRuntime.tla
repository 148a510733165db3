-------------------------- MODULE MCTelegramRuntime --------------------------
(* A small instance of TelegramRuntime: two updates at a time and the dispatcher. *)
EXTENDS TelegramRuntime
CONSTANTS c1, c2, r1, r2, d1
=============================================================================
