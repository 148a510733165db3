--------------------------- MODULE MCTaskScheduler ---------------------------
(* A small instance of TaskScheduler: create tasks "a" (two jobs) and "b",     *)
(* and a change-IP task "i".                                                   *)
EXTENDS TaskScheduler, TLC

CONSTANTS c1, c2, c3, i1

MCKey == {"a", "b", "i"}
MCCreateKey == {"a", "b"}

\* c1 and c2 are two submissions of one task.
MCKeyOf == (c1 :> "a") @@ (c2 :> "a") @@ (c3 :> "b") @@ (i1 :> "i")
=============================================================================
