--------------------------- MODULE SchedulerPromise ---------------------------
(***************************************************************************)
(* What the task scheduler promises the services that submit tasks, with   *)
(* no threads, no timers, no futures and no pool: at most one execution of *)
(* a registered task at a time, only while it is not held, and no more     *)
(* executions than workers.  A task leaves the registry when it is         *)
(* unscheduled or when its own execution was the last one; an execution    *)
(* of a task that was unscheduled goes on, and its end touches nothing.    *)
(* TaskScheduler keeps it, and the schedulers that CreateTask and ChangeIp *)
(* have in its place do no more than it.                                   *)
(***************************************************************************)
EXTENDS Naturals, FiniteSets

CONSTANTS Key, NoKey, Execution, NoExecution, Workers

VARIABLES
  registered,  \* the keys that have a task
  held,        \* those whose task is paused
  runner,      \* the execution of the registered task of a key
  busy         \* the key an execution is at work for

vars == <<registered, held, runner, busy>>

Init ==
  /\ registered = {} /\ held = {}
  /\ runner = [k \in Key |-> NoExecution]
  /\ busy = [e \in Execution |-> NoKey]

\* New tasks, some of them paused; a task that is registered is left as it is.
Schedule(S, H) ==
  /\ S \cap registered = {} /\ H \subseteq S
  /\ registered' = registered \cup S
  /\ held' = held \cup H
  /\ UNCHANGED <<runner, busy>>

Leave(S) ==
  /\ registered' = registered \ S
  /\ held' = held \ S
  /\ runner' = [k \in Key |-> IF k \in S THEN NoExecution ELSE runner[k]]

\* A stop, or a shutdown, which unschedules all.
Unschedule(S) == Leave(S) /\ UNCHANGED busy

Hold(k) == k \in registered /\ held' = held \cup {k} /\ UNCHANGED <<registered, runner, busy>>
Release(k) == k \in registered /\ held' = held \ {k} /\ UNCHANGED <<registered, runner, busy>>

Dispatch(e, k) ==
  /\ k \in registered \ held /\ runner[k] = NoExecution
  /\ busy[e] = NoKey /\ Cardinality({d \in Execution : busy[d] # NoKey}) < Workers
  /\ runner' = [runner EXCEPT ![k] = e]
  /\ busy' = [busy EXCEPT ![e] = k]
  /\ UNCHANGED <<registered, held>>

\* Whether the task wants another execution is up to the one that ends.
Complete(e) ==
  /\ busy[e] # NoKey
  /\ busy' = [busy EXCEPT ![e] = NoKey]
  /\ IF runner[busy[e]] = e
     THEN \/ Leave({busy[e]})
          \/ runner' = [runner EXCEPT ![busy[e]] = NoExecution] /\ UNCHANGED <<registered, held>>
     ELSE UNCHANGED <<registered, held, runner>>

Next ==
  \/ \E k \in Key : Hold(k) \/ Release(k)
  \/ \E S \in SUBSET Key : Unschedule(S) \/ \E H \in SUBSET S : Schedule(S, H)
  \/ \E e \in Execution : Complete(e) \/ \E k \in Key : Dispatch(e, k)

Spec == Init /\ [][Next]_vars

\* The process dies, wherever it is.
Crash ==
  /\ registered' = {} /\ held' = {}
  /\ runner' = [k \in Key |-> NoExecution]
  /\ busy' = [e \in Execution |-> NoKey]

SpecWithCrashes == Init /\ [][Next \/ Crash]_vars
=============================================================================
