---------------------------- MODULE TaskScheduler ----------------------------
(***************************************************************************)
(* core/task_scheduler.py: one dispatcher thread, a bounded worker pool    *)
(* and the registries of retry tasks, all guarded by one re-entrant lock.  *)
(*                                                                         *)
(* Every action is one critical section of that lock, or one step of a     *)
(* worker between two of them.  A Job is a TaskInfo object, so two jobs    *)
(* with the same key are a task and its replacement after a stop.  Time is *)
(* abstracted to what the dispatcher compares: a job's timer either has    *)
(* elapsed (due, with the set of jobs whose next_run is earlier) or has    *)
(* not (sleeping).                                                         *)
(***************************************************************************)
EXTENDS Integers, FiniteSets

CONSTANTS
  Key,            \* (category, task_key) pairs
  CreateKey,      \* the keys of the "create" category, the only ones that pause
  Job,            \* the TaskInfo objects a behaviour may create (the model's bound)
  NoJob,          \* "key not in registry"
  KeyOf,          \* the key each job is submitted under
  Workers,        \* settings.task_worker_count
  SubmitMayFail   \* whether executor.submit may raise RuntimeError while running

ASSUME SchedulerAssumption ==
  /\ IsFiniteSet(Job)
  /\ NoJob \notin Job \cup Key
  /\ CreateKey \subseteq Key
  /\ KeyOf \in [Job -> Key]
  /\ Workers \in Nat \ {0}
  /\ SubmitMayFail \in BOOLEAN

VARIABLES
  phase,        \* "off", "running", or "closing": shutdown() past its critical section
  dispatcher,   \* the dispatcher thread of the current executor is alive
  registry,     \* _create_tasks and _change_ip_tasks
  functions,    \* the keys of _functions
  created,      \* jobs constructed so far
  paused, running, stopped,   \* the flags of TaskInfo
  sleeping,     \* registered, not running jobs with next_run > now
  due,          \* registered, not running jobs with next_run <= now
  ahead,        \* ahead[j]: the due jobs with an earlier next_run than j
  future        \* the future of each job: in _futures unless "none"

flags == <<paused, running, stopped>>
timers == <<sleeping, due, ahead>>
vars == <<phase, dispatcher, registry, functions, created, flags, timers, future>>

FutureState == {"none", "queued", "executing", "done", "retry", "cancelled"}

TypeOK ==
  /\ phase \in {"off", "running", "closing"}
  /\ dispatcher \in BOOLEAN
  /\ registry \in [Key -> Job \cup {NoJob}]
  /\ functions \in SUBSET Key
  /\ created \in SUBSET Job
  /\ paused \in SUBSET Job
  /\ running \in SUBSET Job
  /\ stopped \in SUBSET Job
  /\ sleeping \in SUBSET Job
  /\ due \in SUBSET Job
  /\ ahead \in [Job -> SUBSET Job]
  /\ future \in [Job -> FutureState]

Init ==
  /\ phase = "off"
  /\ dispatcher = FALSE
  /\ registry = [k \in Key |-> NoJob]
  /\ functions = {}
  /\ created = {}
  /\ paused = {} /\ running = {} /\ stopped = {}
  /\ sleeping = {} /\ due = {}
  /\ ahead = [j \in Job |-> {}]
  /\ future = [j \in Job |-> "none"]

-----------------------------------------------------------------------------

\* registry.get(task_key) is task
Current(j) == registry[KeyOf[j]] = j

Registered == {j \in Job : Current(j)}

InFlight == {j \in Job : future[j] # "none"}

\* next_run becomes now: j is due, after every job that already was.
BecomeDue(j) ==
  /\ due' = due \cup {j}
  /\ sleeping' = sleeping \ {j}
  /\ ahead' = [i \in Job |-> IF i = j THEN due \ {j} ELSE ahead[i] \ {j}]

LeaveTimers(S) ==
  /\ due' = due \ S
  /\ sleeping' = sleeping \ S
  /\ ahead' = [i \in Job |-> IF i \in S THEN {} ELSE ahead[i] \ S]

Start ==
  /\ phase = "off"
  /\ phase' = "running"
  /\ dispatcher' = TRUE
  /\ UNCHANGED <<registry, functions, created, flags, timers, future>>

\* _submit; a duplicate key is skipped and a stopped scheduler raises.
Submit(j, isPaused, isDelayed) ==
  /\ phase = "running"
  /\ registry[KeyOf[j]] = NoJob
  /\ j \notin created
  /\ KeyOf[j] \in CreateKey \/ ~(isPaused \/ isDelayed)
  /\ registry' = [registry EXCEPT ![KeyOf[j]] = j]
  /\ functions' = functions \cup {KeyOf[j]}
  /\ created' = created \cup {j}
  /\ paused' = IF isPaused THEN paused \cup {j} ELSE paused
  /\ IF isDelayed
     THEN sleeping' = sleeping \cup {j} /\ UNCHANGED <<due, ahead>>
     ELSE BecomeDue(j)
  /\ UNCHANGED <<phase, dispatcher, running, stopped, future>>

\* _stop; the future, if there is one, is left to finish on its own.
Stop(j) ==
  /\ Current(j)
  /\ registry' = [registry EXCEPT ![KeyOf[j]] = NoJob]
  /\ functions' = functions \ {KeyOf[j]}
  /\ stopped' = stopped \cup {j}
  /\ LeaveTimers({j})
  /\ UNCHANGED <<phase, dispatcher, created, paused, running, future>>

Pause(j) ==
  /\ Current(j) /\ KeyOf[j] \in CreateKey
  /\ paused' = paused \cup {j}
  /\ UNCHANGED <<phase, dispatcher, registry, functions, created, running, stopped,
                 timers, future>>

\* next_run = now; for a running job _complete will overwrite it.
Resume(j) ==
  /\ Current(j) /\ KeyOf[j] \in CreateKey
  /\ paused' = paused \ {j}
  /\ IF j \in running THEN UNCHANGED timers ELSE BecomeDue(j)
  /\ UNCHANGED <<phase, dispatcher, registry, functions, created, running, stopped, future>>

\* time.monotonic() passes a sleeping job's next_run.
TimerElapses(j) ==
  /\ j \in sleeping
  /\ BecomeDue(j)
  /\ UNCHANGED <<phase, dispatcher, registry, functions, created, flags, future>>

-----------------------------------------------------------------------------
\* The dispatcher thread.

Ready == {j \in due : /\ Current(j)
                      /\ KeyOf[j] \in functions
                      /\ j \notin paused \cup running \cup stopped}

Available == Workers - Cardinality(InFlight)

IgnoringOrder(B) == TRUE  \* mutant

\* due.sort(key=next_run): no job outside the batch was due earlier.
Earliest(B) == \A j \in B : ahead[j] \cap Ready \subseteq B

BatchSize == IF Cardinality(Ready) < Available THEN Cardinality(Ready) ELSE Available

SubmitBatch(B) ==
  /\ Earliest(B)
  /\ running' = running \cup B
  /\ future' = [j \in Job |-> IF j \in B THEN "queued" ELSE future[j]]
  /\ LeaveTimers(B)
  /\ UNCHANGED <<phase, registry, functions, created, paused, stopped>>

CanDispatch == phase = "running" /\ dispatcher /\ Available > 0 /\ Ready # {}

Dispatch ==
  /\ CanDispatch
  /\ \E B \in SUBSET Ready : Cardinality(B) = BatchSize /\ SubmitBatch(B)
  /\ UNCHANGED dispatcher

\* executor.submit raises part way through the batch: the thread returns for good.
DispatchFails ==
  /\ SubmitMayFail
  /\ CanDispatch
  /\ \E B \in SUBSET Ready : Cardinality(B) < BatchSize /\ SubmitBatch(B)
  /\ dispatcher' = FALSE

-----------------------------------------------------------------------------
\* A worker of the pool: _execute, the task's function, the done callback.

MayExecute(j) == phase = "running" /\ Current(j) /\ j \notin stopped \cup paused

SetFuture(j, s) ==
  /\ future' = [future EXCEPT ![j] = s]
  /\ UNCHANGED <<phase, dispatcher, registry, functions, created, flags, timers>>

BeginUnchecked(j) == future[j] = "queued" /\ SetFuture(j, "executing")  \* mutant

Begin(j) == future[j] = "queued" /\ MayExecute(j) /\ SetFuture(j, "executing")

Skip(j) == future[j] = "queued" /\ ~MayExecute(j) /\ SetFuture(j, "retry")

\* The function is done, asks for another run, or raises (another run as well).
Return(j) == future[j] = "executing" /\ \E s \in {"done", "retry"} : SetFuture(j, s)

Finished(j) == future[j] \in {"done", "retry", "cancelled"}

\* The part of _complete behind the identity check.
Settle(j) ==
  /\ running' = running \ {j}
  /\ IF future[j] = "done" \/ j \in stopped
     THEN /\ registry' = [registry EXCEPT ![KeyOf[j]] = NoJob]
          /\ functions' = functions \ {KeyOf[j]}
          /\ UNCHANGED timers
     ELSE sleeping' = sleeping \cup {j} /\ UNCHANGED <<registry, functions, due, ahead>>

CompleteByKey(j) ==  \* mutant: no "registry.get(task_key) is not task"
  /\ Finished(j)
  /\ future' = [future EXCEPT ![j] = "none"]
  /\ Settle(j)
  /\ UNCHANGED <<phase, dispatcher, created, paused, stopped>>

CompleteStillRunning(j) ==  \* mutant: a rescheduled task keeps running = True
  /\ Finished(j)
  /\ future' = [future EXCEPT ![j] = "none"]
  /\ IF Current(j) /\ future[j] = "done" THEN Settle(j)
     ELSE UNCHANGED <<registry, functions, running, timers>>
  /\ UNCHANGED <<phase, dispatcher, created, paused, stopped>>

Complete(j) ==
  /\ Finished(j)
  /\ future' = [future EXCEPT ![j] = "none"]
  /\ IF Current(j) THEN Settle(j)
     ELSE UNCHANGED <<registry, functions, running, timers>>
  /\ UNCHANGED <<phase, dispatcher, created, paused, stopped>>

-----------------------------------------------------------------------------
\* shutdown(): the critical section, then executor.shutdown(cancel_futures=True).

Shutdown ==
  /\ phase = "running"
  /\ phase' = "closing"
  /\ dispatcher' = FALSE
  /\ registry' = [k \in Key |-> NoJob]
  /\ functions' = {}
  /\ stopped' = stopped \cup Registered
  /\ LeaveTimers(Registered)
  /\ UNCHANGED <<created, paused, running, future>>

CancelQueued(j) == phase = "closing" /\ future[j] = "queued" /\ SetFuture(j, "cancelled")

\* shutdown() returns; workers that are executing are not waited for.
Closed ==
  /\ phase = "closing"
  /\ \A j \in Job : future[j] \notin {"queued", "cancelled"}
  /\ phase' = "off"
  /\ UNCHANGED <<dispatcher, registry, functions, created, flags, timers, future>>

Worker(j) == Begin(j) \/ Skip(j) \/ Return(j) \/ Complete(j)

Next ==
  \/ Start \/ Shutdown \/ Closed
  \/ Dispatch \/ DispatchFails
  \/ \E j \in Job : \/ \E p, d \in BOOLEAN : Submit(j, p, d)
                    \/ Stop(j) \/ Pause(j) \/ Resume(j)
                    \/ TimerElapses(j)
                    \/ Begin(j) \/ Skip(j) \/ Return(j) \/ Complete(j)
                    \/ CancelQueued(j)

Spec == Init /\ [][Next]_vars

\* The dispatcher thread runs, workers make progress, a task's function returns
\* and monotonic time advances.
Fairness ==
  /\ WF_vars(Dispatch)
  /\ WF_vars(Closed)
  /\ \A j \in Job : /\ WF_vars(Worker(j))
                    /\ WF_vars(TimerElapses(j))
                    /\ WF_vars(CancelQueued(j))

FairSpec == Spec /\ Fairness

-----------------------------------------------------------------------------
(* At most Workers functions are queued or executing at once, also while    *)
(* workers of a scheduler that was shut down and started again are still    *)
(* busy (_dispatch_loop counts _futures, which shutdown keeps).             *)
WorkerBound == Cardinality(InFlight) <= Workers

(* A registered task is never lost: its function is there, and either its   *)
(* timer is armed or a future will complete it, never both and never        *)
(* neither (running, next_run and _futures agree, whatever stop, pause,     *)
(* shutdown and completion did in between).                                 *)
NoLostTask ==
  \A j \in Registered :
    /\ KeyOf[j] \in functions
    /\ j \in running <=> future[j] # "none"
    /\ j \in running <=> j \notin due \cup sleeping

(* What makes NoLostTask and WorkerBound inductive: the registry, the flags *)
(* and the timers describe the same set of live tasks, a job is registered  *)
(* under its own key only, and nothing is registered outside start/shutdown.*)
Consistent ==
  /\ \A k \in Key : registry[k] # NoJob => KeyOf[registry[k]] = k
  /\ phase # "running" => \A k \in Key : registry[k] = NoJob
  /\ due \cup sleeping \subseteq Registered
  /\ Registered \subseteq created \ stopped
  /\ \A j \in Job \ created : future[j] = "none" /\ j \notin paused \cup running \cup stopped

SchedulerInv == TypeOK /\ Consistent /\ NoLostTask /\ WorkerBound

(* Only its own stop, a shutdown or its own "done" removes a task: the late *)
(* completion of an execution that was stopped leaves the replacement       *)
(* submitted under the same key alone (_complete's identity check).         *)
ReplacementUndisturbed ==
  [][\A k \in Key : registry[k] # NoJob /\ registry'[k] # registry[k]
        => registry[k] \in stopped' \/ future[registry[k]] = "done"]_vars

(* Once stop, pause or shutdown has returned, no execution of the task      *)
(* begins, even if it was already handed to the pool (_execute re-checks).  *)
NoStartAfterStop ==
  [][\A j \in Job : future[j] # "executing" /\ future'[j] = "executing"
        => j \notin stopped \cup paused]_vars

(* A stop holds for the task it has named: its execution does not begin     *)
(* any more, and one that goes on ends without a trace on a replacement.    *)
StopIsFinal == NoStartAfterStop /\ ReplacementUndisturbed

(* Threads, timers, futures and locks together keep SchedulerPromise, which *)
(* is what CreateTask and ChangeIp assume of the scheduler: an execution is *)
(* one from the beginning of its function to its return, or, when it is     *)
(* done, to the completion that takes the task off the registry.            *)
AtWork == {j \in Job : future[j] \in {"executing", "done"}}
RegisteredKeys == {k \in Key : registry[k] # NoJob}
HeldKeys == {k \in Key : registry[k] \in paused}
Runner == [k \in Key |-> IF registry[k] \in AtWork THEN registry[k] ELSE NoJob]
Busy == [j \in Job |-> IF j \in AtWork THEN KeyOf[j] ELSE NoJob]
Promise == INSTANCE SchedulerPromise WITH
  Execution <- Job, NoExecution <- NoJob, NoKey <- NoJob,
  registered <- RegisteredKeys, held <- HeldKeys, runner <- Runner, busy <- Busy
ActsAsPromised == Promise!Spec

(* A task that is registered and not paused gets a worker in the end, with  *)
(* fewer workers than tasks too (the batch is sorted by next_run), unless   *)
(* resume_create_task keeps being called for it: each call sets next_run to *)
(* now and sends a waiting task behind all the others.                      *)
NoStarvation ==
  \A j \in Job :
    <>[][~Resume(j)]_vars /\ [](phase = "running" => dispatcher) =>
      ((Current(j) /\ j \notin paused)
         ~> (future[j] = "executing" \/ ~Current(j) \/ j \in paused))

(* Every slot of the pool is given back, for stopped tasks and after a      *)
(* shutdown too, so the pool cannot shrink (_complete discards first).      *)
SlotsReturned == \A j \in Job : future[j] # "none" ~> future[j] = "none"

(* Registered tasks and the pool make progress together.                    *)
Progress == NoStarvation /\ SlotsReturned
=============================================================================
