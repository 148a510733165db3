------------------------------ MODULE CreateTask ------------------------------
(***************************************************************************)
(* The persistent instance creation tasks of one OCI configuration:        *)
(* services/instance_service.py (a worker's attempt), services/            *)
(* oci_service.py (the API that creates, stops, pauses and resumes them)   *)
(* and main.py (restoring them after a restart).                           *)
(*                                                                         *)
(* Worker threads and API coroutines use sessions of their own: a SELECT   *)
(* outside a transaction, and later a COMMIT whose UPDATE writes the       *)
(* attributes the session changed, whatever the row holds by then.  Hence  *)
(* every operation is a reading action and a committing action.  The       *)
(* scheduler is reduced to what these operations see of it: the registered *)
(* tasks, those its pause flag holds back, and the worker executing each.  *)
(***************************************************************************)
EXTENDS Integers, FiniteSets

CONSTANTS
  Task,          \* ids create_task may generate, in this order (the model's bound)
  NoTask,
  Worker,        \* threads of the pool
  NoWorker,
  Request,       \* API coroutines that may be in progress at the same time
  Named,         \* tasks the operator's requests name
  Kinds,         \* what the operator asks for: subset of RequestKind
  Requested,     \* create_numbers of a new task
  MaxAttempts,   \* max_attempts, 0 for no limit
  Domains,       \* number of availability domains that support the shape
  Rotating,      \* the task names no availability domain of its own
  MaxDisturbances  \* bound on requests of the operator plus crashes

RequestKind == {"stop", "remove", "pause", "resume"}

ASSUME CreateTaskAssumption ==
  /\ Task \subseteq Nat /\ Named \subseteq Task /\ NoTask \notin Task
  /\ IsFiniteSet(Worker) /\ NoWorker \notin Worker
  /\ Kinds \subseteq RequestKind
  /\ Requested \in Nat \ {0} /\ MaxAttempts \in Nat /\ Domains \in Nat \ {0}
  /\ Rotating \in BOOLEAN /\ MaxDisturbances \in Nat

VARIABLES
  row,           \* oci_create_task
  user,          \* the oci_user row exists
  phase,         \* "up", "down", or "restoring": _restore_tasks has not committed
  restored,      \* what _restore_tasks read
  inserted,      \* tasks create_task has committed and not yet scheduled
  registered, held, runner,            \* the scheduler
  doubled,       \* history: tasks that were scheduled anew during an execution
  step, task, seen, launch, outcome,   \* the workers
  req,           \* the API coroutines
  instances,     \* OCI: the launch identities an instance exists for
  events,        \* the outbox: the launch identities a success was enqueued for
  calls,         \* history: runs that reached LaunchInstance, by task
  revived,       \* history: finished tasks that a request or restoring has made active again
  disturbances   \* requests and crashes so far

scheduler == <<registered, held, runner, doubled>>
workers == <<step, task, seen, launch, outcome>>
cloud == <<instances, calls, revived>>
vars == <<row, user, phase, restored, inserted, scheduler, workers, req, cloud, events, disturbances>>

Active == {"pending", "running", "paused"}
Terminal == {"succeeded", "failed", "cancelled"}
Row == [status : Active \cup Terminal \cup {"absent"}, paused : BOOLEAN,
        remaining : 0..Requested, domain : Nat, attempts : Nat]
NewRow == [status |-> "absent", paused |-> FALSE, remaining |-> Requested,
           domain |-> 0, attempts |-> 0]
Place == [remaining : 0..Requested, domain : 0..(Domains - 1)]
NoPlace == [remaining |-> 0, domain |-> 0]

Step == {"idle", "starting", "fetched", "preparing", "launching", "launched",
         "recording", "done", "retry"}
Outcome == {"none", "success", "capacity", "uncertain", "refused"}

\* _build_launch_identity: what retry_token_seed and the domain's name depend on.
Identity == [task : Task, place : Place]
Of(t, S) == {i \in S : i.task = t}

AtWork(w) == step[w] \notin {"idle", "done", "retry"}

Idle == [step |-> "idle", kind |-> "stop", task |-> NoTask, seen |-> NewRow]

TypeOK ==
  /\ row \in [Task -> Row]
  /\ user \in BOOLEAN
  /\ phase \in {"up", "down", "restoring"}
  /\ restored \in [Task -> Row]
  /\ inserted \in SUBSET Task
  /\ registered \in SUBSET Task /\ held \in SUBSET Task
  /\ runner \in [Task -> Worker \cup {NoWorker}]
  /\ step \in [Worker -> Step]
  /\ task \in [Worker -> Task \cup {NoTask}]
  /\ seen \in [Worker -> Row]
  /\ launch \in [Worker -> Place]
  /\ outcome \in [Worker -> Outcome]
  /\ req \in [Request -> [step : {"idle", "read", "applied"}, kind : RequestKind,
                          task : Task \cup {NoTask}, seen : Row]]
  /\ instances \in SUBSET Identity
  /\ events \in SUBSET Identity
  /\ calls \in [Task -> Nat] /\ revived \in SUBSET Task /\ doubled \in SUBSET Task
  /\ disturbances \in 0..MaxDisturbances

Init ==
  /\ row = [t \in Task |-> NewRow]
  /\ user = TRUE
  /\ phase = "up"
  /\ restored = [t \in Task |-> NewRow]
  /\ inserted = {}
  /\ registered = {} /\ held = {}
  /\ runner = [t \in Task |-> NoWorker]
  /\ step = [w \in Worker |-> "idle"]
  /\ task = [w \in Worker |-> NoTask]
  /\ seen = [w \in Worker |-> NewRow]
  /\ launch = [w \in Worker |-> NoPlace]
  /\ req = [r \in Request |-> Idle]
  /\ outcome = [w \in Worker |-> "none"]
  /\ instances = {} /\ events = {}
  /\ calls = [t \in Task |-> 0] /\ revived = {} /\ doubled = {}
  /\ disturbances = 0

-----------------------------------------------------------------------------
\* The database.

\* The UPDATE of a session that read "old" and holds "new": changed attributes only.
Merge(old, new, now) ==
  [status    |-> IF new.status    = old.status    THEN now.status    ELSE new.status,
   paused    |-> IF new.paused    = old.paused    THEN now.paused    ELSE new.paused,
   remaining |-> IF new.remaining = old.remaining THEN now.remaining ELSE new.remaining,
   domain    |-> IF new.domain    = old.domain    THEN now.domain    ELSE new.domain,
   attempts  |-> IF new.attempts  = old.attempts  THEN now.attempts  ELSE new.attempts]

\* oci_create_task_one_active_user, the partial unique index.
OneActive(rows) ==
  \A a, b \in Task : rows[a].status \in Active /\ rows[b].status \in Active => a = b

Updated(t, old, new) == [row EXCEPT ![t] = Merge(old, new, row[t])]

Saves(t, old, new) == OneActive(Updated(t, old, new)) /\ row' = Updated(t, old, new)

\* IntegrityError: the transaction is rolled back.
Conflicts(t, old, new) == ~OneActive(Updated(t, old, new)) /\ UNCHANGED row

Revivals == {t \in Task : row[t].status \in Terminal /\ row'[t].status \in Active}

-----------------------------------------------------------------------------
\* The scheduler, as these operations use it.

\* submit_create_task; a task that is registered is left as it is.
Schedule(S) ==
  /\ registered' = registered \cup S
  /\ held' = held \ (S \ registered)
  /\ runner' = [t \in Task |-> IF t \in S \ registered THEN NoWorker ELSE runner[t]]
  /\ doubled' = doubled \cup {t \in S \ registered : \E w \in Worker : AtWork(w) /\ task[w] = t}

Unschedule(t) ==
  /\ registered' = registered \ {t}
  /\ held' = held \ {t}
  /\ runner' = [runner EXCEPT ![t] = NoWorker]
  /\ UNCHANGED doubled

DispatchAnyway(w, t) ==  \* mutant: a task whose last execution is not over is dispatched
  /\ phase # "down"
  /\ step[w] = "idle"
  /\ t \in registered \ held
  /\ runner' = [runner EXCEPT ![t] = w]
  /\ step' = [step EXCEPT ![w] = "starting"]
  /\ task' = [task EXCEPT ![w] = t]
  /\ UNCHANGED <<row, user, phase, restored, inserted, registered, held, doubled, seen, launch, outcome,
                 req, cloud, events, disturbances>>

Dispatch(w, t) ==
  /\ phase # "down"
  /\ step[w] = "idle"
  /\ t \in registered \ held /\ runner[t] = NoWorker
  /\ runner' = [runner EXCEPT ![t] = w]
  /\ step' = [step EXCEPT ![w] = "starting"]
  /\ task' = [task EXCEPT ![w] = t]
  /\ UNCHANGED <<row, user, phase, restored, inserted, registered, held, doubled, seen, launch, outcome,
                 req, cloud, events, disturbances>>

\* _complete: only the worker of the registered job changes the registry.
Complete(w) ==
  /\ step[w] \in {"done", "retry"}
  /\ step' = [step EXCEPT ![w] = "idle"]
  /\ task' = [task EXCEPT ![w] = NoTask]
  /\ launch' = [launch EXCEPT ![w] = NoPlace]
  /\ IF runner[task[w]] = w
     THEN IF step[w] = "done" THEN Unschedule(task[w])
          ELSE runner' = [runner EXCEPT ![task[w]] = NoWorker] /\ UNCHANGED <<registered, held, doubled>>
     ELSE UNCHANGED scheduler
  /\ UNCHANGED <<row, user, phase, restored, inserted, seen, outcome, req, cloud, events, disturbances>>

-----------------------------------------------------------------------------
\* create_task: the INSERT, then schedule_create_task when the coroutine resumes.

Insert(t) ==
  /\ phase = "up" /\ row[t].status = "absent"
  /\ \A u \in Task : u < t => row[u].status # "absent"
  /\ LET rows == [row EXCEPT ![t].status = "pending"]
     IN OneActive(rows) /\ row' = rows
  /\ inserted' = inserted \cup {t}
  /\ UNCHANGED <<user, phase, restored, scheduler, workers, req, cloud, events, disturbances>>

ScheduleInserted(t) ==
  /\ t \in inserted
  /\ inserted' = inserted \ {t}
  /\ Schedule({t})
  /\ UNCHANGED <<row, user, phase, restored, workers, req, cloud, events, disturbances>>

-----------------------------------------------------------------------------
\* A worker: execute_create_task.

MoveTo(w, s) == step' = [step EXCEPT ![w] = s]

\* The SELECT of the first session and its early returns.
Fetch(w) ==
  /\ step[w] = "starting"
  /\ LET r == row[task[w]]
     IN \/ /\ r.status \in Terminal
           /\ MoveTo(w, "done") /\ UNCHANGED seen
        \/ /\ r.status \notin Terminal /\ (r.paused \/ r.status = "paused")
           /\ MoveTo(w, "retry") /\ UNCHANGED seen
        \/ /\ r.status \notin Terminal \cup {"paused"} /\ ~r.paused
           /\ MoveTo(w, "fetched") /\ seen' = [seen EXCEPT ![w] = r]
  /\ UNCHANGED <<row, user, phase, restored, inserted, scheduler, task, launch, outcome, req,
                 cloud, events, disturbances>>

Exhausted(r) == MaxAttempts > 0 /\ r.attempts >= MaxAttempts

Fail(w) ==
  /\ LET failed == [seen[w] EXCEPT !.status = "failed"]
     IN \/ Saves(task[w], seen[w], failed) /\ MoveTo(w, "done")
        \/ Conflicts(task[w], seen[w], failed) /\ MoveTo(w, "retry")
  /\ seen' = [seen EXCEPT ![w] = NewRow]

\* No attempt is left, or the configuration is gone; otherwise the user was found.
GiveUp(w) ==
  /\ step[w] = "fetched"
  /\ Exhausted(seen[w]) \/ ~user
  /\ Fail(w)
  /\ UNCHANGED <<user, phase, restored, inserted, scheduler, task, launch, outcome, req, cloud,
                 events, disturbances>>

FindUser(w) ==
  /\ step[w] = "fetched" /\ ~Exhausted(seen[w]) /\ user
  /\ MoveTo(w, "preparing")
  /\ UNCHANGED <<row, user, phase, restored, inserted, scheduler, task, seen, launch, outcome, req,
                 cloud, events, disturbances>>

\* The attempt is counted and committed before OCI is called; the snapshot fixes the
\* idempotency token: task id, remaining count and (through its index) the domain.
Prepare(w) ==
  /\ step[w] = "preparing"
  /\ LET new == [seen[w] EXCEPT !.status = "running", !.attempts = @ + 1]
     IN \/ /\ Saves(task[w], seen[w], new)
           /\ launch' = [launch EXCEPT ![w] = [remaining |-> new.remaining,
                                               domain |-> new.domain % Domains]]
           /\ MoveTo(w, "launching")
        \/ Conflicts(task[w], seen[w], new) /\ MoveTo(w, "retry") /\ UNCHANGED launch
  /\ seen' = [seen EXCEPT ![w] = NewRow]
  /\ UNCHANGED <<user, phase, restored, inserted, scheduler, task, outcome, req, cloud, events,
                 disturbances>>

\* create_instance_data.  An instance with this identity is adopted instead of launching
\* another, and OCI answers a repeated token with the same instance.  An error may hide
\* that the instance was created (uncertain), but a capacity error never does.
Launching(w) == [task |-> task[w], place |-> launch[w]]

LaunchInstance(w) ==
  /\ step[w] = "launching"
  /\ \E o \in Outcome \ {"none"} :
       /\ outcome' = [outcome EXCEPT ![w] = o]
       /\ \/ o # "capacity" /\ instances' = instances \cup {Launching(w)}
          \/ o # "success" /\ Launching(w) \notin instances /\ UNCHANGED instances
  /\ calls' = [calls EXCEPT ![task[w]] = @ + 1]
  /\ MoveTo(w, "launched")
  /\ UNCHANGED <<row, user, phase, restored, inserted, scheduler, task, seen, launch, req, events,
                 revived, disturbances>>

\* The SELECT of the second session.
Refetch(w) ==
  /\ step[w] = "launched"
  /\ seen' = [seen EXCEPT ![w] = row[task[w]]]
  /\ MoveTo(w, "recording")
  /\ UNCHANGED <<row, user, phase, restored, inserted, scheduler, task, launch, outcome, req,
                 cloud, events, disturbances>>

\* max(0, create_numbers - successes)
Left(r, o) == IF o = "success" /\ r.remaining > 0 THEN r.remaining - 1 ELSE r.remaining

RecordedRotating(r, o) ==  \* mutant: any retryable failure moves to the next domain
  LET counted == [r EXCEPT !.remaining = Left(r, o), !.domain = @ + 1]
  IN IF r.status = "cancelled" THEN counted
     ELSE IF counted.remaining = 0 THEN [counted EXCEPT !.status = "succeeded"]
     ELSE IF o = "refused" \/ Exhausted(r) THEN [counted EXCEPT !.status = "failed"]
     ELSE [counted EXCEPT !.status = "pending"]

\* What the attempt makes of the row it read.
Recorded(r, o) ==
  LET counted == [r EXCEPT !.remaining = Left(r, o)]
      rotated == [counted EXCEPT !.domain =
                    IF Rotating /\ o \in {"success", "capacity"} THEN @ + 1 ELSE @]
  IN IF r.status = "cancelled" THEN counted
     ELSE IF rotated.remaining = 0 THEN [rotated EXCEPT !.status = "succeeded"]
     ELSE IF o = "refused" \/ Exhausted(r) THEN [rotated EXCEPT !.status = "failed"]
     ELSE IF r.paused \/ r.status = "paused"
          THEN [rotated EXCEPT !.status = "paused", !.paused = TRUE]
     ELSE [rotated EXCEPT !.status = "pending"]

RecordSilently(w) ==  \* mutant: a task cancelled meanwhile reports no success
  /\ step[w] = "recording"
  /\ LET new == Recorded(seen[w], outcome[w])
     IN \/ /\ Saves(task[w], seen[w], new)
           /\ events' = IF outcome[w] = "success" /\ seen[w].status # "cancelled"
                        THEN events \cup {Launching(w)} ELSE events
        \/ Conflicts(task[w], seen[w], new) /\ UNCHANGED events
  /\ MoveTo(w, "retry")
  /\ outcome' = [outcome EXCEPT ![w] = "none"]
  /\ seen' = [seen EXCEPT ![w] = NewRow]
  /\ UNCHANGED <<user, phase, restored, inserted, scheduler, task, launch, req, cloud, disturbances>>

RecordDone(w) ==  \* mutant: an attempt that is to be repeated returns done=True
  /\ step[w] = "recording"
  /\ Saves(task[w], seen[w], Recorded(seen[w], outcome[w]))
  /\ events' = IF outcome[w] = "success" THEN events \cup {Launching(w)} ELSE events
  /\ MoveTo(w, "done")
  /\ outcome' = [outcome EXCEPT ![w] = "none"]
  /\ seen' = [seen EXCEPT ![w] = NewRow]
  /\ UNCHANGED <<user, phase, restored, inserted, scheduler, task, launch, req, cloud, disturbances>>

\* The result and its notification, in one transaction.
Record(w) ==
  /\ step[w] = "recording"
  /\ LET new == Recorded(seen[w], outcome[w])
     IN \/ /\ Saves(task[w], seen[w], new)
           /\ events' = IF outcome[w] = "success" THEN events \cup {Launching(w)} ELSE events
           /\ MoveTo(w, IF new.status \in Terminal THEN "done" ELSE "retry")
        \/ Conflicts(task[w], seen[w], new) /\ MoveTo(w, "retry") /\ UNCHANGED events
  /\ outcome' = [outcome EXCEPT ![w] = "none"]
  /\ seen' = [seen EXCEPT ![w] = NewRow]
  /\ UNCHANGED <<user, phase, restored, inserted, scheduler, task, launch, req, cloud, disturbances>>

-----------------------------------------------------------------------------
\* The API: stop_create_tasks, pause_create_tasks, resume_create_tasks, remove_cfg.

Disturb == disturbances < MaxDisturbances /\ disturbances' = disturbances + 1

Selects(k, r) ==
  \/ k \in {"stop", "remove"} /\ r.status \in Active
  \/ k = "pause" /\ r.status \in {"pending", "running"}
  \/ k = "resume" /\ r.status = "paused"

Wanted(k, r) ==
  CASE k = "stop"   -> [r EXCEPT !.status = "cancelled", !.paused = FALSE]
    [] k = "remove" -> [r EXCEPT !.status = "cancelled"]
    [] k = "pause"  -> [r EXCEPT !.status = "paused", !.paused = TRUE]
    [] k = "resume" -> [r EXCEPT !.status = "pending", !.paused = FALSE]

\* The SELECT.
ReadRequest(r, k, t) ==
  /\ phase = "up" /\ k \in Kinds
  /\ req[r].step = "idle"
  /\ Selects(k, row[t])
  /\ Disturb
  /\ req' = [req EXCEPT ![r] = [step |-> "read", kind |-> k, task |-> t, seen |-> row[t]]]
  /\ UNCHANGED <<row, user, phase, restored, inserted, scheduler, workers, cloud, events>>

\* The call of the scheduler, made when the coroutine resumes and before it commits.
ApplyRequest(r) ==
  /\ req[r].step = "read"
  /\ req' = [req EXCEPT ![r].step = "applied"]
  /\ LET t == req[r].task
     IN CASE req[r].kind \in {"stop", "remove"} -> Unschedule(t)
          [] req[r].kind = "pause" ->
               held' = held \cup ({t} \cap registered) /\ UNCHANGED <<registered, runner, doubled>>
          [] req[r].kind = "resume" ->
               IF t \in registered THEN held' = held \ {t} /\ UNCHANGED <<registered, runner, doubled>>
               ELSE Schedule({t})
  /\ UNCHANGED <<row, user, phase, restored, inserted, workers, cloud, events, disturbances>>

CommitRequest(r) ==
  /\ req[r].step = "applied"
  /\ LET q == req[r]
         new == Wanted(q.kind, q.seen)
     IN \/ /\ Saves(q.task, q.seen, new)
           /\ user' = (user /\ q.kind # "remove")
        \/ Conflicts(q.task, q.seen, new) /\ UNCHANGED user
  /\ revived' = revived \cup Revivals
  /\ req' = [req EXCEPT ![r] = Idle]
  /\ UNCHANGED <<phase, restored, inserted, scheduler, workers, instances, calls, events, disturbances>>

\* remove_cfg of a configuration without active tasks.
RemoveUnused ==
  /\ phase = "up" /\ "remove" \in Kinds /\ user
  /\ \A t \in Task : row[t].status \notin Active
  /\ user' = FALSE
  /\ Disturb
  /\ UNCHANGED <<row, phase, restored, inserted, scheduler, workers, req, cloud, events>>

-----------------------------------------------------------------------------
\* The process dies wherever it is; only the database and OCI remain.
Crash ==
  /\ phase # "down" /\ Disturb
  /\ phase' = "down"
  /\ inserted' = {} /\ registered' = {} /\ held' = {}
  /\ runner' = [t \in Task |-> NoWorker]
  /\ step' = [w \in Worker |-> "idle"]
  /\ task' = [w \in Worker |-> NoTask]
  /\ seen' = [w \in Worker |-> NewRow]
  /\ launch' = [w \in Worker |-> NoPlace]
  /\ outcome' = [w \in Worker |-> "none"]
  /\ req' = [r \in Request |-> Idle]
  /\ restored' = [t \in Task |-> NewRow]
  /\ UNCHANGED <<row, user, doubled, cloud, events>>

\* _restore_tasks, before the API is served: every task that was pending or running is
\* scheduled, and once the change-IP tasks were read too, "pending" is committed.
Restore ==
  /\ phase = "down"
  /\ phase' = "restoring"
  /\ restored' = row
  /\ Schedule({t \in Task : row[t].status \in {"pending", "running"}})
  /\ UNCHANGED <<row, user, inserted, workers, req, cloud, events, disturbances>>

CommitRestored ==
  /\ phase = "restoring"
  /\ phase' = "up"
  /\ LET new == [t \in Task |->
                   IF restored[t].status = "running"
                   THEN Merge(restored[t], [restored[t] EXCEPT !.status = "pending"], row[t])
                   ELSE row[t]]
     IN row' = IF OneActive(new) THEN new ELSE row
  /\ revived' = revived \cup Revivals
  /\ restored' = [t \in Task |-> NewRow]
  /\ UNCHANGED <<user, inserted, scheduler, workers, req, instances, calls, events, disturbances>>

-----------------------------------------------------------------------------
Execute(w) ==
  \/ Fetch(w) \/ GiveUp(w) \/ FindUser(w) \/ Prepare(w) \/ LaunchInstance(w)
  \/ Refetch(w) \/ Record(w) \/ Complete(w)

Next ==
  \/ \E t \in Task : Insert(t) \/ ScheduleInserted(t)
  \/ \E w \in Worker : \/ \E t \in Task : Dispatch(w, t)
                       \/ Fetch(w) \/ GiveUp(w) \/ FindUser(w) \/ Prepare(w)
                       \/ LaunchInstance(w) \/ Refetch(w) \/ Record(w) \/ Complete(w)
  \/ \E r \in Request : \/ \E k \in Kinds, t \in Named : ReadRequest(r, k, t)
                        \/ ApplyRequest(r) \/ CommitRequest(r)
  \/ RemoveUnused
  \/ Crash \/ Restore \/ CommitRestored

Spec == Init /\ [][Next]_vars

\* The pool serves every registered task, and coroutines that were started run on.
FairSpec ==
  /\ Spec
  /\ \A t \in Task : /\ WF_vars(ScheduleInserted(t))
                     /\ WF_vars(\E w \in Worker : Dispatch(w, t))
  /\ \A w \in Worker : WF_vars(Execute(w))
  /\ \A r \in Request : WF_vars(ApplyRequest(r) \/ CommitRequest(r))
  /\ WF_vars(Restore) /\ WF_vars(CommitRestored)

-----------------------------------------------------------------------------
(* One place of a task, identified by its remaining count, is filled by at  *)
(* most one instance, in whatever domain: an attempt whose outcome is       *)
(* uncertain is repeated with the same token, across restarts too.  A count *)
(* of zero is no place: a revived task launches with it, in each domain.    *)
NoDuplicateLaunch ==
  \A i, j \in instances :
    i.task = j.task /\ i.place.remaining = j.place.remaining /\ i.place.remaining > 0
      => i = j \/ i.task \in doubled

(* Every success taken off the remaining count has its own notification,    *)
(* for an instance that exists, and every notification was counted; a task  *)
(* that was finished and revived (see NoMoreThanRequested) is not counted.  *)
Accounted ==
  /\ events \subseteq instances
  /\ \A t \in Task \ (revived \cup doubled) :
       Requested - row[t].remaining = Cardinality(Of(t, events))

(* LaunchInstance is called at most once for each attempt that was counted  *)
(* beforehand, so never more than max_attempts times, crash or not.         *)
AttemptsBudget ==
  \A t \in Task \ doubled :
    calls[t] <= row[t].attempts /\ (MaxAttempts > 0 => row[t].attempts <= MaxAttempts)

(* A task is executed by one worker at a time, so its read and its write of *)
(* the row never interleave with those of another attempt.  Only a task     *)
(* that was stopped during an execution and then resumed, by requests that  *)
(* had read it before the stop, is executed twice; the properties above say *)
(* nothing of such a task.                                                  *)
OneExecution ==
  \A v, w \in Worker :
    AtWork(v) /\ AtWork(w) /\ task[v] = task[w] => v = w \/ task[v] \in doubled

(* README.md:125 "Number of instances the task must create successfully":   *)
(* no task leaves more instances than that behind, whatever happens to it,  *)
(* but for one that was taken for unfinished: pause_create_tasks and        *)
(* _restore_tasks write over the end a worker recorded after their SELECT.  *)
NoMoreThanRequested ==
  \A t \in Task : Cardinality(Of(t, instances)) > Requested => t \in revived \cup doubled

(* No place is filled twice, and there are no more places than requested.   *)
NoSurplusInstance == NoDuplicateLaunch /\ NoMoreThanRequested

(* What an execution relies on: types, its exclusiveness and its counter.   *)
TaskInv == TypeOK /\ OneExecution /\ AttemptsBudget

(* Whatever requests, restoring and crashes do, tasks are scheduled, held,  *)
(* executed and completed as SchedulerPromise says, which is what           *)
(* core/task_scheduler.py keeps (ActsAsPromised of TaskScheduler).          *)
Scheduler == INSTANCE SchedulerPromise WITH
  Key <- Task, NoKey <- NoTask, Execution <- Worker, NoExecution <- NoWorker,
  Workers <- Cardinality(Worker), busy <- task
KeepsToScheduler == Scheduler!SpecWithCrashes

(* A task that waits in the scheduler comes to an end (it succeeds, is      *)
(* refused or uses up its attempts) unless another request or crash gets in *)
(* its way or a worker that read it while it was paused writes "paused".    *)
Waits(t) ==
  /\ t \in registered \ held /\ runner[t] = NoWorker
  /\ row[t].status \in {"pending", "running"} /\ ~row[t].paused
Quiet == phase = "up" /\ \A r \in Request : req[r].step = "idle"
EventuallyEnds ==
  \A t \in Task :
    Waits(t) /\ Quiet ~> row[t].status \in Terminal \cup {"paused"} \/ row[t].paused \/ ~Quiet
=============================================================================
