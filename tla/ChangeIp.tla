------------------------------ MODULE ChangeIp ------------------------------
(***************************************************************************)
(* The public IP rotation tasks of one instance: change_ip, stop_change_ip *)
(* and remove_cfg (services/oci_service.py), execute_change_ip_task        *)
(* (services/instance_service.py), the rotation itself                     *)
(* (reassign_ephemeral_public_ip, core/oracle_fetcher.py) and restoring    *)
(* (main.py).                                                              *)
(*                                                                         *)
(* As in CreateTask a session reads in one action and commits in another.  *)
(* The scheduler keeps one job under the instance's key; a stopped job's   *)
(* worker goes on and may overlap the next job's.  `address` is the public *)
(* address OCI has on the instance's private IP; an error answer may hide  *)
(* that a call took effect.                                                *)
(***************************************************************************)
EXTENDS Integers, FiniteSets

CONSTANTS
  Task,          \* ids change_ip may generate, in this order (the model's bound)
  Worker, Request,
  Ephemeral,     \* addresses of OCI's pool
  Reserved,      \* the operator's reserved address
  None,          \* no address, no task, no worker
  Wanted,        \* addresses within the task's CIDRs; everything without CIDRs
  MaxAttempts,   \* 1 without CIDRs, settings.change_ip_max_attempts otherwise
  Tries,         \* create calls per attempt: the delays (2, 4, 8)
  Kinds,         \* requests the operator makes
  MaxDisturbances  \* bound on stops, removals, crashes, attachments of the address

Address == Ephemeral \cup {Reserved}
RequestKind == {"change", "stop", "remove"}

ASSUME ChangeIpAssumption ==
  /\ Task \subseteq Nat /\ IsFiniteSet(Worker)
  /\ None \notin Task \cup Worker \cup Address /\ Reserved \notin Ephemeral
  /\ Address \cap {"retryable", "refused"} = {}
  /\ Wanted \subseteq Address /\ Kinds \subseteq RequestKind
  /\ MaxAttempts \in Nat \ {0} /\ Tries \in Nat \ {0}
  /\ MaxDisturbances \in Nat

VARIABLES
  row,           \* oci_change_ip_task
  user,          \* the oci_user row exists
  phase,         \* "up", "down", or "restoring"
  restored,      \* what _restore_tasks read
  job, runner,   \* the scheduler's job under the instance's key, and who executes it
  step, task, seen,      \* the workers: where they are, for which task, the row read
  snapshot,      \* attempts counted by this execution
  old, tries, created,   \* the address to delete; create calls; what the retry token made
  result,        \* what reassign_ephemeral_public_ip gave
  req,           \* the API coroutines
  address,       \* OCI
  told,          \* the outbox: the address of the task's success notification
  assigned,      \* history: addresses the instance got since the task exists
  rotations,     \* history: attempts that reached OCI
  concluded,     \* history: tasks an attempt has recorded an outcome of
  revived,       \* history: tasks whose end a restart has overwritten
  disturbances

scheduler == <<job, runner>>
rotation == <<snapshot, old, tries, created, result>>
workers == <<step, task, seen, rotation>>
history == <<told, assigned, rotations, concluded, revived>>
vars == <<row, user, phase, restored, scheduler, workers, req, address, history, disturbances>>

Active == {"pending", "running", "paused"}
Terminal == {"succeeded", "failed", "cancelled"}
NewRow == [status |-> "absent", attempts |-> 0]
Row == [status : Active \cup Terminal \cup {"absent"}, attempts : 0..MaxAttempts]

Step == {"idle", "starting", "fetched", "preparing", "checking", "reading", "deleting",
         "creating", "reconciling", "conflicted", "acted", "recording", "done", "retry"}
\* An address, an error worth a retry, any other error.
Result == Address \cup {None, "retryable", "refused"}
Idle == [step |-> "idle", kind |-> "change", task |-> None, seen |-> NewRow]

TypeOK ==
  /\ row \in [Task -> Row] /\ restored \in [Task -> Row]
  /\ user \in BOOLEAN /\ phase \in {"up", "down", "restoring"}
  /\ job \in Task \cup {None} /\ runner \in Worker \cup {None}
  /\ step \in [Worker -> Step] /\ task \in [Worker -> Task \cup {None}]
  /\ seen \in [Worker -> Row]
  /\ old \in [Worker -> Address \cup {None}] /\ created \in [Worker -> Address \cup {None}]
  /\ tries \in [Worker -> 0..Tries] /\ snapshot \in [Worker -> 0..MaxAttempts] /\ result \in [Worker -> Result]
  /\ req \in [Request -> [step : {"idle", "read", "inserted", "applied"}, kind : RequestKind,
                          task : Task \cup {None}, seen : Row]]
  /\ address \in Address \cup {None}
  /\ told \in [Task -> Address \cup {None}] /\ assigned \in [Task -> SUBSET Address]
  /\ rotations \in [Task -> Nat] /\ concluded \in SUBSET Task /\ revived \in SUBSET Task
  /\ disturbances \in 0..MaxDisturbances

Init ==
  /\ row = [t \in Task |-> NewRow] /\ restored = row
  /\ user = TRUE /\ phase = "up" /\ job = None /\ runner = None
  /\ step = [w \in Worker |-> "idle"] /\ task = [w \in Worker |-> None]
  /\ seen = [w \in Worker |-> NewRow]
  /\ old = [w \in Worker |-> None] /\ created = old /\ result = old
  /\ tries = [w \in Worker |-> 0] /\ snapshot = tries
  /\ req = [r \in Request |-> Idle]
  /\ address \in Address \cup {None}
  /\ told = [t \in Task |-> None] /\ assigned = [t \in Task |-> {}]
  /\ rotations = [t \in Task |-> 0] /\ concluded = {} /\ revived = {} /\ disturbances = 0

-----------------------------------------------------------------------------
\* The database: UPDATE of the changed attributes; oci_change_ip_one_active_instance.
Merge(before, new, now) ==
  [status   |-> IF new.status = before.status THEN now.status ELSE new.status,
   attempts |-> IF new.attempts = before.attempts THEN now.attempts ELSE new.attempts]
OneActive(rows) == Cardinality({t \in Task : rows[t].status \in Active}) <= 1
Updated(t, before, new) == [row EXCEPT ![t] = Merge(before, new, row[t])]
Saves(t, before, new) == OneActive(Updated(t, before, new)) /\ row' = Updated(t, before, new)
Conflicts(t, before, new) == ~OneActive(Updated(t, before, new)) /\ UNCHANGED row

-----------------------------------------------------------------------------
\* The scheduler: a submission under a key in use is skipped.
Schedule(t) ==
  /\ job' = IF job = None THEN t ELSE job
  /\ runner' = IF job = None THEN None ELSE runner
Unschedule == job' = None /\ runner' = None

Dispatch(w) ==
  /\ phase # "down" /\ step[w] = "idle" /\ job # None /\ runner = None
  /\ runner' = w
  /\ step' = [step EXCEPT ![w] = "starting"] /\ task' = [task EXCEPT ![w] = job]
  /\ UNCHANGED <<row, user, phase, restored, job, seen, rotation, req, address, history, disturbances>>

Complete(w) ==
  /\ step[w] \in {"done", "retry"}
  /\ step' = [step EXCEPT ![w] = "idle"] /\ task' = [task EXCEPT ![w] = None]
  /\ old' = [old EXCEPT ![w] = None] /\ created' = [created EXCEPT ![w] = None]
  /\ result' = [result EXCEPT ![w] = None] /\ tries' = [tries EXCEPT ![w] = 0]
  /\ snapshot' = [snapshot EXCEPT ![w] = 0]
  /\ IF runner # w THEN UNCHANGED scheduler
     ELSE IF step[w] = "done" THEN Unschedule ELSE runner' = None /\ UNCHANGED job
  /\ UNCHANGED <<row, user, phase, restored, seen, req, address, history, disturbances>>

-----------------------------------------------------------------------------
\* A worker: execute_change_ip_task.

MoveTo(w, s) == step' = [step EXCEPT ![w] = s]
Gives(w, r) == result' = [result EXCEPT ![w] = r] /\ MoveTo(w, "acted")

Fetch(w) ==
  /\ step[w] = "starting"
  /\ IF row[task[w]].status \in Terminal THEN MoveTo(w, "done") /\ UNCHANGED seen
     ELSE MoveTo(w, "fetched") /\ seen' = [seen EXCEPT ![w] = row[task[w]]]
  /\ UNCHANGED <<row, user, phase, restored, scheduler, task, rotation, req, address, history, disturbances>>

Exhausted(r) == r.attempts >= MaxAttempts

GiveUp(w) ==
  /\ step[w] = "fetched" /\ (Exhausted(seen[w]) \/ ~user)
  /\ LET failed == [seen[w] EXCEPT !.status = "failed"]
     IN Saves(task[w], seen[w], failed) /\ MoveTo(w, "done")
  /\ concluded' = IF Exhausted(seen[w]) THEN concluded ELSE concluded \cup {task[w]}
  /\ seen' = [seen EXCEPT ![w] = NewRow]
  /\ UNCHANGED <<user, phase, restored, scheduler, task, rotation, req, address, told,
                 assigned, rotations, revived, disturbances>>

FindUser(w) ==
  /\ step[w] = "fetched" /\ ~Exhausted(seen[w]) /\ user
  /\ MoveTo(w, "preparing")
  /\ UNCHANGED <<row, user, phase, restored, scheduler, task, seen, rotation, req, address, history, disturbances>>

\* The attempt is counted and committed before OCI is called.
Prepare(w) ==
  /\ step[w] = "preparing"
  /\ LET new == [status |-> "running", attempts |-> seen[w].attempts + 1]
     IN \/ Saves(task[w], seen[w], new) /\ MoveTo(w, "checking")
        \/ Conflicts(task[w], seen[w], new) /\ MoveTo(w, "retry")
  /\ seen' = [seen EXCEPT ![w] = NewRow]
  /\ snapshot' = [snapshot EXCEPT ![w] = seen[w].attempts + 1]
  /\ UNCHANGED <<user, phase, restored, scheduler, task, old, tries, created, result, req, address, history, disturbances>>

\* get_instance_by_id, the attached VNIC, get_private_ip_id.
Check(w) ==
  /\ step[w] = "checking"
  /\ rotations' = [rotations EXCEPT ![task[w]] = @ + 1]
  /\ \/ MoveTo(w, "reading") /\ UNCHANGED result
     \/ Gives(w, "retryable") \/ Gives(w, "refused")
  /\ UNCHANGED <<row, user, phase, restored, scheduler, task, seen, snapshot, old, tries, created, req,
                 address, told, assigned, concluded, revived, disturbances>>

ReadAddressUnchecked(w) ==  \* mutant: the lifetime is not looked at
  /\ step[w] = "reading"
  /\ MoveTo(w, IF address = None THEN "creating" ELSE "deleting")
  /\ old' = [old EXCEPT ![w] = address]
  /\ UNCHANGED <<row, user, phase, restored, scheduler, task, seen, snapshot, tries, created, result, req,
                 address, history, disturbances>>

\* delete_public_ip_by_private_ip: the lookup. A 404 means there is nothing to delete.
ReadAddress(w) ==
  /\ step[w] = "reading"
  /\ \/ address = None /\ MoveTo(w, "creating") /\ UNCHANGED <<old, result>>
     \/ address \in Ephemeral /\ MoveTo(w, "deleting")
        /\ old' = [old EXCEPT ![w] = address] /\ UNCHANGED result
     \/ address = Reserved /\ Gives(w, "refused") /\ UNCHANGED old
     \/ (Gives(w, "retryable") \/ Gives(w, "refused")) /\ UNCHANGED old
  /\ UNCHANGED <<row, user, phase, restored, scheduler, task, seen, snapshot, tries, created, req, address, history, disturbances>>

\* The DELETE carries the etag that was read: another address there is left alone.
\* An error answer, or the wait for the deletion timing out, may hide that it worked.
Delete(w) ==
  /\ step[w] = "deleting"
  /\ \/ address = old[w] /\ address' = None
        /\ \/ MoveTo(w, "creating") /\ UNCHANGED result
           \/ Gives(w, "retryable")
     \/ (Gives(w, "retryable") \/ Gives(w, "refused")) /\ UNCHANGED address
  /\ UNCHANGED <<row, user, phase, restored, scheduler, task, seen, snapshot, old, tries, created, req, history, disturbances>>

\* The instance gets address a.
Assign(w, a) ==
  /\ address' = a
  /\ created' = [created EXCEPT ![w] = a]
  /\ assigned' = [t \in Task |-> IF row[t].status = "absent" THEN {} ELSE assigned[t] \cup {a}]

\* create_public_ip with the attempt's retry token: OCI answers a repetition with what
\* the token made, and 409 when the private IP has an address of another origin.
Create(w) ==
  /\ step[w] = "creating"
  /\ tries' = [tries EXCEPT ![w] = @ + 1]
  /\ \/ /\ address = None
        /\ \E a \in Ephemeral :
             /\ Assign(w, a)
             /\ \/ Gives(w, a)
                \/ MoveTo(w, "reconciling") /\ UNCHANGED result
     \/ /\ address # None
        /\ IF address = created[w] THEN Gives(w, address)
           ELSE MoveTo(w, "conflicted") /\ UNCHANGED result
        /\ UNCHANGED <<address, created, assigned>>
     \/ /\ \/ Gives(w, "refused")
           \/ MoveTo(w, "reconciling") /\ UNCHANGED result
        /\ UNCHANGED <<address, created, assigned>>
  /\ UNCHANGED <<row, user, phase, restored, scheduler, task, seen, snapshot, old, req, told,
                 rotations, concluded, revived, disturbances>>

\* _get_public_ip_address after a failed create: an address found is taken for the new
\* one, none or a transient error leads to the next try, or to the last error.
FoundOld(w) == IF address # None THEN old[w] ELSE None  \* mutant: the address read first
FoundAddress(w) == address

Reconcile(w) ==
  /\ step[w] \in {"reconciling", "conflicted"}
  /\ \/ address # None /\ Gives(w, FoundAddress(w))
     \/ /\ tries[w] < Tries
        /\ MoveTo(w, "creating") /\ UNCHANGED result
     \/ /\ tries[w] = Tries
        /\ Gives(w, IF step[w] = "conflicted" THEN "refused" ELSE "retryable")
     \/ Gives(w, "refused")
  /\ UNCHANGED <<row, user, phase, restored, scheduler, task, seen, snapshot, old, tries, created,
                 req, address, history, disturbances>>

\* The SELECT of the second session.
Refetch(w) ==
  /\ step[w] = "acted"
  /\ seen' = [seen EXCEPT ![w] = row[task[w]]]
  /\ MoveTo(w, "recording")
  /\ UNCHANGED <<row, user, phase, restored, scheduler, task, rotation, req, address, history, disturbances>>

MatchedAny(w) == result[w] \in Address  \* mutant: the CIDRs are not looked at
Matched(w) == result[w] \in Wanted

\* The status an attempt leaves.
Recorded(w) ==
  CASE Matched(w) -> "succeeded"
    [] ~Matched(w) /\ (result[w] = "refused" \/ snapshot[w] >= MaxAttempts) -> "failed"
    [] OTHER -> "pending"

Tell(w) == told' = IF Matched(w) /\ told[task[w]] = None
                   THEN [told EXCEPT ![task[w]] = result[w]] ELSE told

RecordDone(w) ==  \* mutant: every recorded attempt ends the job
  /\ step[w] = "recording"
  /\ IF seen[w].status = "cancelled" THEN UNCHANGED row
     ELSE Saves(task[w], seen[w], [seen[w] EXCEPT !.status = Recorded(w)])
  /\ Tell(w) /\ MoveTo(w, "done")
  /\ concluded' = concluded \cup {task[w]}
  /\ seen' = [seen EXCEPT ![w] = NewRow]
  /\ UNCHANGED <<user, phase, restored, scheduler, task, rotation, req, address, assigned,
                 rotations, revived, disturbances>>
\* The result and its notification, in one transaction; a cancelled task stays so.
Record(w) ==
  /\ step[w] = "recording"
  /\ LET t == task[w]
         new == [seen[w] EXCEPT !.status = Recorded(w)]
     IN \/ seen[w].status = "cancelled" /\ Tell(w) /\ MoveTo(w, "done") /\ UNCHANGED row
        \/ /\ seen[w].status # "cancelled" /\ Saves(t, seen[w], new) /\ Tell(w)
           /\ MoveTo(w, IF new.status = "pending" THEN "retry" ELSE "done")
        \/ /\ seen[w].status # "cancelled" /\ Conflicts(t, seen[w], new)
           /\ MoveTo(w, "retry") /\ UNCHANGED told
  /\ concluded' = concluded \cup {task[w]}
  /\ seen' = [seen EXCEPT ![w] = NewRow]
  /\ UNCHANGED <<user, phase, restored, scheduler, task, rotation, req, address, assigned,
                 rotations, revived, disturbances>>

-----------------------------------------------------------------------------
\* The API.

Disturb == disturbances < MaxDisturbances /\ disturbances' = disturbances + 1
SetReq(r, q) == req' = [req EXCEPT ![r] = q]

\* change_ip: the configuration, the SELECT of active tasks and the scheduler's answer.
ReadChange(r) ==
  /\ phase = "up" /\ user /\ "change" \in Kinds /\ req[r].step = "idle"
  /\ \A t \in Task : row[t].status \notin Active
  /\ job = None
  /\ SetReq(r, [Idle EXCEPT !.step = "read"])
  /\ UNCHANGED <<row, user, phase, restored, scheduler, workers, address, history, disturbances>>

\* The INSERT; a violation of the index is an error for the operator.
InsertChange(r) ==
  /\ req[r].step = "read" /\ req[r].kind = "change"
  /\ \/ \E t \in Task :
          /\ row[t].status = "absent" /\ \A u \in Task : u < t => row[u].status # "absent"
          /\ Saves(t, NewRow, [NewRow EXCEPT !.status = "pending"])
          /\ SetReq(r, [req[r] EXCEPT !.step = "inserted", !.task = t])
     \/ (\E t \in Task : row[t].status \in Active) /\ SetReq(r, Idle) /\ UNCHANGED row
  /\ UNCHANGED <<user, phase, restored, scheduler, workers, address, history, disturbances>>

\* The scheduler is up while the process serves requests, so it takes the job.
ScheduleChange(r) ==
  /\ req[r].step = "inserted"
  /\ Schedule(req[r].task)
  /\ SetReq(r, Idle)
  /\ UNCHANGED <<row, user, phase, restored, workers, address, history, disturbances>>

\* stop_change_ip and remove_cfg: the SELECT, the scheduler's call by key, the commit.
ReadStop(r, k) ==
  /\ phase = "up" /\ k \in Kinds \ {"change"} /\ req[r].step = "idle"
  /\ Disturb
  /\ \E t \in Task :
       /\ row[t].status \in Active
       /\ SetReq(r, [step |-> "read", kind |-> k, task |-> t, seen |-> row[t]])
  /\ UNCHANGED <<row, user, phase, restored, scheduler, workers, address, history>>

ApplyStop(r) ==
  /\ req[r].step = "read" /\ req[r].kind # "change"
  /\ Unschedule
  /\ SetReq(r, [req[r] EXCEPT !.step = "applied"])
  /\ UNCHANGED <<row, user, phase, restored, workers, address, history, disturbances>>

CommitStop(r) ==
  /\ req[r].step = "applied"
  /\ Saves(req[r].task, req[r].seen, [req[r].seen EXCEPT !.status = "cancelled"])
  /\ user' = (user /\ req[r].kind # "remove")
  /\ SetReq(r, Idle)
  /\ UNCHANGED <<phase, restored, scheduler, workers, address, history, disturbances>>

RemoveUnused ==
  /\ phase = "up" /\ user /\ "remove" \in Kinds
  /\ \A t \in Task : row[t].status \notin Active
  /\ Disturb /\ user' = FALSE
  /\ UNCHANGED <<row, phase, restored, scheduler, workers, req, address, history>>

\* The operator puts the reserved address on the instance, in the OCI console.
Attach ==
  /\ Disturb /\ address' = Reserved
  /\ assigned' = [t \in Task |-> IF row[t].status = "absent" THEN {} ELSE assigned[t] \cup {Reserved}]
  /\ UNCHANGED <<row, user, phase, restored, scheduler, workers, req, told, rotations, concluded, revived>>

-----------------------------------------------------------------------------
Crash ==
  /\ phase # "down" /\ Disturb /\ phase' = "down"
  /\ job' = None /\ runner' = None
  /\ step' = [w \in Worker |-> "idle"] /\ task' = [w \in Worker |-> None]
  /\ seen' = [w \in Worker |-> NewRow]
  /\ old' = [w \in Worker |-> None] /\ created' = old' /\ result' = old'
  /\ tries' = [w \in Worker |-> 0] /\ snapshot' = tries'
  /\ req' = [r \in Request |-> Idle]
  /\ restored' = [t \in Task |-> NewRow]
  /\ UNCHANGED <<row, user, address, history>>

\* _restore_tasks: pending and running tasks are scheduled, then "pending" is committed.
Restore ==
  /\ phase = "down" /\ phase' = "restoring"
  /\ restored' = row
  /\ LET S == {t \in Task : row[t].status \in {"pending", "running"}}
     IN IF S = {} THEN UNCHANGED scheduler ELSE \E t \in S : Schedule(t)
  /\ UNCHANGED <<row, user, workers, req, address, history, disturbances>>

CommitRestoredAfresh ==  \* mutant: a restored task starts counting again
  /\ phase = "restoring" /\ phase' = "up"
  /\ row' = [t \in Task |-> IF restored[t].status \in {"pending", "running"}
                           THEN [status |-> "pending", attempts |-> 0] ELSE row[t]]
  /\ restored' = [t \in Task |-> NewRow]
  /\ UNCHANGED <<user, scheduler, workers, req, address, history, disturbances>>
CommitRestored ==
  /\ phase = "restoring" /\ phase' = "up"
  /\ row' = [t \in Task |->
               IF restored[t].status = "running"
               THEN Merge(restored[t], [restored[t] EXCEPT !.status = "pending"], row[t])
               ELSE row[t]]
  /\ revived' = revived \cup {t \in Task : restored[t].status = "running" /\ row[t].status \in Terminal}
  /\ restored' = [t \in Task |-> NewRow]
  /\ UNCHANGED <<user, scheduler, workers, req, address, told, assigned, rotations, concluded, disturbances>>

-----------------------------------------------------------------------------
Execute(w) ==
  \/ Fetch(w) \/ GiveUp(w) \/ FindUser(w) \/ Prepare(w) \/ Check(w) \/ ReadAddress(w) \/ Delete(w)
  \/ Create(w) \/ Reconcile(w) \/ Refetch(w) \/ Record(w) \/ Complete(w)

Next ==
  \/ \E w \in Worker : Dispatch(w) \/ Execute(w)
  \/ \E r \in Request : \/ ReadChange(r) \/ InsertChange(r) \/ ScheduleChange(r)
                        \/ ApplyStop(r) \/ CommitStop(r)
                        \/ \E k \in Kinds : ReadStop(r, k)
  \/ RemoveUnused \/ Attach \/ Crash \/ Restore \/ CommitRestored

Spec == Init /\ [][Next]_vars

\* The pool serves the registered job, started coroutines and start-up run on.
FairSpec ==
  /\ Spec
  /\ WF_vars(\E w \in Worker : Dispatch(w))
  /\ \A w \in Worker : WF_vars(Execute(w))
  /\ \A r \in Request : WF_vars(InsertChange(r) \/ ScheduleChange(r) \/ ApplyStop(r) \/ CommitStop(r))
  /\ WF_vars(Restore) /\ WF_vars(CommitRestored)

-----------------------------------------------------------------------------
\* test_ip_rotation_preserves_reserved_addresses_and_transient_errors: the reserved
\* address stays, also when it is attached between the lookup and the DELETE.
ReservedKept == [][address = Reserved => address' = Reserved]_vars

\* An attempt that reaches OCI was counted before, crash or not, and there are never
\* more than max_attempts of them.
AttemptsBudget == \A t \in Task : rotations[t] <= row[t].attempts

\* A task reports the success it recorded, in the same transaction; what it reports
\* is within its CIDRs and was given to the instance after the task was created,
\* also when it was found by reconciliation or the task was stopped meanwhile.
ReportsTrue ==
  \A t \in Task :
    /\ row[t].status = "succeeded" => told[t] # None
    /\ told[t] # None => told[t] \in Wanted /\ told[t] \in assigned[t]

\* The only task of an instance that succeeded leaves the address it reported there:
\* no retry, crash or late answer of its attempts replaces it afterwards. (A task that a
\* restart has revived rotates again, and its second success is not reported.)
SuccessStands ==
  \A t \in Task \ revived :
    row[t].status = "succeeded" /\ (\A u \in Task \ {t} : row[u].status = "absent")
      => address \in {told[t], Reserved}

\* The job under the instance's key is scheduled, executed and completed as
\* SchedulerPromise says, which is what core/task_scheduler.py keeps (ActsAsPromised of
\* TaskScheduler), also when a stop or a restart lets two attempts overlap.
Key == {"instance"}
Registered == IF job = None THEN {} ELSE Key
Runner == [k \in Key |-> runner]
Busy == [w \in Worker |-> IF task[w] = None THEN "none" ELSE "instance"]
Scheduler == INSTANCE SchedulerPromise WITH
  NoKey <- "none", Execution <- Worker, NoExecution <- None, Workers <- Cardinality(Worker),
  registered <- Registered, held <- {}, runner <- Runner, busy <- Busy
KeepsToScheduler == Scheduler!SpecWithCrashes

\* A rotation that waits in the scheduler ends, unless a request or a crash gets in
\* its way.
Quiet == phase = "up" /\ \A r \in Request : req[r].step = "idle"
EventuallyEnds ==
  \A t \in Task :
    job = t /\ runner = None /\ row[t].status \in Active /\ Quiet
      ~> row[t].status \in Terminal \/ ~Quiet

\* README.md:15 "Resume instance creation and public IP rotation tasks after service
\* restarts": a task is failed because of the result of one of its attempts, or when a
\* crash has cut its last attempt short (which it may not repeat, having counted it).
InterruptedResumed ==
  \A t \in Task : row[t].status = "failed" /\ t \notin concluded
                  => disturbances > 0 /\ row[t].attempts = MaxAttempts

\* What an attempt relies on and what a restart may do to it.
RotationInv == TypeOK /\ AttemptsBudget /\ InterruptedResumed
=============================================================================
