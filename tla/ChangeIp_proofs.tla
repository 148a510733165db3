-------------------------- MODULE ChangeIp_proofs --------------------------
(***************************************************************************)
(* Proofs about the public IP rotation tasks, for any numbers of tasks,    *)
(* workers, requests, addresses, attempts and crashes: the budget of       *)
(* attempts, the truth of reports, the standing of a success, the reserved *)
(* address and what is used of the scheduler.                              *)
(***************************************************************************)
EXTENDS ChangeIp, FiniteSetTheorems, TLAPS

-----------------------------------------------------------------------------
(* Rows and sessions *)

\* A session writes the attributes it has changed, of its own row.
LEMMA SavedRow ==
  ASSUME row \in [Task -> Row], NEW t \in Task, NEW before \in Row, NEW new \in Row,
         Saves(t, before, new)
  PROVE  /\ row' \in [Task -> Row]
         /\ \A u \in Task \ {t} : row'[u] = row[u]
         /\ row'[t].status = IF new.status = before.status THEN row[t].status ELSE new.status
         /\ row'[t].attempts = IF new.attempts = before.attempts THEN row[t].attempts ELSE new.attempts
  BY DEF Saves, Updated, Merge, Row, Active, Terminal

\* A session that only changes the status leaves the count alone.
LEMMA StatusSaved ==
  ASSUME row \in [Task -> Row], NEW t \in Task, NEW before \in Row,
         NEW s \in Active \cup Terminal
  PROVE  Saves(t, before, [before EXCEPT !.status = s]) =>
           /\ row' \in [Task -> Row]
           /\ \A u \in Task \ {t} : row'[u] = row[u]
           /\ (s = before.status /\ row'[t].status = row[t].status) \/ row'[t].status = s
           /\ row'[t].attempts = row[t].attempts
<1> DEFINE new == [before EXCEPT !.status = s]
<1>1. new \in Row /\ new.status = s /\ new.attempts = before.attempts
  BY DEF Row
<1> SUFFICES ASSUME Saves(t, before, new)
             PROVE  /\ row' \in [Task -> Row]
                    /\ \A u \in Task \ {t} : row'[u] = row[u]
                    /\ (s = before.status /\ row'[t].status = row[t].status) \/ row'[t].status = s
                    /\ row'[t].attempts = row[t].attempts
  OBVIOUS
<1> HIDE DEF new
<1> QED BY <1>1, SavedRow

LEMMA RecordedStatus ==
  ASSUME NEW w \in Worker
  PROVE  /\ Recorded(w) \in {"succeeded", "failed", "pending"}
         /\ Recorded(w) = "succeeded" <=> Matched(w)
  BY DEF Recorded

-----------------------------------------------------------------------------
(* The inductive invariant *)

Known(t) == row[t].status # "absent"

\* Before a worker has looked at the address; while it may create one; once it has the
\* result; while the attempt it has counted is at work.
Early == {"idle", "starting", "fetched", "preparing", "checking", "reading", "deleting"}
Making == {"creating", "reconciling", "conflicted"}
Late == {"acted", "recording", "done", "retry"}
AtWork == {"checking", "reading", "deleting", "creating", "reconciling", "conflicted", "acted", "recording"}

\* What worker w knows: the count it has read is the stored one, an address it deletes is
\* not reserved, what it made or found was given to the instance during its task.
Knows(w) ==
  /\ step[w] = "idle" <=> task[w] = None
  /\ task[w] # None => Known(task[w])
  /\ step[w] \in {"fetched", "preparing"} => seen[w].attempts = row[task[w]].attempts
  /\ step[w] = "preparing" => seen[w].attempts < MaxAttempts
  /\ step[w] = "recording" /\ seen[w].status \in Terminal
       => row[task[w]].status \in Terminal \/ task[w] \in revived
  /\ step[w] = "deleting" => old[w] \in Ephemeral
  /\ step[w] \in Early => tries[w] = 0
  /\ step[w] = "creating" => tries[w] < Tries
  /\ step[w] \notin Late => result[w] = None
  /\ step[w] \in Early => created[w] = None
  /\ step[w] \in Making /\ address # None => address \in assigned[task[w]]
  /\ created[w] # None => created[w] \in assigned[task[w]]
  /\ result[w] \in Address => result[w] \in assigned[task[w]]

\* A task has one worker, which a job of the task has as its runner; a request's new task
\* is not in the scheduler yet.
OneWorker ==
  /\ \A v, w \in Worker : task[v] = task[w] /\ task[w] # None => v = w
  /\ \A w \in Worker : task[w] # None /\ job = task[w] => runner = w
  /\ runner # None => job # None /\ task[runner] = job
  /\ job # None => Known(job)
Unscheduled(r) ==
  req[r].step = "inserted" =>
    /\ req[r].task \in Task /\ Known(req[r].task) /\ job # req[r].task
    /\ \A w \in Worker : task[w] # req[r].task
    /\ \A q \in Request : req[q].step = "inserted" /\ req[q].task = req[r].task => q = r
Restarts ==
  /\ phase # "up" => \A r \in Request : req[r].step = "idle"
  /\ phase = "down" => job = None /\ \A w \in Worker : task[w] = None

\* An attempt is counted before it reaches OCI; without a crash, a counted attempt is at
\* work or has recorded an outcome.
CountedFirst(t) ==
  /\ rotations[t] <= row[t].attempts
  /\ \A w \in Worker : task[w] = t /\ step[w] = "checking" => rotations[t] < row[t].attempts
InTime(t) ==
  disturbances = 0 /\ t \notin concluded /\ row[t].attempts > 0
    => \E w \in Worker : task[w] = t /\ step[w] \in AtWork
Interrupted(t) ==
  row[t].status = "failed" /\ t \notin concluded => disturbances > 0 /\ row[t].attempts = MaxAttempts

Reported(t) ==
  /\ row[t].status = "succeeded" => told[t] # None
  /\ told[t] # None => told[t] \in Wanted /\ told[t] \in assigned[t] /\ Known(t)

\* The only task of the instance: nobody but its worker and the operator changes the
\* address, and its worker does not once it has a result to report.
Alone(t) == \A u \in Task \ {t} : ~Known(u)
Settled(t) ==
  Alone(t) =>
    /\ \A w \in Worker : task[w] = t /\ result[w] \in Address => address \in {result[w], Reserved}
    /\ told[t] # None /\ t \notin revived =>
         /\ row[t].status \in Terminal /\ address \in {told[t], Reserved}
         /\ \A w \in Worker : task[w] = t => step[w] \in {"starting", "done"}

Attempts == \A w \in Worker : Knows(w)
Queue == OneWorker /\ (\A r \in Request : Unscheduled(r)) /\ Restarts
Counts == \A t \in Task : CountedFirst(t) /\ InTime(t) /\ Interrupted(t)
Outcomes == \A t \in Task : Reported(t) /\ Settled(t)
IInv == TypeOK /\ Attempts /\ Queue /\ Counts /\ Outcomes
-----------------------------------------------------------------------------
(* Steps in the abstract *)

\* Worker v itself does nothing.
Rests(v) ==
  /\ step'[v] = step[v] /\ task'[v] = task[v] /\ seen'[v] = seen[v] /\ old'[v] = old[v]
  /\ tries'[v] = tries[v] /\ created'[v] = created[v] /\ result'[v] = result[v]

\* The row keeps its count and, unless it is revived, its end.
GoesOn(t) ==
  /\ row'[t].attempts = row[t].attempts
  /\ Known(t) => Known(t)'
  /\ row[t].status \in Terminal => row'[t].status \in Terminal \/ t \in revived'
  /\ t \in revived => t \in revived'

\* A new address is recorded for every known task.
Addresses ==
  /\ \A t \in Task : Known(t) => assigned[t] \subseteq assigned'[t]
  /\ address' = address \/ address' = None \/ \A t \in Task : Known(t) => address' \in assigned'[t]

LEMMA KnowsOn ==
  ASSUME TypeOK, NEW v \in Worker, Knows(v), Rests(v), Addresses,
         \A t \in Task : task[v] = t => GoesOn(t)
  PROVE  Knows(v)'
<1>1. task[v] # None => task[v] \in Task
  BY DEF TypeOK
<1>2. task'[v] # None => Known(task[v]) /\ Known(task[v])'
  BY <1>1 DEF Knows, Rests, GoesOn
<1>3. step[v] # "idle" => task[v] \in Task
  BY <1>1 DEF Knows
<1>4. /\ step'[v] \in {"fetched", "preparing"} => seen'[v].attempts = row'[task'[v]].attempts
      /\ step'[v] = "preparing" => seen'[v].attempts < MaxAttempts
      /\ step'[v] = "recording" /\ seen'[v].status \in Terminal
           => row'[task'[v]].status \in Terminal \/ task'[v] \in revived'
  BY <1>3 DEF Knows, Rests, GoesOn
<1>5. step'[v] \in Making /\ address' # None => address' \in assigned'[task'[v]]
  BY <1>2, <1>3 DEF Knows, Rests, Addresses, Making
<1>6. created[v] # None => task[v] # None
  BY DEF Knows, Early
<1>7. created'[v] # None => created'[v] \in assigned'[task'[v]]
  BY <1>1, <1>2, <1>6 DEF Knows, Rests, Addresses
<1>8. result[v] \in Address => task[v] # None
  BY ChangeIpAssumption DEF Knows, Late
<1>9. result'[v] \in Address => result'[v] \in assigned'[task'[v]]
  BY <1>1, <1>2, <1>8 DEF Knows, Rests, Addresses
<1> QED BY <1>2, <1>4, <1>5, <1>7, <1>9 DEF Knows, Rests, Known

\* A step of worker w inside an execution.
Inside(w) ==
  /\ step[w] # "idle" /\ step'[w] # "idle"
  /\ task' = task /\ job' = job /\ runner' = runner /\ phase' = phase /\ req' = req
  /\ revived' = revived /\ disturbances' = disturbances
  /\ \A v \in Worker \ {w} : Rests(v)
  /\ \A t \in Task \ {task[w]} : /\ row'[t] = row[t] /\ rotations'[t] = rotations[t]
                                 /\ told'[t] = told[t] /\ (t \in concluded <=> t \in concluded')
  /\ \A t \in Task : Known(t) => Known(t)'
  /\ Addresses

\* What such a step has to show for its own task: the conjuncts of the invariant.
OwnCounts(w) ==
  LET t == task[w]
  IN /\ rotations'[t] <= row'[t].attempts
     /\ step'[w] = "checking" => rotations'[t] < row'[t].attempts
     /\ disturbances = 0 /\ t \notin concluded' /\ row'[t].attempts > 0 => step'[w] \in AtWork
     /\ row'[t].status = "failed" /\ t \notin concluded'
          => disturbances > 0 /\ row'[t].attempts = MaxAttempts
OwnOutcome(w) ==
  LET t == task[w]
  IN /\ row'[t].status = "succeeded" => told'[t] # None
     /\ told'[t] # None => told'[t] \in Wanted /\ told'[t] \in assigned'[t]
     /\ Alone(t) =>
          /\ result'[w] \in Address => address' \in {result'[w], Reserved}
          /\ told'[t] # None /\ t \notin revived =>
               /\ row'[t].status \in Terminal /\ address' \in {told'[t], Reserved}
               /\ step'[w] \in {"starting", "done"}

LEMMA InsideStep ==
  ASSUME IInv, TypeOK', NEW w \in Worker, Inside(w), Knows(w)', OwnCounts(w), OwnOutcome(w)
  PROVE  IInv'
<1> DEFINE t0 == task[w]
<1> USE DEF IInv
<1>1. t0 \in Task /\ Known(t0) /\ row'[t0].status # "absent"
  BY DEF TypeOK, Attempts, Knows, Inside, Known
<1>2. \A v \in Worker : task[v] = t0 => v = w
  BY <1>1, ChangeIpAssumption DEF Queue, OneWorker
<1>3. Attempts'
  <2>1. SUFFICES ASSUME NEW v \in Worker \ {w} PROVE Knows(v)'
    BY DEF Attempts
  <2>2. \A t \in Task : task[v] = t => GoesOn(t)
    <3>1. SUFFICES ASSUME NEW t \in Task, task[v] = t PROVE GoesOn(t)
      OBVIOUS
    <3>2. t # t0
      BY <2>1, <3>1, <1>2
    <3> QED BY <3>1, <3>2 DEF Inside, GoesOn
  <2> QED BY <2>1, <2>2, KnowsOn DEF Attempts, Inside
<1>4. Queue'
  BY <1>1 DEF Queue, OneWorker, Unscheduled, Restarts, Inside, TypeOK
<1>5. Counts'
  <2>1. SUFFICES ASSUME NEW t \in Task PROVE CountedFirst(t)' /\ InTime(t)' /\ Interrupted(t)'
    BY DEF Counts
  <2>2. CASE t = t0
    <3>1. CountedFirst(t)'
      BY <2>2, <1>2 DEF OwnCounts, CountedFirst, Inside
    <3>2. InTime(t)'
      BY <2>2, <1>2 DEF OwnCounts, InTime, Inside
    <3> QED BY <2>2, <3>1, <3>2 DEF OwnCounts, Interrupted, Inside
  <2>3. CASE t # t0
    <3>1. \A v \in Worker : task'[v] = t => step'[v] = step[v]
      BY <2>3 DEF Inside, Rests
    <3>2. row'[t] = row[t] /\ rotations'[t] = rotations[t] /\ (t \in concluded <=> t \in concluded')
      BY <2>3 DEF Inside
    <3>3. \A v \in Worker : task[v] = t => task'[v] = t /\ step'[v] = step[v]
      BY <2>3 DEF Inside, Rests
    <3>4. CountedFirst(t) /\ InTime(t) /\ Interrupted(t)
      BY DEF Counts
    <3>5. CountedFirst(t)'
      BY <3>1, <3>2, <3>4, Zenon DEF CountedFirst, Inside
    <3>6. InTime(t)'
      BY <3>2, <3>3, <3>4 DEF InTime, Inside
    <3>7. Interrupted(t)'
      BY <3>2, <3>4 DEF Interrupted, Inside
    <3> QED BY <3>5, <3>6, <3>7
  <2> QED BY <2>2, <2>3
<1>5a. \A t \in Task : Alone(t)' => Alone(t)
  BY DEF Alone, Inside
<1>6. Outcomes'
  <2>1. SUFFICES ASSUME NEW t \in Task PROVE Reported(t)' /\ Settled(t)'
    BY DEF Outcomes
  <2>2. CASE t = t0
    <3>1. Reported(t)'
      BY <2>2, <1>1 DEF OwnOutcome, Reported, Known
    <3>2. Settled(t)'
      BY <2>2, <1>2, <1>5a DEF OwnOutcome, Settled, Inside
    <3> QED BY <3>1, <3>2
  <2>3. CASE t # t0
    <3>1. row'[t] = row[t] /\ told'[t] = told[t]
      BY <2>3 DEF Inside
    <3>2. Reported(t)'
      BY <3>1 DEF Outcomes, Reported, Inside, Addresses, Known
    <3>3. ~Alone(t)'
      BY <2>3, <1>1 DEF Alone, Known
    <3> QED BY <3>2, <3>3 DEF Settled
  <2> QED BY <2>2, <2>3
<1> QED BY <1>3, <1>4, <1>5, <1>6

-----------------------------------------------------------------------------
(* Types *)

\* What surrounds a step of an execution.
LEMMA AtATask ==
  ASSUME IInv, NEW w \in Worker, step[w] # "idle"
  PROVE  task[w] \in Task /\ row[task[w]] \in Row /\ Known(task[w])
  BY DEF IInv, TypeOK, Attempts, Knows

LEMMA TypesKept == IInv /\ Next => TypeOK'
<1> SUFFICES ASSUME IInv, Next PROVE TypeOK'
  OBVIOUS
<1> USE ChangeIpAssumption
<1> USE DEF IInv
<1>1. ASSUME NEW w \in Worker, Dispatch(w) PROVE TypeOK'
  BY <1>1 DEF Dispatch, TypeOK, rotation, history, Step
<1>2. ASSUME NEW w \in Worker, Fetch(w) PROVE TypeOK'
  BY <1>2, AtATask DEF Fetch, MoveTo, TypeOK, scheduler, rotation, history, Step
<1>3. ASSUME NEW w \in Worker, GiveUp(w) PROVE TypeOK'
  <2>1. row' \in [Task -> Row]
    BY <1>3, AtATask, StatusSaved DEF GiveUp, TypeOK, Terminal
  <2> QED BY <1>3, <2>1, AtATask DEF GiveUp, MoveTo, TypeOK, scheduler, rotation, Step, NewRow, Row
<1>4. ASSUME NEW w \in Worker, FindUser(w) PROVE TypeOK'
  BY <1>4 DEF FindUser, MoveTo, TypeOK, scheduler, rotation, history, Step
<1>5. ASSUME NEW w \in Worker, Prepare(w) PROVE TypeOK'
  <2>1. seen[w] \in Row /\ seen[w].attempts + 1 \in 0..MaxAttempts
    BY <1>5 DEF Prepare, TypeOK, Attempts, Knows, Row
  <2>2. [status |-> "running", attempts |-> seen[w].attempts + 1] \in Row
    BY <2>1 DEF Row, Active
  <2>3. row' \in [Task -> Row]
    BY <1>5, <2>1, <2>2, AtATask, SavedRow DEF Prepare, Conflicts, TypeOK
  <2>4. step' \in [Worker -> Step] /\ seen' \in [Worker -> Row] /\ snapshot' \in [Worker -> 0..MaxAttempts]
    BY <1>5, <2>1 DEF Prepare, MoveTo, TypeOK, Step, NewRow, Row
  <2> QED BY <1>5, <2>3, <2>4 DEF Prepare, TypeOK, scheduler, history
<1>6. ASSUME NEW w \in Worker, Check(w) PROVE TypeOK'
  <2>1. step' \in [Worker -> Step] /\ result' \in [Worker -> Result]
    BY <1>6 DEF Check, Gives, MoveTo, TypeOK, Step, Result
  <2>2. rotations' \in [Task -> Nat]
    <3>1. step[w] # "idle"
      BY <1>6 DEF Check
    <3>2. task[w] \in Task
      BY <3>1, AtATask
    <3>3. rotations \in [Task -> Nat] /\ rotations' = [rotations EXCEPT ![task[w]] = rotations[task[w]] + 1]
      BY <1>6 DEF Check, TypeOK
    <3>4. rotations[task[w]] \in Nat
      BY <3>2, <3>3
    <3>5. rotations[task[w]] + 1 \in Nat
      BY <3>4
    <3> QED BY <3>2, <3>3, <3>5, Zenon
  <2> QED BY <1>6, <2>1, <2>2 DEF Check, TypeOK, scheduler
<1>7. ASSUME NEW w \in Worker, ReadAddress(w) PROVE TypeOK'
  <2>1. /\ step' \in [Worker -> Step] /\ result' \in [Worker -> Result]
        /\ old' \in [Worker -> Address \cup {None}]
    BY <1>7 DEF ReadAddress, Gives, MoveTo, TypeOK, Step, Result
  <2> QED BY <1>7, <2>1 DEF ReadAddress, TypeOK, scheduler, history
<1>8. ASSUME NEW w \in Worker, Delete(w) PROVE TypeOK'
  <2>1. /\ step' \in [Worker -> Step] /\ result' \in [Worker -> Result]
        /\ address' \in Address \cup {None}
    BY <1>8 DEF Delete, Gives, MoveTo, TypeOK, Step, Result
  <2> QED BY <1>8, <2>1 DEF Delete, TypeOK, scheduler, history
<1>9. ASSUME NEW w \in Worker, Create(w) PROVE TypeOK'
  <2>1. /\ step' \in [Worker -> Step] /\ result' \in [Worker -> Result]
        /\ address' \in Address \cup {None} /\ created' \in [Worker -> Address \cup {None}]
    BY <1>9 DEF Create, Assign, Gives, MoveTo, TypeOK, Step, Result, Address
  <2>2. assigned' \in [Task -> SUBSET Address]
    BY <1>9 DEF Create, Assign, TypeOK, Address
  <2>3. tries' \in [Worker -> 0..Tries]
    BY <1>9 DEF Create, TypeOK, Attempts, Knows
  <2> QED BY <1>9, <2>1, <2>2, <2>3 DEF Create, TypeOK, scheduler
<1>10. ASSUME NEW w \in Worker, Reconcile(w) PROVE TypeOK'
  <2>1. step' \in [Worker -> Step] /\ result' \in [Worker -> Result]
    BY <1>10 DEF Reconcile, FoundAddress, Gives, MoveTo, TypeOK, Step, Result, Address
  <2> QED BY <1>10, <2>1 DEF Reconcile, TypeOK, scheduler, history
<1>11. ASSUME NEW w \in Worker, Refetch(w) PROVE TypeOK'
  BY <1>11, AtATask DEF Refetch, MoveTo, TypeOK, scheduler, rotation, history, Step
<1>12. ASSUME NEW w \in Worker, Record(w) PROVE TypeOK'
  <2>1. task[w] \in Task
    BY <1>12, AtATask DEF Record
  <2>2. row' \in [Task -> Row]
    BY <1>12, <2>1, StatusSaved, RecordedStatus DEF Record, Conflicts, TypeOK, Active, Terminal
  <2>3. told' \in [Task -> Address \cup {None}]
    BY <1>12, <2>1 DEF Record, Tell, Matched, TypeOK
  <2>4. seen' \in [Worker -> Row] /\ \E s \in {"done", "retry"} : step' = [step EXCEPT ![w] = s]
    BY <1>12 DEF Record, MoveTo, TypeOK, NewRow, Row
  <2>5. step' \in [Worker -> Step]
    BY <2>4 DEF TypeOK, Step
  <2> QED BY <1>12, <2>1, <2>2, <2>3, <2>4, <2>5 DEF Record, TypeOK, scheduler, rotation
<1>13. ASSUME NEW w \in Worker, Complete(w) PROVE TypeOK'
  <2>1. job' \in Task \cup {None} /\ runner' \in Worker \cup {None}
    BY <1>13 DEF Complete, Unschedule, TypeOK, scheduler
  <2> QED BY <1>13, <2>1 DEF Complete, TypeOK, history, Step, Result
<1>14. ASSUME NEW r \in Request, ReadChange(r) PROVE TypeOK'
  <2>1. req' \in [Request -> [step : {"idle", "read", "inserted", "applied"}, kind : RequestKind,
                              task : Task \cup {None}, seen : Row]]
    <3>1. [Idle EXCEPT !.step = "read"]
            \in [step : {"idle", "read", "inserted", "applied"}, kind : RequestKind,
                 task : Task \cup {None}, seen : Row]
      BY DEF Idle, NewRow, Row, RequestKind
    <3> QED BY <1>14, <3>1 DEF ReadChange, SetReq, TypeOK
  <2> QED BY <1>14, <2>1 DEF ReadChange, TypeOK, scheduler, workers, rotation, history
<1>15. ASSUME NEW r \in Request, InsertChange(r) PROVE TypeOK'
  <2> DEFINE new == [NewRow EXCEPT !.status = "pending"]
  <2>1. NewRow \in Row /\ new \in Row
    BY DEF NewRow, Row, Active
  <2>2. row' \in [Task -> Row]
    <3> HIDE DEF new
    <3>1. CASE UNCHANGED row
      BY <3>1 DEF TypeOK
    <3>2. CASE \E t \in Task : Saves(t, NewRow, new)
      BY <3>2, <2>1, SavedRow DEF TypeOK
    <3> QED BY <1>15, <3>1, <3>2 DEF InsertChange, new
  <2>3. req' \in [Request -> [step : {"idle", "read", "inserted", "applied"}, kind : RequestKind,
                              task : Task \cup {None}, seen : Row]]
    <3>1. CASE req' = [req EXCEPT ![r] = Idle]
      BY <3>1 DEF Idle, NewRow, Row, RequestKind, TypeOK
    <3>2. CASE \E t \in Task : req' = [req EXCEPT ![r] = [req[r] EXCEPT !.step = "inserted", !.task = t]]
      <4>1. PICK t \in Task : req' = [req EXCEPT ![r] = [req[r] EXCEPT !.step = "inserted", !.task = t]]
        BY <3>2
      <4>2. [req[r] EXCEPT !.step = "inserted", !.task = t]
              \in [step : {"idle", "read", "inserted", "applied"}, kind : RequestKind,
                   task : Task \cup {None}, seen : Row]
        <5>1. req[r] \in [step : {"idle", "read", "inserted", "applied"}, kind : RequestKind,
                          task : Task \cup {None}, seen : Row]
          BY DEF TypeOK
        <5> QED BY <5>1
      <4> QED BY <4>1, <4>2 DEF TypeOK
    <3> QED BY <1>15, <3>1, <3>2 DEF InsertChange, SetReq
  <2> QED BY <1>15, <2>2, <2>3 DEF InsertChange, TypeOK, scheduler, workers, rotation, history
<1>16. ASSUME NEW r \in Request, ScheduleChange(r) PROVE TypeOK'
  BY <1>16 DEF ScheduleChange, Schedule, SetReq, Idle, NewRow, Row, RequestKind, TypeOK, workers, rotation, history
<1>17. ASSUME NEW r \in Request, NEW k \in Kinds, ReadStop(r, k) PROVE TypeOK'
  <2>1. disturbances' \in 0..MaxDisturbances
    BY <1>17 DEF ReadStop, Disturb, TypeOK
  <2>2. req' \in [Request -> [step : {"idle", "read", "inserted", "applied"}, kind : RequestKind,
                              task : Task \cup {None}, seen : Row]]
    BY <1>17 DEF ReadStop, SetReq, RequestKind, TypeOK
  <2> QED BY <1>17, <2>1, <2>2 DEF ReadStop, TypeOK, scheduler, workers, rotation, history
<1>18. ASSUME NEW r \in Request, ApplyStop(r) PROVE TypeOK'
  BY <1>18 DEF ApplyStop, Unschedule, SetReq, TypeOK, workers, rotation, history
<1>19. ASSUME NEW r \in Request, CommitStop(r) PROVE TypeOK'
  <2>1. row' \in [Task -> Row]
    <3>1. CASE req[r].task \in Task
      BY <1>19, <3>1, StatusSaved DEF CommitStop, TypeOK, Terminal
    <3>2. CASE req[r].task \notin Task
      BY <1>19, <3>2 DEF CommitStop, Saves, Updated, TypeOK
    <3> QED BY <3>1, <3>2
  <2>2. user' \in BOOLEAN
    BY <1>19, Zenon DEF CommitStop
  <2> QED BY <1>19, <2>1, <2>2 DEF CommitStop, SetReq, Idle, NewRow, Row, RequestKind, TypeOK, scheduler,
                                   workers, rotation, history
<1>20. CASE RemoveUnused
  <2>1. user' \in BOOLEAN
    BY <1>20, Zenon DEF RemoveUnused
  <2>2. disturbances' \in 0..MaxDisturbances
    BY <1>20 DEF RemoveUnused, Disturb, TypeOK
  <2> QED BY <1>20, <2>1, <2>2 DEF RemoveUnused, TypeOK, scheduler, workers, rotation, history
<1>21. CASE Attach
  BY <1>21 DEF Attach, Disturb, TypeOK, Address, scheduler, workers, rotation, history
<1>22. CASE Crash
  <2>1. /\ disturbances' \in 0..MaxDisturbances
        /\ seen' \in [Worker -> Row] /\ restored' \in [Task -> Row]
    BY <1>22 DEF Crash, Disturb, NewRow, Row, TypeOK
  <2>2. req' \in [Request -> [step : {"idle", "read", "inserted", "applied"}, kind : RequestKind,
                              task : Task \cup {None}, seen : Row]]
    BY <1>22 DEF Crash, Idle, NewRow, Row, RequestKind
  <2> QED BY <1>22, <2>1, <2>2 DEF Crash, TypeOK, Step, Result, history
<1>23. CASE Restore
  BY <1>23 DEF Restore, Schedule, TypeOK, scheduler, workers, rotation, history
<1>24. CASE CommitRestored
  <2>1. row' \in [Task -> Row]
    BY <1>24 DEF CommitRestored, Merge, Row, Active, TypeOK
  <2> QED BY <1>24, <2>1 DEF CommitRestored, NewRow, Row, TypeOK, scheduler, workers, rotation
<1> QED
  BY <1>1, <1>2, <1>3, <1>4, <1>5, <1>6, <1>7, <1>8, <1>9, <1>10, <1>11, <1>12, <1>13, <1>14, <1>15,
     <1>16, <1>17, <1>18, <1>19, <1>20, <1>21, <1>22, <1>23, <1>24 DEF Next, Execute

-----------------------------------------------------------------------------
(* An execution: reading *)

\* While an attempt is at work nothing has been reported for its task, unless it was
\* revived.
LEMMA NothingToldYet ==
  ASSUME IInv, NEW w \in Worker, step[w] \notin {"idle", "starting", "done"}, told' = told,
         row'[task[w]].status = "succeeded" => row[task[w]].status = "succeeded",
         Addresses,
         Alone(task[w]) /\ result'[w] \in Address => address' \in {result'[w], Reserved}
  PROVE  OwnOutcome(w)
<1>1. task[w] \in Task /\ Known(task[w])
  BY AtATask
<1>2. Reported(task[w]) /\ Settled(task[w])
  BY <1>1 DEF IInv, Outcomes
<1> QED BY <1>1, <1>2 DEF OwnOutcome, Reported, Settled, Addresses

\* The steps that move the worker on and leave the database and OCI alone.
LEMMA QuietKeeps ==
  ASSUME IInv, NEW w \in Worker,
         Fetch(w) \/ FindUser(w) \/ Check(w) \/ ReadAddress(w) \/ Reconcile(w) \/ Refetch(w)
  PROVE  Inside(w)
<1> USE DEF IInv
<1>1. step[w] # "idle" /\ task[w] \in Task
  BY AtATask DEF Fetch, FindUser, Check, ReadAddress, Reconcile, Refetch
<1>2. \E s \in Step \ {"idle"} : step' = [step EXCEPT ![w] = s]
  BY DEF Fetch, FindUser, Check, ReadAddress, Reconcile, Refetch, Gives, MoveTo, Step
<1>3. step'[w] # "idle" /\ \A v \in Worker \ {w} : step'[v] = step[v]
  BY <1>2 DEF TypeOK
<1>4. /\ \A v \in Worker \ {w} : /\ seen'[v] = seen[v] /\ old'[v] = old[v] /\ tries'[v] = tries[v]
                                 /\ created'[v] = created[v] /\ result'[v] = result[v]
      /\ row' = row /\ address' = address /\ assigned' = assigned /\ told' = told
      /\ concluded' = concluded /\ task' = task /\ revived' = revived
      /\ job' = job /\ runner' = runner /\ phase' = phase /\ req' = req /\ disturbances' = disturbances
  BY DEF Fetch, FindUser, Check, ReadAddress, Reconcile, Refetch, Gives, rotation, history, scheduler, TypeOK
<1>5. \A t \in Task \ {task[w]} : rotations'[t] = rotations[t]
  BY <1>1 DEF Fetch, FindUser, Check, ReadAddress, Reconcile, Refetch, history, TypeOK
<1> QED BY <1>1, <1>3, <1>4, <1>5, Zenon DEF Inside, Rests, Addresses, Known

LEMMA FetchKeeps ==
  ASSUME IInv, TypeOK', NEW w \in Worker, Fetch(w)
  PROVE  IInv'
<1> USE DEF IInv
<1> DEFINE t0 == task[w]
<1>1. Inside(w) /\ t0 \in Task /\ Known(t0)
  BY QuietKeeps, AtATask DEF Fetch
<1>2. Knows(w) /\ CountedFirst(t0) /\ InTime(t0) /\ Interrupted(t0) /\ Reported(t0) /\ Settled(t0)
  BY <1>1 DEF Attempts, Counts, Outcomes
<1>3. Knows(w)'
  BY <1>1, <1>2 DEF Fetch, MoveTo, Knows, Known, TypeOK, rotation, history, Late, Early, Making
<1>4. \A v \in Worker : task[v] = t0 => v = w
  BY <1>1, ChangeIpAssumption DEF Queue, OneWorker
<1>5. OwnCounts(w)
  BY <1>1, <1>2, <1>4 DEF Fetch, MoveTo, TypeOK, history, OwnCounts, CountedFirst, InTime, Interrupted, AtWork
<1>6. OwnOutcome(w)
  BY <1>1, <1>2 DEF Fetch, MoveTo, TypeOK, rotation, history, OwnOutcome, Reported, Settled, Terminal
<1> QED BY <1>1, <1>3, <1>5, <1>6, InsideStep

LEMMA FindUserKeeps ==
  ASSUME IInv, TypeOK', NEW w \in Worker, FindUser(w)
  PROVE  IInv'
<1> USE DEF IInv
<1> DEFINE t0 == task[w]
<1>1. Inside(w) /\ t0 \in Task /\ Known(t0)
  BY QuietKeeps, AtATask DEF FindUser
<1>2. Knows(w) /\ CountedFirst(t0) /\ InTime(t0) /\ Interrupted(t0) /\ Settled(t0)
  BY <1>1 DEF Attempts, Counts, Outcomes
<1>3. Knows(w)'
  <2>1. seen[w].attempts \in Nat /\ MaxAttempts \in Nat
    BY ChangeIpAssumption DEF TypeOK, Row
  <2>2. step'[w] = "preparing" /\ seen[w].attempts < MaxAttempts
    BY <2>1 DEF FindUser, MoveTo, Exhausted, TypeOK
  <2> QED BY <1>1, <1>2, <2>2 DEF FindUser, Knows, Known, rotation, history, Late, Early, Making
<1>4. \A v \in Worker : task[v] = t0 => v = w
  BY <1>1, ChangeIpAssumption DEF Queue, OneWorker
<1>5. OwnCounts(w)
  BY <1>1, <1>2, <1>4 DEF FindUser, MoveTo, TypeOK, history, OwnCounts, CountedFirst, InTime, Interrupted, AtWork
<1>6. OwnOutcome(w)
  BY <1>1, <1>2, NothingToldYet DEF FindUser, rotation, history, Inside, Settled
<1> QED BY <1>1, <1>3, <1>5, <1>6, InsideStep

LEMMA CheckKeeps ==
  ASSUME IInv, TypeOK', NEW w \in Worker, Check(w)
  PROVE  IInv'
<1> USE DEF IInv
<1> DEFINE t0 == task[w]
<1>1. Inside(w) /\ t0 \in Task /\ Known(t0)
  BY QuietKeeps, AtATask DEF Check
<1>2. Knows(w) /\ CountedFirst(t0) /\ InTime(t0) /\ Interrupted(t0) /\ Settled(t0)
  BY <1>1 DEF Attempts, Counts, Outcomes
<1>3. /\ step'[w] \in {"reading", "acted"} /\ (step'[w] = "reading" => result'[w] = result[w])
      /\ result'[w] \in {result[w], "retryable", "refused"}
  BY DEF Check, Gives, MoveTo, TypeOK
<1>4. result[w] = None /\ result'[w] \notin Address
  BY <1>2, <1>3, ChangeIpAssumption DEF Check, Knows, Late
<1>5. Knows(w)'
  BY <1>1, <1>2, <1>3, <1>4 DEF Check, Knows, Known, Late, Early, Making
<1>6. rotations'[t0] = rotations[t0] + 1 /\ rotations[t0] < row[t0].attempts
  <2>1. rotations \in [Task -> Nat] /\ rotations' = [rotations EXCEPT ![t0] = rotations[t0] + 1]
    BY DEF Check, TypeOK
  <2>2. rotations[t0] < row[t0].attempts
    BY <1>2 DEF Check, CountedFirst
  <2> QED BY <1>1, <2>1, <2>2, Zenon
<1>7. rotations[t0] \in Nat /\ row[t0].attempts \in Nat
  BY <1>1 DEF TypeOK, Row
<1>8. OwnCounts(w)
  BY <1>1, <1>2, <1>3, <1>6, <1>7 DEF Check, OwnCounts, Interrupted, AtWork
<1>9. OwnOutcome(w)
  BY <1>1, <1>4, NothingToldYet DEF Check, Inside
<1> QED BY <1>1, <1>5, <1>8, <1>9, InsideStep

LEMMA ReadAddressKeeps ==
  ASSUME IInv, TypeOK', NEW w \in Worker, ReadAddress(w)
  PROVE  IInv'
<1> USE DEF IInv
<1> DEFINE t0 == task[w]
<1>1. Inside(w) /\ t0 \in Task /\ Known(t0)
  BY QuietKeeps, AtATask DEF ReadAddress
<1>2. Knows(w) /\ CountedFirst(t0) /\ InTime(t0) /\ Interrupted(t0) /\ Settled(t0)
  BY <1>1 DEF Attempts, Counts, Outcomes
<1>3. /\ step'[w] \in {"creating", "deleting", "acted"}
      /\ step'[w] = "creating" => address = None
      /\ step'[w] = "deleting" => old'[w] \in Ephemeral
      /\ step'[w] # "acted" => result'[w] = result[w]
      /\ result'[w] \in {result[w], "retryable", "refused"}
  BY DEF ReadAddress, Gives, MoveTo, TypeOK
<1>4. result[w] = None /\ result'[w] \notin Address
  BY <1>2, <1>3, ChangeIpAssumption DEF ReadAddress, Knows, Late
<1>5. tries[w] = 0 /\ created[w] = None
  BY <1>2 DEF ReadAddress, Knows, Early
<1>6. Knows(w)'
  BY <1>1, <1>2, <1>3, <1>4, <1>5, ChangeIpAssumption
     DEF ReadAddress, Knows, Known, Late, Early, Making
<1>7. OwnCounts(w)
  BY <1>1, <1>2, <1>3 DEF ReadAddress, history, OwnCounts, CountedFirst, Interrupted, AtWork
<1>8. OwnOutcome(w)
  BY <1>1, <1>4, NothingToldYet DEF ReadAddress, history, Inside
<1> QED BY <1>1, <1>6, <1>7, <1>8, InsideStep

\* An address found is one the instance was given: the worker had left it without any.
LEMMA ReconcileKeeps ==
  ASSUME IInv, TypeOK', NEW w \in Worker, Reconcile(w)
  PROVE  IInv'
<1> USE DEF IInv
<1> DEFINE t0 == task[w]
<1>1. Inside(w) /\ t0 \in Task /\ Known(t0)
  BY QuietKeeps, AtATask DEF Reconcile
<1>2. Knows(w) /\ CountedFirst(t0) /\ InTime(t0) /\ Interrupted(t0) /\ Settled(t0)
  BY <1>1 DEF Attempts, Counts, Outcomes
<1>3. /\ step'[w] \in {"creating", "acted"}
      /\ step'[w] = "creating" => tries[w] < Tries /\ result'[w] = result[w]
      /\ result'[w] \in Address => result'[w] = result[w] \/ result'[w] = address
  BY ChangeIpAssumption DEF Reconcile, FoundAddress, Gives, MoveTo, TypeOK
<1>4. result[w] = None /\ (address # None => address \in assigned[t0])
  BY <1>2, ChangeIpAssumption DEF Reconcile, Knows, Late, Making
<1>5. Knows(w)'
  BY <1>1, <1>2, <1>3, <1>4, ChangeIpAssumption
     DEF Reconcile, history, Knows, Known, Late, Early, Making
<1>6. OwnCounts(w)
  BY <1>1, <1>2, <1>3 DEF Reconcile, history, OwnCounts, CountedFirst, Interrupted, AtWork
<1>7. OwnOutcome(w)
  BY <1>1, <1>3, <1>4, NothingToldYet, ChangeIpAssumption DEF Reconcile, history, Inside
<1> QED BY <1>1, <1>5, <1>6, <1>7, InsideStep

LEMMA RefetchKeeps ==
  ASSUME IInv, TypeOK', NEW w \in Worker, Refetch(w)
  PROVE  IInv'
<1> USE DEF IInv
<1> DEFINE t0 == task[w]
<1>1. Inside(w) /\ t0 \in Task /\ Known(t0)
  BY QuietKeeps, AtATask DEF Refetch
<1>2. Knows(w) /\ CountedFirst(t0) /\ InTime(t0) /\ Interrupted(t0) /\ Settled(t0)
  BY <1>1 DEF Attempts, Counts, Outcomes
<1>3. step'[w] = "recording" /\ seen'[w] = row[t0]
  BY DEF Refetch, MoveTo, TypeOK
<1>4. Knows(w)'
  BY <1>1, <1>2, <1>3 DEF Refetch, rotation, history, Knows, Known, Late, Early, Making
<1>5. OwnCounts(w)
  BY <1>1, <1>2, <1>3 DEF Refetch, history, OwnCounts, CountedFirst, Interrupted, AtWork
<1>6. OwnOutcome(w)
  BY <1>1, <1>2, NothingToldYet DEF Refetch, rotation, history, Inside, Settled
<1> QED BY <1>1, <1>4, <1>5, <1>6, InsideStep

-----------------------------------------------------------------------------
(* An execution: at OCI *)

LEMMA DeleteKeeps ==
  ASSUME IInv, TypeOK', NEW w \in Worker, Delete(w)
  PROVE  IInv'
<1> USE DEF IInv
<1> DEFINE t0 == task[w]
<1>1. step[w] # "idle" /\ t0 \in Task /\ Known(t0)
  BY AtATask DEF Delete
<1>2. Knows(w) /\ CountedFirst(t0) /\ InTime(t0) /\ Interrupted(t0) /\ Settled(t0)
  BY <1>1 DEF Attempts, Counts, Outcomes
<1>3. /\ step'[w] \in {"creating", "acted"}
      /\ step'[w] = "creating" => address' = None /\ result'[w] = result[w]
      /\ result'[w] \in {result[w], "retryable", "refused"}
      /\ address' \in {address, None}
  BY DEF Delete, Gives, MoveTo, TypeOK
<1>4. /\ \A v \in Worker \ {w} : step'[v] = step[v] /\ result'[v] = result[v]
  BY DEF Delete, Gives, MoveTo, TypeOK
<1>5. Inside(w)
  BY <1>1, <1>3, <1>4 DEF Delete, Inside, Rests, Addresses, Known, history, scheduler
<1>6. result[w] = None /\ result'[w] \notin Address
  BY <1>2, <1>3, ChangeIpAssumption DEF Delete, Knows, Late
<1>7. tries[w] = 0 /\ created[w] = None
  BY <1>2 DEF Delete, Knows, Early
<1>8. Knows(w)'
  BY <1>1, <1>2, <1>3, <1>6, <1>7, ChangeIpAssumption
     DEF Delete, history, Knows, Known, Late, Early, Making
<1>9. OwnCounts(w)
  BY <1>1, <1>2, <1>3 DEF Delete, history, OwnCounts, CountedFirst, Interrupted, AtWork
<1>10. OwnOutcome(w)
  BY <1>1, <1>5, <1>6, NothingToldYet DEF Delete, history, Inside
<1> QED BY <1>5, <1>8, <1>9, <1>10, InsideStep

LEMMA CreateKeeps ==
  ASSUME IInv, TypeOK', NEW w \in Worker, Create(w)
  PROVE  IInv'
<1> USE DEF IInv
<1> DEFINE t0 == task[w]
<1>1. step[w] # "idle" /\ t0 \in Task /\ Known(t0)
  BY AtATask DEF Create
<1>2. Knows(w) /\ CountedFirst(t0) /\ InTime(t0) /\ Interrupted(t0) /\ Settled(t0)
  BY <1>1 DEF Attempts, Counts, Outcomes
<1>3. /\ step'[w] \in {"reconciling", "conflicted", "acted"}
      /\ step'[w] # "acted" => result'[w] = result[w]
      /\ result'[w] \in Address => result'[w] = result[w] \/ result'[w] = address'
      /\ \A v \in Worker \ {w} : step'[v] = step[v] /\ result'[v] = result[v]
  BY ChangeIpAssumption DEF Create, Assign, Gives, MoveTo, TypeOK, Address
<1>4. \/ address' = address /\ created' = created /\ assigned' = assigned
      \/ \E a \in Ephemeral : Assign(w, a)
  BY DEF Create
<1>5. /\ \A t \in Task : Known(t) => assigned[t] \subseteq assigned'[t]
      /\ address' = address \/ \A t \in Task : Known(t) => address' \in assigned'[t]
      /\ \A v \in Worker \ {w} : created'[v] = created[v]
      /\ created'[w] = created[w] \/ created'[w] \in assigned'[t0]
  BY <1>1, <1>4 DEF Assign, Known, TypeOK
<1>6. tries' = [tries EXCEPT ![w] = tries[w] + 1] /\ tries[w] < Tries
  BY <1>2 DEF Create, Knows
<1>7. Inside(w)
  BY <1>1, <1>3, <1>5, <1>6 DEF Create, Inside, Rests, Addresses, Known, scheduler, TypeOK
<1>8. result[w] = None /\ (address # None => address \in assigned[t0])
  BY <1>2 DEF Create, Knows, Late, Making
<1>9. /\ address' # None => address' \in assigned'[t0]
      /\ created'[w] # None => created'[w] \in assigned'[t0]
      /\ result'[w] \in Address => result'[w] = address'
  BY <1>1, <1>2, <1>3, <1>5, <1>8, ChangeIpAssumption DEF Knows
<1>10. Knows(w)'
  BY <1>1, <1>2, <1>3, <1>8, <1>9, ChangeIpAssumption
     DEF Create, Knows, Known, Late, Early, Making
<1>11. OwnCounts(w)
  BY <1>1, <1>2, <1>3 DEF Create, OwnCounts, CountedFirst, Interrupted, AtWork
<1>12. OwnOutcome(w)
  BY <1>1, <1>7, <1>9, NothingToldYet DEF Create, Inside
<1> QED BY <1>7, <1>10, <1>11, <1>12, InsideStep

-----------------------------------------------------------------------------
(* An execution: the database *)

\* While a worker is not at work on an attempt, nobody is for its task: without a crash
\* the attempts that are counted have recorded an outcome.
LEMMA NoAttemptPending ==
  ASSUME IInv, NEW w \in Worker, step[w] \notin AtWork \cup {"idle"},
         disturbances = 0, task[w] \notin concluded
  PROVE  ~(row[task[w]].attempts > 0)
<1>1. task[w] \in Task
  BY AtATask DEF AtWork
<1>2. \A v \in Worker : task[v] = task[w] => v = w
  BY <1>1, ChangeIpAssumption DEF IInv, Queue, OneWorker
<1>3. InTime(task[w])
  BY <1>1 DEF IInv, Counts
<1> QED BY <1>2, <1>3 DEF InTime

LEMMA GiveUpKeeps ==
  ASSUME IInv, TypeOK', NEW w \in Worker, GiveUp(w)
  PROVE  IInv'
<1> USE DEF IInv
<1> DEFINE t0 == task[w]
<1>1. step[w] # "idle" /\ t0 \in Task /\ Known(t0)
  BY AtATask DEF GiveUp
<1>2. Knows(w) /\ CountedFirst(t0) /\ InTime(t0) /\ Interrupted(t0) /\ Settled(t0)
  BY <1>1 DEF Attempts, Counts, Outcomes
<1>3. /\ \A u \in Task \ {t0} : row'[u] = row[u]
      /\ row'[t0].status \in {row[t0].status, "failed"}
      /\ row'[t0].attempts = row[t0].attempts
  <2>1. seen[w] \in Row /\ row \in [Task -> Row] /\ "failed" \in Active \cup Terminal
    BY DEF TypeOK, Terminal
  <2>2. Saves(t0, seen[w], [seen[w] EXCEPT !.status = "failed"])
    BY DEF GiveUp
  <2> QED BY <1>1, <2>1, <2>2, StatusSaved
<1>4. row'[t0].status # "absent" /\ row'[t0].status \in {row[t0].status, "failed"}
  BY <1>1, <1>3 DEF Known
<1>5. step'[w] = "done" /\ \A v \in Worker \ {w} : step'[v] = step[v] /\ seen'[v] = seen[v]
  BY DEF GiveUp, MoveTo, TypeOK
<1>6. \A u \in Task \ {t0} : u \in concluded <=> u \in concluded'
  BY DEF GiveUp
<1>7. Inside(w)
  BY <1>1, <1>3, <1>4, <1>5, <1>6 DEF GiveUp, Inside, Rests, Addresses, Known, rotation, scheduler
<1>8. Knows(w)'
  BY <1>1, <1>2, <1>4, <1>5 DEF GiveUp, rotation, Knows, Known, Late, Early, Making
<1>9. t0 \notin concluded' => t0 \notin concluded /\ row[t0].attempts = MaxAttempts /\ MaxAttempts > 0
  <2>1. row[t0].attempts \in 0..MaxAttempts /\ MaxAttempts \in Nat \ {0}
    BY <1>1, ChangeIpAssumption DEF TypeOK, Row
  <2>2. t0 \notin concluded' => Exhausted(seen[w]) /\ t0 \notin concluded
    BY DEF GiveUp
  <2> QED BY <1>2, <2>1, <2>2 DEF GiveUp, Exhausted, Knows
<1>10. t0 \notin concluded' => disturbances # 0
  BY <1>9, NoAttemptPending DEF GiveUp, AtWork
<1>11. disturbances \in Nat
  BY ChangeIpAssumption DEF TypeOK
<1>12. OwnCounts(w)
  BY <1>2, <1>3, <1>5, <1>9, <1>10, <1>11 DEF GiveUp, OwnCounts, CountedFirst, AtWork
<1>13. OwnOutcome(w)
  BY <1>1, <1>2, <1>4, <1>7, NothingToldYet DEF GiveUp, rotation, Inside, Settled
<1> QED BY <1>7, <1>8, <1>12, <1>13, InsideStep

\* The attempt is counted: the count read is the stored one, so it grows.
LEMMA PrepareKeeps ==
  ASSUME IInv, TypeOK', NEW w \in Worker, Prepare(w)
  PROVE  IInv'
<1> USE DEF IInv
<1> DEFINE t0 == task[w]
           new == [status |-> "running", attempts |-> seen[w].attempts + 1]
<1>1. step[w] # "idle" /\ t0 \in Task /\ Known(t0)
  BY AtATask DEF Prepare
<1>2. Knows(w) /\ CountedFirst(t0) /\ InTime(t0) /\ Interrupted(t0) /\ Settled(t0)
  BY <1>1 DEF Attempts, Counts, Outcomes
<1>3. /\ row[t0].attempts \in Nat /\ rotations[t0] \in Nat /\ MaxAttempts \in Nat
      /\ row[t0].attempts < MaxAttempts /\ seen[w].attempts = row[t0].attempts
  <2>1. row[t0] \in Row /\ seen[w] \in Row /\ rotations[t0] \in Nat
    BY <1>1 DEF TypeOK
  <2>2. row[t0].attempts \in Nat /\ MaxAttempts \in Nat
    BY <2>1, ChangeIpAssumption DEF Row
  <2>3. seen[w].attempts = row[t0].attempts /\ seen[w].attempts < MaxAttempts
    BY <1>2 DEF Prepare, Knows
  <2> QED BY <2>1, <2>2, <2>3
<1>4. \/ row' = row /\ step' = [step EXCEPT ![w] = "retry"]
      \/ Saves(t0, seen[w], new) /\ step' = [step EXCEPT ![w] = "checking"]
  BY DEF Prepare, Conflicts, MoveTo
<1>5. Saves(t0, seen[w], new) =>
        /\ \A u \in Task \ {t0} : row'[u] = row[u]
        /\ row'[t0].status \in {row[t0].status, "running"}
        /\ row'[t0].attempts = row[t0].attempts + 1
  <2>1. seen[w] \in Row /\ row \in [Task -> Row] /\ new \in Row
    BY <1>3 DEF TypeOK, Row, Active
  <2>2. new.status = "running" /\ new.attempts # seen[w].attempts /\ new.attempts = row[t0].attempts + 1
    BY <1>3
  <2> HIDE DEF new
  <2> QED BY <1>1, <2>1, <2>2, SavedRow
<1> HIDE DEF new
<1>6. /\ \A u \in Task \ {t0} : row'[u] = row[u]
      /\ row'[t0].status \in {row[t0].status, "running"}
  BY <1>1, <1>4, <1>5
<1>7. row'[t0].status # "absent" /\ step'[w] \in {"retry", "checking"}
  BY <1>1, <1>4, <1>6 DEF Known, TypeOK
<1>8. \A v \in Worker \ {w} : step'[v] = step[v] /\ seen'[v] = seen[v]
  BY <1>4 DEF Prepare, TypeOK
<1>9. Inside(w)
  BY <1>1, <1>6, <1>7, <1>8 DEF Prepare, Inside, Rests, Addresses, Known, history, scheduler
<1>10. tries[w] = 0 /\ created[w] = None /\ result[w] = None
  BY <1>2 DEF Prepare, Knows, Early, Late
<1>11. Knows(w)'
  BY <1>1, <1>7, <1>10, ChangeIpAssumption DEF Prepare, Knows, Known, Late, Early, Making
<1>12. OwnCounts(w)
  <2>1. ~(disturbances = 0 /\ t0 \notin concluded /\ row[t0].attempts > 0)
    BY NoAttemptPending DEF Prepare, AtWork
  <2>2. concluded' = concluded /\ rotations' = rotations
    BY DEF Prepare, history
  <2>3. CASE row' = row /\ step'[w] = "retry"
    BY <1>2, <2>1, <2>2, <2>3 DEF OwnCounts, CountedFirst, Interrupted, AtWork
  <2>4. CASE row'[t0].attempts = row[t0].attempts + 1 /\ step'[w] = "checking"
    <3>1. rotations[t0] <= row[t0].attempts
      BY <1>2 DEF CountedFirst
    <3>2. ~(row'[t0].status = "failed" /\ t0 \notin concluded)
      BY <1>2, <1>3, <1>6 DEF Interrupted
    <3> QED BY <1>3, <2>2, <2>4, <3>1, <3>2 DEF OwnCounts, AtWork
  <2> QED BY <1>4, <1>5, <2>3, <2>4 DEF TypeOK
<1>13. OwnOutcome(w)
  <2>1. result'[w] \notin Address
    BY <1>10, ChangeIpAssumption DEF Prepare
  <2> QED BY <1>1, <1>6, <1>9, <2>1, NothingToldYet DEF Prepare, history, Inside
<1> QED BY <1>9, <1>11, <1>12, <1>13, InsideStep

\* A result is reported with the row it is recorded in, once; the task has an end then.
LEMMA RecordKeeps ==
  ASSUME IInv, TypeOK', NEW w \in Worker, Record(w)
  PROVE  IInv'
<1> USE DEF IInv
<1> DEFINE t0 == task[w]
           s0 == seen[w].status
<1>1. step[w] # "idle" /\ t0 \in Task /\ Known(t0)
  BY AtATask DEF Record
<1>2. Knows(w) /\ CountedFirst(t0) /\ Reported(t0) /\ Settled(t0)
  BY <1>1 DEF Attempts, Counts, Outcomes
<1>3. /\ concluded' = concluded \cup {t0} /\ revived' = revived
      /\ address' = address /\ assigned' = assigned /\ result' = result /\ rotations' = rotations
  BY DEF Record, rotation
\* The three ways it can go.
<1>4. \/ s0 = "cancelled" /\ row' = row /\ Tell(w) /\ MoveTo(w, "done")
      \/ /\ s0 # "cancelled" /\ Tell(w)
         /\ Saves(t0, seen[w], [seen[w] EXCEPT !.status = Recorded(w)])
         /\ MoveTo(w, IF Recorded(w) = "pending" THEN "retry" ELSE "done")
      \/ row' = row /\ told' = told /\ MoveTo(w, "retry")
  <2>1. [seen[w] EXCEPT !.status = Recorded(w)].status = Recorded(w)
    BY DEF TypeOK, Row
  <2> QED BY <2>1 DEF Record, Conflicts
<1>5. Recorded(w) \in {"succeeded", "failed", "pending"} /\ (Recorded(w) = "succeeded" <=> Matched(w))
  BY RecordedStatus
<1>6. Saves(t0, seen[w], [seen[w] EXCEPT !.status = Recorded(w)]) =>
        /\ \A u \in Task \ {t0} : row'[u] = row[u]
        /\ (Recorded(w) = s0 /\ row'[t0].status = row[t0].status) \/ row'[t0].status = Recorded(w)
        /\ row'[t0].attempts = row[t0].attempts
  <2>1. seen[w] \in Row /\ row \in [Task -> Row] /\ Recorded(w) \in Active \cup Terminal
    BY <1>5 DEF TypeOK, Active, Terminal
  <2> QED BY <1>1, <2>1, StatusSaved
<1>7. /\ \A u \in Task \ {t0} : row'[u] = row[u]
      /\ row'[t0].attempts = row[t0].attempts
      /\ row'[t0].status \in {row[t0].status, Recorded(w)}
  BY <1>1, <1>4, <1>6
<1>8. row'[t0].status # "absent"
  BY <1>1, <1>5, <1>7 DEF Known
<1>9. step'[w] \in {"done", "retry"} /\ \A v \in Worker \ {w} : step'[v] = step[v] /\ seen'[v] = seen[v]
  BY <1>4 DEF Record, MoveTo, TypeOK
<1>10. \/ told' = told
       \/ told[t0] = None /\ Matched(w) /\ told' = [told EXCEPT ![t0] = result[w]]
  BY <1>4 DEF Tell
<1>11. Inside(w)
  <2>1. \A u \in Task \ {t0} : told'[u] = told[u]
    BY <1>10 DEF TypeOK
  <2> QED BY <1>1, <1>3, <1>7, <1>8, <1>9, <2>1
          DEF Record, Inside, Rests, Addresses, Known, rotation, scheduler
<1>12. Knows(w)'
  BY <1>1, <1>2, <1>3, <1>8, <1>9, ChangeIpAssumption DEF Record, rotation, Knows, Known, Late, Early, Making
<1>13. OwnCounts(w)
  BY <1>2, <1>3, <1>7, <1>9 DEF OwnCounts, CountedFirst
<1>14. OwnOutcome(w)
  <2>1. told'[t0] \in {told[t0], result[w]} /\ (told'[t0] # told[t0] => Matched(w) /\ told[t0] = None)
    BY <1>1, <1>10 DEF TypeOK
  <2>2. Matched(w) => result[w] \in Wanted /\ result[w] \in Address /\ result[w] \in assigned[t0]
    BY <1>2, ChangeIpAssumption DEF Matched, Knows
  <2>3. told'[t0] # None => told'[t0] \in Wanted /\ told'[t0] \in assigned'[t0]
    BY <1>2, <1>3, <2>1, <2>2 DEF Reported
  <2>4. row'[t0].status = "succeeded" => told'[t0] # None
    <3>1. Tell(w) /\ Matched(w) => told'[t0] # None
      BY <1>1, <2>2, ChangeIpAssumption DEF Tell, TypeOK
    <3>2. told[t0] # None => told'[t0] # None
      BY <2>1
    <3> QED BY <1>2, <1>4, <1>5, <1>6, <3>1, <3>2 DEF Reported
  <2>5. ASSUME Alone(t0) PROVE result'[w] \in Address => address' \in {result'[w], Reserved}
    BY <1>2, <1>3, <2>5 DEF Settled
  <2>6. ASSUME Alone(t0), told'[t0] # None, t0 \notin revived
        PROVE  /\ row'[t0].status \in Terminal /\ address' \in {told'[t0], Reserved}
               /\ step'[w] \in {"starting", "done"}
    <3>1. told[t0] = None
      BY <1>2, <2>6 DEF Record, Settled
    <3>2. Matched(w) /\ told'[t0] = result[w] /\ told' # told
      BY <2>1, <2>6, <3>1
    <3>3. address' \in {told'[t0], Reserved}
      BY <2>2, <2>5, <2>6, <3>2, <1>3
    <3>4. s0 \in Terminal => row[t0].status \in Terminal
      BY <1>2, <2>6 DEF Record, Knows
    <3>5. row'[t0].status \in Terminal /\ step'[w] = "done"
      BY <1>4, <1>5, <1>6, <3>2, <3>4 DEF MoveTo, TypeOK, Terminal
    <3> QED BY <3>3, <3>5
  <2> QED BY <2>3, <2>4, <2>5, <2>6 DEF OwnOutcome
<1> QED BY <1>11, <1>12, <1>13, <1>14, InsideStep

-----------------------------------------------------------------------------
(* The scheduler *)

LEMMA DispatchKeeps ==
  ASSUME IInv, TypeOK', NEW w \in Worker, Dispatch(w)
  PROVE  IInv'
<1> USE DEF IInv
<1>1. /\ job \in Task /\ Known(job) /\ step[w] = "idle" /\ task[w] = None
      /\ \A v \in Worker : task[v] # job
  BY ChangeIpAssumption DEF Dispatch, TypeOK, Queue, OneWorker, Attempts, Knows
<1>2. /\ step'[w] = "starting" /\ task'[w] = job
      /\ \A v \in Worker \ {w} : step'[v] = step[v] /\ task'[v] = task[v]
      /\ row' = row /\ address' = address /\ seen' = seen /\ job' = job /\ runner' = w
      /\ old' = old /\ tries' = tries /\ created' = created /\ result' = result
      /\ told' = told /\ assigned' = assigned /\ rotations' = rotations /\ concluded' = concluded
      /\ revived' = revived /\ disturbances' = disturbances /\ phase' = phase /\ req' = req
  BY DEF Dispatch, TypeOK, rotation, history
<1>3. Attempts'
  <2>1. ASSUME NEW v \in Worker \ {w} PROVE Knows(v)'
    BY <1>2, KnowsOn DEF Attempts, Rests, Addresses, GoesOn, Known
  <2>2. Knows(w)'
    BY <1>1, <1>2, ChangeIpAssumption DEF Attempts, Knows, Known, Early, Late, Making
  <2> QED BY <2>1, <2>2 DEF Attempts
<1>4. Queue'
  <2>1. OneWorker'
    BY <1>1, <1>2 DEF Queue, OneWorker, Known, TypeOK
  <2>2. \A r \in Request : Unscheduled(r)'
    BY <1>1, <1>2 DEF Queue, Unscheduled, Known
  <2>3. Restarts'
    BY <1>1, <1>2 DEF Dispatch, Queue, Restarts
  <2> QED BY <2>1, <2>2, <2>3 DEF Queue
<1>5. Counts'
  <2>1. SUFFICES ASSUME NEW t \in Task PROVE CountedFirst(t)' /\ InTime(t)' /\ Interrupted(t)'
    BY DEF Counts
  <2>2. CountedFirst(t) /\ InTime(t) /\ Interrupted(t)
    BY DEF Counts
  <2>3. CountedFirst(t)'
    BY <1>2, <2>2 DEF CountedFirst
  <2>4. InTime(t)'
    <3>1. \A v \in Worker : step[v] \in AtWork => v # w
      BY <1>1 DEF AtWork
    <3> QED BY <1>2, <2>2, <3>1 DEF InTime
  <2>5. Interrupted(t)'
    BY <1>2, <2>2 DEF Interrupted
  <2> QED BY <2>3, <2>4, <2>5
<1>6. Outcomes'
  <2>1. SUFFICES ASSUME NEW t \in Task PROVE Reported(t)' /\ Settled(t)'
    BY DEF Outcomes
  <2>2. Reported(t) /\ Settled(t)
    BY DEF Outcomes
  <2>3. result[w] \notin Address
    BY <1>1, ChangeIpAssumption DEF Attempts, Knows, Late
  <2> QED BY <1>2, <2>2, <2>3 DEF Reported, Settled, Alone, Known
<1> QED BY <1>3, <1>4, <1>5, <1>6

LEMMA CompleteKeeps ==
  ASSUME IInv, TypeOK', NEW w \in Worker, Complete(w)
  PROVE  IInv'
<1> USE DEF IInv
<1>1. step[w] \in {"done", "retry"} /\ task[w] \in Task
  BY AtATask DEF Complete
<1>2. /\ step'[w] = "idle" /\ task'[w] = None /\ created'[w] = None /\ result'[w] = None /\ tries'[w] = 0
      /\ \A v \in Worker \ {w} : Rests(v)
      /\ row' = row /\ address' = address /\ told' = told /\ assigned' = assigned
      /\ rotations' = rotations /\ concluded' = concluded
      /\ revived' = revived /\ disturbances' = disturbances /\ phase' = phase /\ req' = req
  BY DEF Complete, TypeOK, history, Rests
<1>3. \/ runner # w /\ job' = job /\ runner' = runner
      \/ runner = w /\ runner' = None /\ job' \in {job, None}
  BY DEF Complete, Unschedule, scheduler
<1>4. Attempts'
  <2>1. ASSUME NEW v \in Worker \ {w} PROVE Knows(v)'
    BY <1>2, KnowsOn DEF Attempts, Addresses, GoesOn, Known
  <2>2. Knows(w)'
    BY <1>2, ChangeIpAssumption DEF Knows, Early, Late, Making
  <2> QED BY <2>1, <2>2 DEF Attempts
<1>5. Queue'
  <2>1. OneWorker /\ Restarts /\ \A r \in Request : Unscheduled(r)
    BY DEF Queue
  <2>2. \A v \in Worker : v # w => task'[v] = task[v]
    BY <1>2 DEF Rests
  <2>3. OneWorker'
    <3>1. \A u, v \in Worker : task'[u] = task'[v] /\ task'[u] # None => u = v
      BY <1>2, <2>1, <2>2 DEF OneWorker
    <3>2. \A v \in Worker : task'[v] # None /\ job' = task'[v] => runner' = v
      BY <1>2, <1>3, <2>1, <2>2 DEF OneWorker
    <3>3. runner' # None => job' # None /\ task'[runner'] = job'
      BY <1>3, <2>1, <2>2, ChangeIpAssumption DEF OneWorker, TypeOK
    <3>4. job' # None => row'[job'].status # "absent"
      BY <1>2, <1>3, <2>1 DEF OneWorker, Known
    <3> QED BY <3>1, <3>2, <3>3, <3>4 DEF OneWorker, Known
  <2>4. \A r \in Request : Unscheduled(r)'
    BY <1>2, <1>3, <2>1, <2>2, ChangeIpAssumption DEF Unscheduled, Known
  <2>5. Restarts'
    BY <1>2, <1>3, <2>1, <2>2 DEF Restarts
  <2> QED BY <2>3, <2>4, <2>5 DEF Queue
<1>6. Counts'
  <2>1. SUFFICES ASSUME NEW t \in Task PROVE CountedFirst(t)' /\ InTime(t)' /\ Interrupted(t)'
    BY DEF Counts
  <2>2. CountedFirst(t) /\ InTime(t) /\ Interrupted(t)
    BY DEF Counts
  <2>3. CountedFirst(t)'
    BY <1>2, <2>2 DEF CountedFirst, Rests
  <2>4. InTime(t)'
    <3>1. \A v \in Worker : step[v] \in AtWork => v # w
      BY <1>1 DEF AtWork
    <3> QED BY <1>2, <2>2, <3>1 DEF InTime, Rests
  <2>5. Interrupted(t)'
    BY <1>2, <2>2 DEF Interrupted
  <2> QED BY <2>3, <2>4, <2>5
<1>7. Outcomes'
  <2>1. SUFFICES ASSUME NEW t \in Task PROVE Reported(t)' /\ Settled(t)'
    BY DEF Outcomes
  <2>2. Reported(t) /\ Settled(t)
    BY DEF Outcomes
  <2> QED BY <1>2, <2>2, ChangeIpAssumption DEF Reported, Settled, Alone, Known, Rests
<1> QED BY <1>4, <1>5, <1>6, <1>7

-----------------------------------------------------------------------------
(* The operator and restarts *)

\* A step that no worker takes.
LEMMA OutsideStep ==
  ASSUME IInv, TypeOK', Queue',
         \A v \in Worker : Rests(v), \A t \in Task : GoesOn(t), Addresses,
         address' \in {address, Reserved},
         told' = told, rotations' = rotations, concluded' = concluded,
         \A t \in Task : row'[t].status \in {"succeeded", "failed"} => row'[t].status = row[t].status,
         disturbances' >= disturbances
  PROVE  IInv'
<1> USE DEF IInv
<1>1. Attempts'
  BY KnowsOn DEF Attempts
<1>2. Counts'
  <2>1. SUFFICES ASSUME NEW t \in Task PROVE CountedFirst(t)' /\ InTime(t)' /\ Interrupted(t)'
    BY DEF Counts
  <2>2. CountedFirst(t) /\ InTime(t) /\ Interrupted(t)
    BY DEF Counts
  <2>3. row'[t].attempts = row[t].attempts
    BY DEF GoesOn
  <2>4. CountedFirst(t)'
    BY <2>2, <2>3 DEF CountedFirst, Rests
  <2>5. disturbances \in Nat /\ disturbances' \in Nat
    BY ChangeIpAssumption DEF TypeOK
  <2>6. InTime(t)'
    <3>1. disturbances' = 0 => disturbances = 0
      BY <2>5
    <3> QED BY <2>2, <2>3, <3>1 DEF InTime, Rests
  <2>7. Interrupted(t)'
    <3>1. disturbances > 0 => disturbances' > 0
      BY <2>5
    <3> QED BY <2>2, <2>3, <3>1 DEF Interrupted
  <2> QED BY <2>4, <2>6, <2>7
<1>3. Outcomes'
  <2>1. SUFFICES ASSUME NEW t \in Task PROVE Reported(t)' /\ Settled(t)'
    BY DEF Outcomes
  <2>2. Reported(t) /\ Settled(t)
    BY DEF Outcomes
  <2>3. Alone(t)' => Alone(t)
    BY DEF Alone, GoesOn
  <2>4. Reported(t)'
    BY <2>2 DEF Reported, GoesOn, Addresses
  <2>5. Settled(t)'
    BY <2>2, <2>3 DEF Settled, GoesOn, Rests
  <2> QED BY <2>4, <2>5
<1> QED BY <1>1, <1>2, <1>3

\* Reading, stopping, restoring and what happens outside put nothing into the queue.
LEMMA QueueLeft ==
  ASSUME IInv, \A v \in Worker : task'[v] = task[v], \A t \in Task : GoesOn(t),
         (runner' = runner /\ job' = job) \/ (runner' = None /\ job' = None),
         phase' = phase \/ phase' = "up",
         \A q \in Request : req'[q] = req[q] \/ (phase' = "up" /\ req'[q].step # "inserted")
  PROVE  Queue'
<1>1. OneWorker /\ Restarts /\ \A q \in Request : Unscheduled(q)
  BY DEF IInv, Queue
<1>2. job \in Task \cup {None} /\ runner \in Worker \cup {None}
  BY DEF IInv, TypeOK
<1>3. OneWorker'
  BY <1>1, <1>2, ChangeIpAssumption DEF IInv, TypeOK, OneWorker, GoesOn, Known
<1>4. \A q \in Request : Unscheduled(q)'
  BY <1>1, ChangeIpAssumption DEF Unscheduled, GoesOn, Known
<1>5. Restarts'
  BY <1>1 DEF Restarts
<1> QED BY <1>3, <1>4, <1>5 DEF Queue

LEMMA RowsGoOn ==
  ASSUME row' = row, revived' = revived, NEW t \in Task
  PROVE  GoesOn(t)
  BY DEF GoesOn, Known

\* Requests that only read or only speak to the scheduler, and removing a
\* configuration without tasks.
LEMMA ReadsKeep ==
  ASSUME IInv, TypeOK',
         \/ RemoveUnused
         \/ \E r \in Request : \/ ReadChange(r) \/ ApplyStop(r)
                               \/ \E k \in Kinds : ReadStop(r, k)
  PROVE  IInv'
<1> USE DEF IInv
<1>1. /\ row' = row /\ revived' = revived /\ address' = address /\ assigned' = assigned /\ told' = told
      /\ rotations' = rotations /\ concluded' = concluded /\ phase' = phase
      /\ step' = step /\ task' = task /\ seen' = seen /\ old' = old /\ tries' = tries
      /\ created' = created /\ result' = result
      /\ (runner' = runner /\ job' = job) \/ (runner' = None /\ job' = None)
  BY DEF RemoveUnused, ReadChange, ApplyStop, Unschedule, ReadStop, history, workers, rotation, scheduler
<1>2. disturbances' >= disturbances
  <2>1. disturbances' = disturbances \/ disturbances' = disturbances + 1
    BY DEF RemoveUnused, ReadChange, ApplyStop, ReadStop, Disturb
  <2>2. disturbances \in Nat
    BY ChangeIpAssumption DEF TypeOK
  <2> QED BY <2>1, <2>2
<1>3. \A q \in Request : req'[q] = req[q] \/ (phase = "up" /\ req'[q].step # "inserted")
  <2>1. CASE RemoveUnused
    BY <2>1 DEF RemoveUnused
  <2>2. ASSUME NEW r \in Request, ReadChange(r) \/ ApplyStop(r) \/ \E k \in Kinds : ReadStop(r, k)
        PROVE  phase = "up" /\ req'[r].step # "inserted" /\ \A q \in Request \ {r} : req'[q] = req[q]
    <3>1. phase = "up"
      BY <2>2 DEF ReadChange, ApplyStop, ReadStop, Queue, Restarts
    <3>2. req \in [Request -> [step : {"idle", "read", "inserted", "applied"}, kind : RequestKind,
                               task : Task \cup {None}, seen : Row]]
      BY DEF TypeOK
    <3>3. req'[r].step # "inserted" /\ \A q \in Request \ {r} : req'[q] = req[q]
      BY <2>2, <3>2 DEF ReadChange, ApplyStop, ReadStop, SetReq, Idle
    <3> QED BY <3>1, <3>3
  <2> QED BY <2>1, <2>2
<1>4. \A t \in Task : GoesOn(t)
  BY <1>1, RowsGoOn
<1>5. Queue'
  BY <1>1, <1>3, <1>4, QueueLeft
<1> QED BY <1>1, <1>2, <1>4, <1>5, OutsideStep DEF Rests, Addresses

\* change_ip commits a new row; nothing refers to it yet.
LEMMA InsertKeeps ==
  ASSUME IInv, TypeOK', NEW r \in Request, InsertChange(r)
  PROVE  IInv'
<1> USE DEF IInv
<1> DEFINE new == [NewRow EXCEPT !.status = "pending"]
<1>1. /\ revived' = revived /\ address' = address /\ assigned' = assigned /\ told' = told
      /\ rotations' = rotations /\ concluded' = concluded /\ phase' = phase /\ disturbances' = disturbances
      /\ step' = step /\ task' = task /\ seen' = seen /\ old' = old /\ tries' = tries
      /\ created' = created /\ result' = result /\ runner' = runner /\ job' = job
      /\ req[r].step # "idle"
  BY DEF InsertChange, history, workers, rotation, scheduler
<1>2. phase = "up"
  BY <1>1 DEF Queue, Restarts
<1>3. req \in [Request -> [step : {"idle", "read", "inserted", "applied"}, kind : RequestKind,
                           task : Task \cup {None}, seen : Row]]
  BY DEF TypeOK
<1>4. disturbances' >= disturbances
  BY <1>1, ChangeIpAssumption DEF TypeOK
<1>5. CASE row' = row /\ req' = [req EXCEPT ![r] = Idle]
  <2>1. \A t \in Task : GoesOn(t)
    BY <1>1, <1>5, RowsGoOn
  <2>2. \A q \in Request : req'[q] = req[q] \/ req'[q].step # "inserted"
    BY <1>3, <1>5 DEF Idle
  <2>3. Queue'
    BY <1>1, <1>2, <2>1, <2>2, QueueLeft
  <2> QED BY <1>1, <1>4, <1>5, <2>1, <2>3, OutsideStep DEF Rests, Addresses
<1>6. ASSUME NEW t \in Task, row[t].status = "absent", Saves(t, NewRow, new),
             req' = [req EXCEPT ![r] = [req[r] EXCEPT !.step = "inserted", !.task = t]]
      PROVE  IInv'
  <2>1. /\ \A u \in Task \ {t} : row'[u] = row[u]
        /\ row'[t].status = "pending" /\ row'[t].attempts = row[t].attempts
    <3>1. NewRow \in Row /\ NewRow.status = "absent" /\ row \in [Task -> Row]
      BY ChangeIpAssumption DEF NewRow, Row, TypeOK
    <3>2. new \in Row /\ new.status = "pending" /\ new.attempts = NewRow.attempts
      BY ChangeIpAssumption DEF NewRow, Row, Active
    <3> HIDE DEF new
    <3>3. Saves(t, NewRow, new)
      BY <1>6 DEF new
    <3> QED BY <3>1, <3>2, <3>3, SavedRow
  <2>2. \A u \in Task : GoesOn(u)
    BY <1>1, <1>6, <2>1 DEF GoesOn, Known, Terminal
  <2>3. job # t /\ (\A w \in Worker : task[w] # t)
        /\ \A q \in Request : req[q].step = "inserted" => req[q].task # t
    BY <1>6, ChangeIpAssumption DEF Attempts, Queue, OneWorker, Unscheduled, Knows, Known, TypeOK
  <2>4. req'[r].step = "inserted" /\ req'[r].task = t /\ \A q \in Request \ {r} : req'[q] = req[q]
    BY <1>3, <1>6
  <2>5. Queue'
    <3>1. OneWorker'
      BY <1>1, <2>2, ChangeIpAssumption DEF Queue, OneWorker, GoesOn, TypeOK, Known
    <3>2. \A q \in Request : Unscheduled(q)'
      BY <1>1, <2>1, <2>2, <2>3, <2>4 DEF Queue, Unscheduled, GoesOn, Known
    <3>3. Restarts'
      BY <1>1, <1>2 DEF Restarts
    <3> QED BY <3>1, <3>2, <3>3 DEF Queue
  <2> QED BY <1>1, <1>4, <2>1, <2>2, <2>5, OutsideStep DEF Rests, Addresses
<1> QED BY <1>5, <1>6 DEF InsertChange, SetReq

LEMMA ScheduleKeeps ==
  ASSUME IInv, TypeOK', NEW r \in Request, ScheduleChange(r)
  PROVE  IInv'
<1> USE DEF IInv
<1> DEFINE t0 == req[r].task
<1>1. /\ row' = row /\ revived' = revived /\ address' = address /\ assigned' = assigned /\ told' = told
      /\ rotations' = rotations /\ concluded' = concluded /\ phase' = phase /\ disturbances' = disturbances
      /\ step' = step /\ task' = task /\ seen' = seen /\ old' = old /\ tries' = tries
      /\ created' = created /\ result' = result
      /\ req[r].step = "inserted"
  BY DEF ScheduleChange, history, workers, rotation
<1>2. \/ job' = job /\ runner' = runner
      \/ job = None /\ job' = t0 /\ runner' = None
  BY DEF ScheduleChange, Schedule
<1>3. req'[r].step = "idle" /\ \A q \in Request \ {r} : req'[q] = req[q]
  BY DEF ScheduleChange, SetReq, Idle, TypeOK
<1>4. t0 \in Task /\ Known(t0) /\ (\A w \in Worker : task[w] # t0)
      /\ \A q \in Request \ {r} : req[q].step = "inserted" => req[q].task # t0
  BY <1>1 DEF Queue, Unscheduled
<1>5. Queue'
  <2>1. OneWorker'
    BY <1>1, <1>2, <1>4, ChangeIpAssumption DEF Queue, OneWorker, Known
  <2>2. \A q \in Request : Unscheduled(q)'
    BY <1>1, <1>2, <1>3, <1>4 DEF Queue, Unscheduled, Known
  <2>3. Restarts'
    BY <1>1 DEF Queue, Restarts
  <2> QED BY <2>1, <2>2, <2>3 DEF Queue
<1>6. disturbances' >= disturbances
  BY <1>1, ChangeIpAssumption DEF TypeOK
<1>7. \A t \in Task : GoesOn(t)
  BY <1>1, RowsGoOn
<1> QED BY <1>1, <1>5, <1>6, <1>7, OutsideStep DEF Rests, Addresses

\* A stop commits over whatever the row has become; a task that had an end keeps one.
LEMMA CommitStopKeeps ==
  ASSUME IInv, TypeOK', NEW r \in Request, CommitStop(r)
  PROVE  IInv'
<1> USE DEF IInv
<1> DEFINE t0 == req[r].task
<1>1. /\ revived' = revived /\ address' = address /\ assigned' = assigned /\ told' = told
      /\ rotations' = rotations /\ concluded' = concluded /\ phase' = phase /\ disturbances' = disturbances
      /\ step' = step /\ task' = task /\ seen' = seen /\ old' = old /\ tries' = tries
      /\ created' = created /\ result' = result /\ runner' = runner /\ job' = job
      /\ req[r].step = "applied"
  BY DEF CommitStop, history, workers, rotation, scheduler
<1>2. \A t \in Task : row'[t] = row[t] \/ (row'[t].status \in {row[t].status, "cancelled"}
                                           /\ row'[t].attempts = row[t].attempts)
  <2>1. CASE t0 \in Task
    <3>1. req[r].seen \in Row /\ "cancelled" \in Active \cup Terminal /\ row \in [Task -> Row]
      BY DEF TypeOK, Terminal
    <3>2. Saves(t0, req[r].seen, [req[r].seen EXCEPT !.status = "cancelled"])
      BY DEF CommitStop
    <3> QED BY <2>1, <3>1, <3>2, StatusSaved
  <2>2. CASE t0 \notin Task
    BY <2>2 DEF CommitStop, Saves, Updated, TypeOK
  <2> QED BY <2>1, <2>2
<1>3. \A t \in Task : GoesOn(t) /\ (row'[t].status \in {"succeeded", "failed"} => row'[t].status = row[t].status)
  BY <1>1, <1>2 DEF GoesOn, Known, Terminal
<1>4. phase = "up" /\ \A q \in Request : req'[q] = req[q] \/ req'[q].step # "inserted"
  <2>1. \A q \in Request : req'[q] = req[q] \/ req'[q].step # "inserted"
    BY DEF CommitStop, SetReq, Idle, TypeOK
  <2> QED BY <1>1, <2>1 DEF Queue, Restarts
<1>5. Queue'
  BY <1>1, <1>3, <1>4, QueueLeft
<1>6. disturbances' >= disturbances
  BY <1>1, ChangeIpAssumption DEF TypeOK
<1> QED BY <1>1, <1>3, <1>5, <1>6, OutsideStep DEF Rests, Addresses

LEMMA AttachKeeps ==
  ASSUME IInv, TypeOK', Attach
  PROVE  IInv'
<1> USE DEF IInv
<1>1. /\ row' = row /\ revived' = revived /\ told' = told
      /\ rotations' = rotations /\ concluded' = concluded /\ phase' = phase /\ req' = req
      /\ step' = step /\ task' = task /\ seen' = seen /\ old' = old /\ tries' = tries
      /\ created' = created /\ result' = result /\ runner' = runner /\ job' = job
      /\ address' = Reserved
  BY DEF Attach, workers, rotation, scheduler
<1>2. Addresses
  BY <1>1 DEF Attach, Addresses, Known, TypeOK
<1>3. disturbances' >= disturbances
  BY ChangeIpAssumption DEF Attach, Disturb, TypeOK
<1>4. \A t \in Task : GoesOn(t)
  BY <1>1, RowsGoOn
<1>5. Queue'
  BY <1>1, <1>4, QueueLeft
<1> QED BY <1>1, <1>2, <1>3, <1>4, <1>5, OutsideStep DEF Rests

LEMMA CrashKeeps ==
  ASSUME IInv, TypeOK', Crash
  PROVE  IInv'
<1> USE DEF IInv
<1>1. /\ row' = row /\ revived' = revived /\ told' = told /\ assigned' = assigned /\ address' = address
      /\ rotations' = rotations /\ concluded' = concluded
      /\ phase' = "down" /\ job' = None /\ runner' = None
      /\ \A w \in Worker : /\ step'[w] = "idle" /\ task'[w] = None /\ created'[w] = None
                           /\ result'[w] = None /\ tries'[w] = 0
      /\ \A q \in Request : req'[q].step = "idle"
  BY DEF Crash, history, Idle
<1>2. disturbances' > 0
  BY ChangeIpAssumption DEF Crash, Disturb, TypeOK
<1>3. Attempts'
  BY <1>1, ChangeIpAssumption DEF Attempts, Knows, Early, Late, Making
<1>4. Queue'
  BY <1>1 DEF Queue, OneWorker, Unscheduled, Restarts
<1>5. Counts'
  BY <1>1, <1>2 DEF Counts, CountedFirst, InTime, Interrupted
<1>6. Outcomes'
  <2>1. \A w \in Worker : result'[w] \notin Address
    BY <1>1, ChangeIpAssumption
  <2>2. \A w \in Worker, t \in Task : task'[w] # t
    BY <1>1, ChangeIpAssumption
  <2>3. SUFFICES ASSUME NEW t \in Task PROVE Reported(t)' /\ Settled(t)'
    BY DEF Outcomes
  <2>4. Reported(t) /\ Settled(t)
    BY DEF Outcomes
  <2> QED BY <1>1, <2>1, <2>2, <2>4 DEF Reported, Settled, Alone, Known
<1> QED BY <1>3, <1>4, <1>5, <1>6

LEMMA RestoreKeeps ==
  ASSUME IInv, TypeOK', Restore
  PROVE  IInv'
<1> USE DEF IInv
<1>1. /\ row' = row /\ revived' = revived /\ address' = address /\ assigned' = assigned /\ told' = told
      /\ rotations' = rotations /\ concluded' = concluded /\ disturbances' = disturbances
      /\ step' = step /\ task' = task /\ seen' = seen /\ old' = old /\ tries' = tries
      /\ created' = created /\ result' = result /\ req' = req
      /\ phase = "down" /\ phase' = "restoring"
  BY DEF Restore, history, workers, rotation
<1>2. job = None /\ (\A w \in Worker : task[w] = None) /\ \A q \in Request : req[q].step = "idle"
  BY <1>1 DEF Queue, Restarts
<1>3. /\ job' # None => job' \in Task /\ Known(job')
      /\ runner' = None
  <2>1. runner = None
    BY <1>2 DEF Queue, OneWorker
  <2>2. \/ job' = job /\ runner' = runner
        \/ \E t \in Task : row[t].status \in {"pending", "running"} /\ job' = t /\ runner' = None
    BY <1>2 DEF Restore, Schedule, scheduler
  <2> QED BY <1>2, <2>1, <2>2 DEF Known
<1>4. Queue'
  BY <1>1, <1>2, <1>3, ChangeIpAssumption DEF Queue, OneWorker, Unscheduled, Restarts, Known
<1>5. disturbances' >= disturbances
  BY <1>1, ChangeIpAssumption DEF TypeOK
<1>6. \A t \in Task : GoesOn(t)
  BY <1>1, RowsGoOn
<1> QED BY <1>1, <1>4, <1>5, <1>6, OutsideStep DEF Rests, Addresses

\* A row is overwritten with "pending"; if it had an end, its task is revived.
LEMMA CommitRestoredKeeps ==
  ASSUME IInv, TypeOK', CommitRestored
  PROVE  IInv'
<1> USE DEF IInv
<1>1. /\ address' = address /\ assigned' = assigned /\ told' = told
      /\ rotations' = rotations /\ concluded' = concluded /\ disturbances' = disturbances
      /\ step' = step /\ task' = task /\ seen' = seen /\ old' = old /\ tries' = tries
      /\ created' = created /\ result' = result /\ req' = req /\ runner' = runner /\ job' = job
      /\ phase' = "up"
  BY DEF CommitRestored, workers, rotation, scheduler
<1>2. ASSUME NEW t \in Task
      PROVE  GoesOn(t) /\ (row'[t].status \in {"succeeded", "failed"} => row'[t].status = row[t].status)
  <2>1. CASE restored[t].status = "running"
    <3>1. row'[t] = Merge(restored[t], [restored[t] EXCEPT !.status = "pending"], row[t])
      BY <2>1 DEF CommitRestored
    <3>2. row'[t].status = "pending" /\ row'[t].attempts = row[t].attempts
      BY <2>1, <3>1 DEF Merge, TypeOK, Row
    <3>3. /\ row[t].status \in Terminal => t \in revived'
          /\ t \in revived => t \in revived'
      BY <2>1 DEF CommitRestored
    <3> QED BY <3>2, <3>3 DEF GoesOn, Known
  <2>2. CASE restored[t].status # "running"
    BY <2>2 DEF CommitRestored, GoesOn, Known
  <2> QED BY <2>1, <2>2
<1>3. Queue'
  BY <1>1, <1>2, QueueLeft
<1>4. disturbances' >= disturbances
  BY <1>1, ChangeIpAssumption DEF TypeOK
<1> QED BY <1>1, <1>2, <1>3, <1>4, OutsideStep DEF Rests, Addresses

-----------------------------------------------------------------------------
(* The theorems *)

LEMMA InvInit == Init => IInv
<1> SUFFICES ASSUME Init PROVE IInv
  OBVIOUS
<1> USE ChangeIpAssumption
<1>1. TypeOK
  BY DEF Init, TypeOK, NewRow, Row, Idle, RequestKind, Step, Result
<1>2. Attempts
  BY DEF Init, Attempts, Knows, Early, Late, Making
<1>3. Queue
  BY DEF Init, Queue, OneWorker, Unscheduled, Restarts, Idle
<1>4. Counts
  BY DEF Init, Counts, CountedFirst, InTime, Interrupted, NewRow
<1>5. Outcomes
  BY DEF Init, Outcomes, Reported, Settled, NewRow
<1> QED BY <1>1, <1>2, <1>3, <1>4, <1>5 DEF IInv

LEMMA InvStep == IInv /\ [Next]_vars => IInv'
<1> SUFFICES ASSUME IInv, [Next]_vars PROVE IInv'
  OBVIOUS
<1>1. CASE Next
  <2>1. TypeOK'
    BY <1>1, TypesKept
  <2>2. ASSUME NEW w \in Worker, Dispatch(w) \/ Execute(w) PROVE IInv'
    BY <2>1, <2>2, DispatchKeeps, FetchKeeps, GiveUpKeeps, FindUserKeeps, PrepareKeeps, CheckKeeps,
       ReadAddressKeeps, DeleteKeeps, CreateKeeps, ReconcileKeeps, RefetchKeeps, RecordKeeps,
       CompleteKeeps DEF Execute
  <2>3. ASSUME NEW r \in Request, InsertChange(r) \/ ScheduleChange(r) \/ CommitStop(r) PROVE IInv'
    BY <2>1, <2>3, InsertKeeps, ScheduleKeeps, CommitStopKeeps
  <2> QED BY <1>1, <2>1, <2>2, <2>3, ReadsKeep, AttachKeeps, CrashKeeps, RestoreKeeps,
             CommitRestoredKeeps DEF Next
<1>2. CASE UNCHANGED vars
  BY <1>2 DEF vars, scheduler, workers, rotation, history, IInv, TypeOK, Attempts, Knows, Known, Queue,
     OneWorker, Unscheduled, Restarts, Counts, CountedFirst, InTime, Interrupted, Outcomes, Reported,
     Settled, Alone
<1> QED BY <1>1, <1>2

LEMMA Invariance == Spec => []IInv
  BY InvInit, InvStep, PTL DEF Spec

\* An attempt that reaches OCI was counted before, there are never more of them than
\* max_attempts, and a task fails because of a result or of a crash in its last attempt.
THEOREM AttemptsAreCounted == Spec => []RotationInv
<1>1. IInv => RotationInv
  <2> SUFFICES ASSUME IInv PROVE RotationInv
    OBVIOUS
  <2>1. TypeOK /\ \A t \in Task : CountedFirst(t) /\ Interrupted(t)
    BY DEF IInv, Counts
  <2> QED BY <2>1 DEF RotationInv, AttemptsBudget, InterruptedResumed, CountedFirst, Interrupted
<1> QED BY <1>1, Invariance, PTL

\* What a task reports is the success it recorded, an address within its CIDRs that the
\* instance was given during the task, whatever was stopped, repeated or reconciled.
THEOREM ReportsAreTrue == Spec => []ReportsTrue
<1>1. IInv => ReportsTrue
  BY DEF IInv, Outcomes, Reported, ReportsTrue
<1> QED BY <1>1, Invariance, PTL

\* The address an instance's only task has reported stays, unless the operator attaches
\* the reserved one or a restart revives the task.
THEOREM SuccessesStand == Spec => []SuccessStands
<1>1. IInv => SuccessStands
  <2> SUFFICES ASSUME IInv, NEW t \in Task \ revived, row[t].status = "succeeded",
                      \A u \in Task \ {t} : row[u].status = "absent"
               PROVE  address \in {told[t], Reserved}
    BY DEF SuccessStands
  <2>1. Reported(t) /\ Settled(t) /\ Alone(t)
    BY DEF IInv, Outcomes, Alone, Known
  <2> QED BY <2>1 DEF Reported, Settled
<1> QED BY <1>1, Invariance, PTL

\* No step takes the reserved address off: a worker creates an address only when there is
\* none, and deletes the one it read only if that one was not reserved.
THEOREM ReservedIsKept == Spec => ReservedKept
<1>1. IInv /\ [Next]_vars => (address = Reserved => address' = Reserved)
  <2> SUFFICES ASSUME IInv, Next \/ UNCHANGED vars, address = Reserved PROVE address' = Reserved
    OBVIOUS
  <2>1. \A w \in Worker : step[w] = "deleting" => old[w] # Reserved
    BY ChangeIpAssumption DEF IInv, Attempts, Knows
  <2>2. ASSUME NEW w \in Worker, Dispatch(w) \/ Execute(w) PROVE address' = address
    <3>1. CASE Delete(w)
      BY <2>1, <3>1 DEF Delete
    <3>2. CASE Create(w)
      BY <3>2, ChangeIpAssumption DEF Create, Address
    <3> QED BY <2>2, <3>1, <3>2 DEF Execute, Dispatch, Fetch, GiveUp, FindUser, Prepare, Check, ReadAddress,
               Reconcile, Refetch, Record, Complete
  <2>3. ASSUME NEW r \in Request, \/ ReadChange(r) \/ InsertChange(r) \/ ScheduleChange(r)
                                  \/ ApplyStop(r) \/ CommitStop(r) \/ \E k \in Kinds : ReadStop(r, k)
        PROVE  address' = address
    BY <2>3 DEF ReadChange, InsertChange, ScheduleChange, ApplyStop, CommitStop, ReadStop
  <2>4. CASE RemoveUnused \/ Attach \/ Crash \/ Restore \/ CommitRestored
    BY <2>4 DEF RemoveUnused, Attach, Crash, Restore, CommitRestored
  <2>5. CASE UNCHANGED vars
    BY <2>5 DEF vars
  <2> QED BY <2>2, <2>3, <2>4, <2>5 DEF Next
<1>2. IInv /\ [Next]_vars => [address = Reserved => address' = Reserved]_vars
  BY <1>1
<1> QED BY <1>2, Invariance, PTL DEF Spec, ReservedKept

-----------------------------------------------------------------------------
(* The scheduler *)

AtSchedule == <<Registered, Runner, Busy>>

\* Steps that it does not see: a worker's between its dispatch and its completion, the
\* requests' own and the operator's.
LEMMA Unseen ==
  ASSUME UNCHANGED <<job, runner, task>>
  PROVE  UNCHANGED AtSchedule
  BY DEF AtSchedule, Registered, Runner, Busy

LEMMA WorksUnseen ==
  ASSUME NEW w \in Worker, Execute(w), ~Complete(w)
  PROVE  UNCHANGED <<job, runner, task>>
  BY DEF Execute, Fetch, GiveUp, FindUser, Prepare, Check, ReadAddress, Delete, Create, Reconcile,
     Refetch, Record, scheduler

LEMMA ScheduledAsPromised ==
  ASSUME IInv, NEW t \in Task, Schedule(t), UNCHANGED task
  PROVE  Scheduler!Schedule(Key \ Registered, {})
<1>1. job = None => runner = None
  BY DEF IInv, Queue, OneWorker
<1>2. Registered' = Key /\ Runner' = Runner /\ Busy' = Busy
  BY <1>1, ChangeIpAssumption DEF Schedule, Registered, Runner, Busy
<1> QED BY <1>2 DEF Scheduler!Schedule, Registered

LEMMA UnscheduledAsPromised ==
  ASSUME Unschedule
  PROVE  Scheduler!Leave(Key)
  BY DEF Unschedule, Scheduler!Leave, Registered, Runner

\* The pool has a worker for an attempt that begins.
LEMMA OneIsFree ==
  ASSUME NEW w \in Worker, Busy[w] = "none"
  PROVE  Cardinality({d \in Worker : Busy[d] # "none"}) < Cardinality(Worker)
<1> DEFINE B == {d \in Worker : Busy[d] # "none"}
<1>1. IsFiniteSet(Worker) /\ IsFiniteSet(B) /\ B \subseteq Worker /\ B # Worker
  BY ChangeIpAssumption, FS_Subset
<1>2. Cardinality(B) <= Cardinality(Worker) /\ Cardinality(B) # Cardinality(Worker)
  BY <1>1, FS_Subset
<1>3. Cardinality(B) \in Nat /\ Cardinality(Worker) \in Nat
  BY <1>1, FS_CardinalityType
<1> QED BY <1>2, <1>3

LEMMA DispatchedAsPromised ==
  ASSUME IInv, NEW w \in Worker, Dispatch(w)
  PROVE  Scheduler!Dispatch(w, "instance")
<1>1. /\ job # None /\ job' = job /\ runner = None /\ runner' = w
      /\ step[w] = "idle" /\ task' = [task EXCEPT ![w] = job]
  BY DEF Dispatch
<1>2. task[w] = None /\ task \in [Worker -> Task \cup {None}]
  BY <1>1 DEF IInv, TypeOK, Attempts, Knows
<1>3. "instance" \in Registered \ {} /\ Registered' = Registered /\ Runner["instance"] = None
  BY <1>1 DEF Registered, Runner, Key
<1>4. Runner' = [Runner EXCEPT !["instance"] = w]
  BY <1>1 DEF Runner, Key
<1>5. Busy[w] = "none" /\ Busy' = [Busy EXCEPT ![w] = "instance"]
  BY <1>1, <1>2 DEF Busy
<1>6. Scheduler!Cardinality({d \in Worker : Busy[d] # "none"})
        = Cardinality({d \in Worker : Busy[d] # "none"})
  BY DEF Scheduler!Cardinality, Cardinality
<1> QED BY <1>3, <1>4, <1>5, <1>6, OneIsFree DEF Scheduler!Dispatch

LEMMA CompletedAsPromised ==
  ASSUME IInv, NEW w \in Worker, Complete(w)
  PROVE  Scheduler!Complete(w)
<1>1. step[w] # "idle" /\ task' = [task EXCEPT ![w] = None]
  BY DEF Complete
<1>2. task[w] # None /\ task \in [Worker -> Task \cup {None}]
  BY <1>1 DEF IInv, TypeOK, Attempts, Knows
<1>3. Busy[w] = "instance" /\ Busy' = [Busy EXCEPT ![w] = "none"]
  BY <1>1, <1>2 DEF Busy
<1>4. "instance" \in Key /\ Key = {"instance"} /\ Runner["instance"] = runner
  BY DEF Key, Runner
<1>5. CASE runner # w
  <2>1. Registered' = Registered /\ Runner' = Runner
    BY <1>5 DEF Complete, scheduler, Registered, Runner
  <2> QED BY <1>3, <1>4, <1>5, <2>1 DEF Scheduler!Complete
<1>6. CASE runner = w /\ step[w] = "done"
  <2>1. Scheduler!Leave({"instance"})
    BY <1>4, <1>6, UnscheduledAsPromised DEF Complete
  <2> QED BY <1>3, <1>4, <1>6, <2>1 DEF Scheduler!Complete
<1>7. CASE runner = w /\ step[w] # "done"
  <2>1. Registered' = Registered /\ Runner' = [Runner EXCEPT !["instance"] = None]
    BY <1>7 DEF Complete, Registered, Runner, Key
  <2> QED BY <1>3, <1>4, <1>7, <2>1 DEF Scheduler!Complete
<1> QED BY <1>5, <1>6, <1>7

LEMMA StepAsPromised ==
  ASSUME IInv, [Next]_vars
  PROVE  Scheduler!Next \/ Scheduler!Crash \/ UNCHANGED AtSchedule
<1>1. ASSUME NEW w \in Worker, Dispatch(w) PROVE Scheduler!Next
  BY <1>1, DispatchedAsPromised DEF Scheduler!Next, Key
<1>2. ASSUME NEW w \in Worker, Execute(w) PROVE Scheduler!Next \/ UNCHANGED AtSchedule
  <2>1. CASE Complete(w)
    BY <2>1, CompletedAsPromised DEF Scheduler!Next
  <2>2. CASE ~Complete(w)
    BY <1>2, <2>2, WorksUnseen, Unseen
  <2> QED BY <2>1, <2>2
<1>3. ASSUME NEW r \in Request, ScheduleChange(r) PROVE Scheduler!Next
  <2>1. req[r].task \in Task
    BY <1>3 DEF ScheduleChange, IInv, Queue, Unscheduled
  <2>2. Scheduler!Schedule(Key \ Registered, {})
    BY <1>3, <2>1, ScheduledAsPromised DEF ScheduleChange, workers
  <2> QED BY <2>2 DEF Scheduler!Next
<1>4. ASSUME NEW r \in Request, ApplyStop(r) PROVE Scheduler!Next
  <2>1. Busy' = Busy
    BY <1>4 DEF ApplyStop, workers, Busy
  <2>2. Scheduler!Unschedule(Key)
    BY <1>4, <2>1, UnscheduledAsPromised DEF ApplyStop, Scheduler!Unschedule
  <2> QED BY <2>2 DEF Scheduler!Next
<1>5. CASE Restore
  <2>1. UNCHANGED task
    BY <1>5 DEF Restore, workers
  <2>2. CASE UNCHANGED scheduler
    BY <2>1, <2>2, Unseen DEF scheduler
  <2>3. CASE \E t \in Task : Schedule(t)
    BY <2>1, <2>3, ScheduledAsPromised DEF Scheduler!Next
  <2> QED BY <1>5, <2>2, <2>3 DEF Restore
<1>6. CASE Crash
  BY <1>6 DEF Crash, Scheduler!Crash, Registered, Runner, Busy
<1>7. CASE \/ \E r \in Request : \/ ReadChange(r) \/ InsertChange(r) \/ CommitStop(r)
                                 \/ \E k \in Kinds : ReadStop(r, k)
           \/ RemoveUnused \/ Attach \/ CommitRestored \/ UNCHANGED vars
  <2>1. UNCHANGED <<job, runner, task>>
    BY <1>7 DEF ReadChange, InsertChange, CommitStop, ReadStop, RemoveUnused, Attach, CommitRestored,
       vars, scheduler, workers
  <2> QED BY <2>1, Unseen
<1> QED BY <1>1, <1>2, <1>3, <1>4, <1>5, <1>6, <1>7 DEF Next

\* For any tasks, workers, requests and crashes, the job of the instance is scheduled and
\* executed only as SchedulerPromise says, which TaskScheduler keeps.
THEOREM RotationsKeepToScheduler == Spec => KeepsToScheduler
<1>1. Init => Scheduler!Init
  BY DEF Init, Scheduler!Init, Registered, Runner, Busy
<1>2. IInv /\ [Next]_vars => [Scheduler!Next \/ Scheduler!Crash]_(Scheduler!vars)
  BY StepAsPromised DEF Scheduler!vars, AtSchedule
<1> QED BY InvInit, InvStep, <1>1, <1>2, PTL DEF Spec, KeepsToScheduler, Scheduler!SpecWithCrashes
=============================================================================
