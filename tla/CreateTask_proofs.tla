-------------------------- MODULE CreateTask_proofs --------------------------
(* Proofs about CreateTask: an execution has its task to itself, and with it the count of   *)
(* the attempts, for any number of tasks, workers, requests and crashes.                     *)
EXTENDS CreateTask, FiniteSetTheorems, TLAPS

(* The worker of a registered task is its runner, and one whose task was stopped has none:  *)
(* scheduling it again is what makes it a doubled one.                                       *)
Exclusive ==
  /\ OneExecution
  /\ \A w \in Worker : step[w] # "idle" => task[w] \in Task
  /\ \A w \in Worker : AtWork(w) /\ task[w] \notin doubled =>
       task[w] \notin registered \/ runner[task[w]] = w
  /\ phase = "down" => \A w \in Worker : step[w] = "idle"
  /\ \A r \in Request : req[r].step # "idle" => req[r].task \in Task

(* What an execution has read of the count is still so when it writes it, and an attempt    *)
(* is counted before its call.                                                               *)
Counted ==
  /\ AttemptsBudget
  /\ \A w \in Worker : step[w] \in {"fetched", "preparing"} /\ task[w] \notin doubled =>
       seen[w].attempts = row[task[w]].attempts
  /\ \A w \in Worker : step[w] = "preparing" => ~Exhausted(seen[w])
  /\ \A w \in Worker : step[w] = "launching" /\ task[w] \notin doubled =>
       calls[task[w]] < row[task[w]].attempts

IInv == TypeOK /\ Exclusive /\ Counted

-----------------------------------------------------------------------------
LEMMA NewRowType == NewRow \in Row /\ NoPlace \in Place
  BY CreateTaskAssumption DEF NewRow, Row, NoPlace, Place, Active

LEMMA InvInit == Init => IInv
<1> SUFFICES ASSUME Init PROVE IInv
  OBVIOUS
<1>1. [step |-> "idle", kind |-> "stop", task |-> NoTask, seen |-> NewRow]
        \in [step : {"idle", "read", "applied"}, kind : RequestKind, task : Task \cup {NoTask}, seen : Row]
  BY NewRowType DEF RequestKind
<1>2. TypeOK
  BY <1>1, NewRowType, CreateTaskAssumption DEF Init, TypeOK, Idle, Step, Outcome
<1>3. Exclusive
  BY DEF Init, Exclusive, OneExecution, AtWork, Idle
<1>4. Counted
  BY CreateTaskAssumption DEF Init, Counted, AttemptsBudget, NewRow
<1> QED BY <1>2, <1>3, <1>4 DEF IInv

LEMMA StatusType ==
  ASSUME NEW r \in Row, NEW s \in Active \cup Terminal
  PROVE  /\ [r EXCEPT !.status = s] \in Row
         /\ [r EXCEPT !.status = s].attempts = r.attempts
         /\ [r EXCEPT !.status = s].domain = r.domain
         /\ [r EXCEPT !.status = s].remaining = r.remaining
  BY DEF Row

LEMMA MergeType ==
  ASSUME NEW old \in Row, NEW new \in Row, NEW now \in Row
  PROVE  /\ Merge(old, new, now) \in Row
         /\ new.attempts = old.attempts => Merge(old, new, now).attempts = now.attempts
         /\ new.attempts # old.attempts => Merge(old, new, now).attempts = new.attempts
  BY DEF Merge, Row

(* A session that does not change the count leaves it alone, whatever it has read. *)
LEMMA SessionKeeps ==
  ASSUME TypeOK, NEW t \in Task, NEW old \in Row, NEW new \in Row,
         Saves(t, old, new) \/ Conflicts(t, old, new)
  PROVE  /\ row' \in [Task -> Row]
         /\ \A u \in Task \ {t} : row'[u] = row[u]
         /\ new.attempts = old.attempts => \A u \in Task : row'[u].attempts = row[u].attempts
<1>1. Merge(old, new, row[t]) \in Row
      /\ (new.attempts = old.attempts => Merge(old, new, row[t]).attempts = row[t].attempts)
  BY MergeType DEF TypeOK
<1> QED BY <1>1 DEF Saves, Conflicts, Updated, TypeOK

LEMMA ScheduleType ==
  ASSUME TypeOK, NEW S \in SUBSET Task, Schedule(S)
  PROVE  /\ registered' \in SUBSET Task /\ held' \in SUBSET Task /\ doubled' \in SUBSET Task
         /\ runner' \in [Task -> Worker \cup {NoWorker}]
  BY DEF TypeOK, Schedule

LEMMA UnscheduleType ==
  ASSUME TypeOK, NEW t \in Task, Unschedule(t)
  PROVE  /\ registered' \in SUBSET Task /\ held' \in SUBSET Task /\ doubled' \in SUBSET Task
         /\ runner' \in [Task -> Worker \cup {NoWorker}]
  BY DEF TypeOK, Unschedule

LEMMA RecordedType ==
  ASSUME NEW r \in Row, NEW o \in Outcome
  PROVE  Recorded(r, o) \in Row /\ Recorded(r, o).attempts = r.attempts
<1>1. Left(r, o) \in 0..Requested
  BY CreateTaskAssumption DEF Left, Row
<1> DEFINE counted == [r EXCEPT !.remaining = Left(r, o)]
           rotated == [counted EXCEPT !.domain =
                         IF Rotating /\ o \in {"success", "capacity"} THEN @ + 1 ELSE @]
<1>2. counted \in Row /\ counted.attempts = r.attempts
  BY <1>1 DEF Row
<1>3. rotated \in Row /\ rotated.attempts = r.attempts
  <2> DEFINE d == IF Rotating /\ o \in {"success", "capacity"} THEN counted.domain + 1
                  ELSE counted.domain
  <2>1. d \in Nat /\ rotated = [counted EXCEPT !.domain = d]
    BY <1>2 DEF Row
  <2> HIDE DEF d, counted
  <2> QED BY <1>2, <2>1 DEF Row
<1> HIDE DEF counted, rotated
<1>4. \A s \in Active \cup Terminal :
        /\ [rotated EXCEPT !.status = s] \in Row
        /\ [rotated EXCEPT !.status = s].attempts = r.attempts
  BY <1>3, StatusType
<1>5. /\ [rotated EXCEPT !.status = "paused", !.paused = TRUE] \in Row
      /\ [rotated EXCEPT !.status = "paused", !.paused = TRUE].attempts = r.attempts
  <2> DEFINE p == [rotated EXCEPT !.status = "paused"]
  <2>1. p \in Row /\ p.attempts = r.attempts
    BY <1>4 DEF Active
  <2>2. [rotated EXCEPT !.status = "paused", !.paused = TRUE] = [p EXCEPT !.paused = TRUE]
    OBVIOUS
  <2> HIDE DEF p
  <2>3. [p EXCEPT !.paused = TRUE] \in Row /\ [p EXCEPT !.paused = TRUE].attempts = p.attempts
    BY <2>1 DEF Row
  <2> QED BY <2>1, <2>2, <2>3
<1>6. Recorded(r, o) =
        IF r.status = "cancelled" THEN counted
        ELSE IF rotated.remaining = 0 THEN [rotated EXCEPT !.status = "succeeded"]
        ELSE IF o = "refused" \/ Exhausted(r) THEN [rotated EXCEPT !.status = "failed"]
        ELSE IF r.paused \/ r.status = "paused"
             THEN [rotated EXCEPT !.status = "paused", !.paused = TRUE]
        ELSE [rotated EXCEPT !.status = "pending"]
  BY DEF Recorded, counted, rotated
<1>7. {"succeeded", "failed", "pending"} \subseteq Active \cup Terminal
  BY DEF Active, Terminal
<1>8. Recorded(r, o) \in {counted, [rotated EXCEPT !.status = "succeeded"],
                          [rotated EXCEPT !.status = "failed"],
                          [rotated EXCEPT !.status = "paused", !.paused = TRUE],
                          [rotated EXCEPT !.status = "pending"]}
  BY <1>6, Zenon
<1> QED BY <1>2, <1>4, <1>5, <1>7, <1>8

LEMMA WantedType ==
  ASSUME NEW k \in RequestKind, NEW r \in Row
  PROVE  Wanted(k, r) \in Row /\ Wanted(k, r).attempts = r.attempts
  BY DEF Wanted, Row, RequestKind, Active, Terminal

-----------------------------------------------------------------------------
(* A step of the worker w that keeps its task and every count. *)
LEMMA WorkerStep ==
  ASSUME IInv, TypeOK', NEW w \in Worker, step[w] # "idle",
         \A u \in Worker \ {w} : step'[u] = step[u] /\ seen'[u] = seen[u],
         step'[w] # "idle", AtWork(w)' => AtWork(w),
         UNCHANGED <<task, scheduler, req, phase, calls>>,
         \A t \in Task : row'[t].attempts = row[t].attempts,
         step'[w] \in {"fetched", "preparing"} /\ task[w] \notin doubled =>
           seen'[w].attempts = row[task[w]].attempts,
         step'[w] = "preparing" => ~Exhausted(seen'[w]),
         step'[w] # "launching"
  PROVE  IInv'
<1>1. Exclusive'
  BY DEF IInv, Exclusive, OneExecution, AtWork, scheduler
<1>2. AttemptsBudget'
  BY DEF IInv, Counted, AttemptsBudget, scheduler
<1>3. \A u \in Worker : step[u] # "idle" => row'[task[u]].attempts = row[task[u]].attempts
  BY DEF IInv, Exclusive
<1>4. Counted'
  BY <1>2, <1>3 DEF IInv, Counted, Exhausted, scheduler
<1> QED BY <1>1, <1>4 DEF IInv

(* A step that leaves the workers and what they have read alone. *)
LEMMA OtherStep ==
  ASSUME IInv, TypeOK', UNCHANGED <<workers, calls>>,
         \A t \in Task : row'[t].attempts = row[t].attempts,
         doubled \subseteq doubled',
         Exclusive'
  PROVE  IInv'
<1>1. Counted'
  BY DEF IInv, TypeOK, Exclusive, Counted, AttemptsBudget, Exhausted, workers
<1> QED BY <1>1 DEF IInv

(* Scheduling a task that somebody is still executing makes it a doubled one. *)
LEMMA ScheduleKeepsExclusive ==
  ASSUME IInv, NEW S \in SUBSET Task, Schedule(S), UNCHANGED <<step, task>>,
         phase' = "down" => phase = "down",
         \A r \in Request : req'[r].step # "idle" => req'[r].task \in Task
  PROVE  Exclusive' /\ doubled \subseteq doubled'
  BY DEF IInv, TypeOK, Exclusive, OneExecution, AtWork, Schedule

LEMMA UnscheduleKeepsExclusive ==
  ASSUME IInv, NEW t \in Task, Unschedule(t), UNCHANGED <<step, task>>,
         phase' = "down" => phase = "down",
         \A r \in Request : req'[r].step # "idle" => req'[r].task \in Task
  PROVE  Exclusive' /\ doubled \subseteq doubled'
  BY DEF IInv, TypeOK, Exclusive, OneExecution, AtWork, Unschedule

-----------------------------------------------------------------------------
LEMMA WorkerInv ==
  ASSUME IInv, NEW w \in Worker,
         \/ \E t \in Task : Dispatch(w, t)
         \/ Execute(w)
  PROVE  IInv'
<1> USE DEF MoveTo
<1>0. step[w] # "idle" => task[w] \in Task /\ row[task[w]] \in Row
  BY DEF IInv, Exclusive, TypeOK
<1>1. ASSUME NEW t \in Task, Dispatch(w, t) PROVE IInv'
  <2>1. TypeOK'
    BY <1>1 DEF Dispatch, IInv, TypeOK, Step, cloud
  <2>2. /\ step'[w] = "starting" /\ task'[w] = t /\ runner'[t] = w /\ step[w] = "idle"
        /\ t \in registered /\ runner[t] = NoWorker
        /\ \A u \in Worker \ {w} : step'[u] = step[u] /\ task'[u] = task[u]
        /\ \A u \in Task \ {t} : runner'[u] = runner[u]
        /\ phase # "down"
        /\ UNCHANGED <<row, phase, registered, doubled, seen, req, calls>>
    BY <1>1 DEF Dispatch, IInv, TypeOK, cloud
  <2>3. \A u \in Worker : AtWork(u) /\ task[u] = t => t \in doubled
    BY <2>2, CreateTaskAssumption DEF IInv, Exclusive
  <2>4. Exclusive'
    BY <2>2, <2>3 DEF IInv, Exclusive, OneExecution, AtWork
  <2>5. Counted'
    BY <2>2 DEF IInv, Counted, AttemptsBudget, Exhausted
  <2> QED BY <2>1, <2>4, <2>5 DEF IInv
<1>2. ASSUME Complete(w) PROVE IInv'
  <2>1. task[w] \in Task /\ step[w] \in {"done", "retry"}
    BY <1>0, <1>2 DEF Complete
  <2>2. /\ step'[w] = "idle" /\ UNCHANGED <<row, seen, req, phase, calls, doubled>>
        /\ \A u \in Worker \ {w} : step'[u] = step[u] /\ task'[u] = task[u]
    BY <1>2, <2>1 DEF Complete, IInv, TypeOK, cloud, scheduler, Unschedule
  <2>3. /\ registered' \in SUBSET Task /\ held' \in SUBSET Task /\ doubled' \in SUBSET Task
        /\ runner' \in [Task -> Worker \cup {NoWorker}]
    BY <1>2, <2>1 DEF Complete, IInv, TypeOK, scheduler, Unschedule
  <2>4. TypeOK'
    BY <1>2, <2>3, NewRowType DEF Complete, IInv, TypeOK, Step, cloud
  <2>5. \A u \in Worker \ {w} : AtWork(u) /\ task[u] \notin doubled =>
          task[u] \notin registered' \/ runner'[task[u]] = u
    <3>1. CASE runner[task[w]] = w
      <4>1. /\ registered' \subseteq registered
            /\ \A t \in Task \ {task[w]} : runner'[t] = runner[t]
        BY <1>2, <2>1, <3>1 DEF Complete, IInv, TypeOK, Unschedule
      <4>2. \A u \in Worker \ {w} : AtWork(u) /\ task[u] \notin doubled /\ task[u] = task[w] =>
              task[u] \notin registered
        BY <3>1 DEF IInv, Exclusive
      <4>3. \A u \in Worker : AtWork(u) => task[u] \in Task
        BY DEF IInv, Exclusive, AtWork
      <4> QED BY <4>1, <4>2, <4>3 DEF IInv, Exclusive
    <3>2. CASE runner[task[w]] # w
      BY <1>2, <3>2 DEF Complete, scheduler, IInv, Exclusive
    <3> QED BY <3>1, <3>2
  <2>6. Exclusive'
    BY <2>2, <2>5 DEF IInv, Exclusive, OneExecution, AtWork
  <2>7. Counted'
    BY <2>2 DEF IInv, Counted, AttemptsBudget, Exhausted
  <2> QED BY <2>4, <2>6, <2>7 DEF IInv
<1>3. ASSUME Fetch(w) PROVE IInv'
  <2>1. /\ step[w] = "starting" /\ step'[w] \in {"done", "retry", "fetched"}
        /\ step'[w] = "fetched" => seen'[w] = row[task[w]]
        /\ \A u \in Worker \ {w} : step'[u] = step[u] /\ seen'[u] = seen[u]
        /\ UNCHANGED <<row, task, scheduler, req, phase, calls>>
    BY <1>3, <1>0 DEF Fetch, IInv, TypeOK, cloud
  <2>2. TypeOK'
    BY <1>3, <1>0, <2>1 DEF Fetch, IInv, TypeOK, Step, cloud, scheduler
  <2> QED BY <2>1, <2>2, WorkerStep DEF AtWork
<1>4. ASSUME GiveUp(w) PROVE IInv'
  <2> DEFINE failed == [seen[w] EXCEPT !.status = "failed"]
  <2>1. /\ step[w] = "fetched" /\ task[w] \in Task /\ seen[w] \in Row /\ failed \in Row
        /\ failed.attempts = seen[w].attempts
    BY <1>4, <1>0 DEF GiveUp, IInv, TypeOK, Row, Terminal
  <2>2. /\ Saves(task[w], seen[w], failed) \/ Conflicts(task[w], seen[w], failed)
        /\ step' \in [Worker -> Step] /\ step'[w] \in {"done", "retry"}
        /\ \A u \in Worker \ {w} : step'[u] = step[u] /\ seen'[u] = seen[u]
        /\ seen' = [seen EXCEPT ![w] = NewRow]
        /\ UNCHANGED <<user, phase, restored, inserted, scheduler, task, launch, outcome, req, cloud,
                       events, disturbances>>
    BY <1>4, <2>1 DEF GiveUp, Fail, IInv, TypeOK, Step
  <2> HIDE DEF failed
  <2>3. row' \in [Task -> Row] /\ \A t \in Task : row'[t].attempts = row[t].attempts
    BY <2>1, <2>2, SessionKeeps DEF IInv
  <2>4. TypeOK'
    BY <2>2, <2>3, NewRowType DEF IInv, TypeOK, cloud, scheduler
  <2> QED BY <2>1, <2>2, <2>3, <2>4, WorkerStep DEF AtWork, cloud
<1>5. ASSUME FindUser(w) PROVE IInv'
  <2>1. /\ step[w] = "fetched" /\ step'[w] = "preparing" /\ ~Exhausted(seen[w])
        /\ \A u \in Worker \ {w} : step'[u] = step[u]
        /\ UNCHANGED <<row, seen, task, scheduler, req, phase, calls>>
    BY <1>5 DEF FindUser, IInv, TypeOK, cloud
  <2>2. TypeOK'
    BY <1>5 DEF FindUser, IInv, TypeOK, Step, cloud, scheduler
  <2>3. task[w] \notin doubled => seen'[w].attempts = row[task[w]].attempts
    BY <2>1 DEF IInv, Counted
  <2> QED BY <2>1, <2>2, <2>3, WorkerStep DEF AtWork, Exhausted
<1>6. ASSUME Prepare(w) PROVE IInv'
  <2> DEFINE new == [seen[w] EXCEPT !.status = "running", !.attempts = @ + 1]
  <2>1. /\ step[w] = "preparing" /\ task[w] \in Task /\ seen[w] \in Row /\ row[task[w]] \in Row
        /\ new \in Row /\ new.attempts = seen[w].attempts + 1 /\ new.attempts # seen[w].attempts
    <3>1. step[w] = "preparing" /\ task[w] \in Task /\ seen[w] \in Row /\ row[task[w]] \in Row
      BY <1>6, <1>0 DEF Prepare, IInv, TypeOK
    <3> DEFINE run == [seen[w] EXCEPT !.status = "running"]
    <3>2. run \in Row /\ run.attempts = seen[w].attempts
      BY <3>1, StatusType DEF Active
    <3>3. new = [run EXCEPT !.attempts = @ + 1]
      OBVIOUS
    <3> HIDE DEF run, new
    <3>4. new \in Row /\ new.attempts = run.attempts + 1 /\ run.attempts \in Nat
      BY <3>2, <3>3 DEF Row
    <3> QED BY <3>1, <3>2, <3>4
  <2>2. [remaining |-> new.remaining, domain |-> new.domain % Domains] \in Place
    <3>1. new.domain \in Nat /\ new.remaining \in 0..Requested
      BY <2>1 DEF Row
    <3> HIDE DEF new
    <3>2. new.domain % Domains \in 0..(Domains - 1)
      BY <3>1, CreateTaskAssumption
    <3> QED BY <3>1, <3>2 DEF Place
  <2>3. /\ \A u \in Worker \ {w} : step'[u] = step[u] /\ seen'[u] = seen[u]
        /\ seen' = [seen EXCEPT ![w] = NewRow]
        /\ step' \in [Worker -> Step] /\ launch' \in [Worker -> Place]
        /\ step'[w] \in {"launching", "retry"}
        /\ \/ Saves(task[w], seen[w], new)
           \/ Conflicts(task[w], seen[w], new) /\ step'[w] = "retry"
        /\ UNCHANGED <<user, phase, restored, inserted, scheduler, task, outcome, req, cloud, events,
                       disturbances>>
    BY <1>6, <2>2 DEF Prepare, IInv, TypeOK, Step
  <2> HIDE DEF new
  <2>4. row' \in [Task -> Row] /\ \A t \in Task \ {task[w]} : row'[t] = row[t]
    BY <2>1, <2>3, SessionKeeps DEF IInv
  <2>5. TypeOK'
    BY <2>3, <2>4, NewRowType DEF IInv, TypeOK, cloud, scheduler
  <2>6. CASE Conflicts(task[w], seen[w], new) /\ step'[w] = "retry"
    BY <2>1, <2>3, <2>5, <2>6, WorkerStep DEF AtWork, Conflicts, cloud
  <2>7. CASE Saves(task[w], seen[w], new)
    <3>1. row'[task[w]].attempts = seen[w].attempts + 1
      BY <2>1, <2>7, MergeType DEF Saves, Updated, IInv, TypeOK
    <3>2. Exclusive'
      BY <2>1, <2>3 DEF IInv, Exclusive, OneExecution, AtWork, scheduler
    <3>3. \A u \in Worker \ {w} : AtWork(u) /\ task[u] = task[w] => task[w] \in doubled
      BY <2>1 DEF IInv, Exclusive, OneExecution, AtWork
    <3>4. task[w] \notin doubled =>
            /\ calls[task[w]] < row'[task[w]].attempts
            /\ MaxAttempts > 0 => row'[task[w]].attempts <= MaxAttempts
      <4> SUFFICES ASSUME task[w] \notin doubled
                   PROVE  /\ calls[task[w]] < row'[task[w]].attempts
                          /\ MaxAttempts > 0 => row'[task[w]].attempts <= MaxAttempts
        OBVIOUS
      <4>1. /\ seen[w].attempts = row[task[w]].attempts /\ ~Exhausted(seen[w])
            /\ calls[task[w]] <= row[task[w]].attempts
        BY <2>1 DEF IInv, Counted, AttemptsBudget
      <4>2. seen[w].attempts \in Nat /\ calls[task[w]] \in Nat
        BY <2>1 DEF IInv, TypeOK, Row
      <4> QED BY <3>1, <4>1, <4>2, CreateTaskAssumption DEF Exhausted
    <3>5. AttemptsBudget'
      <4>1. ASSUME NEW t \in Task \ doubled
            PROVE  calls[t] <= row'[t].attempts /\ (MaxAttempts > 0 => row'[t].attempts <= MaxAttempts)
        <5>1. CASE t = task[w]
          <6>1. calls[t] \in Nat /\ row'[t].attempts \in Nat
            BY <2>4 DEF IInv, TypeOK, Row
          <6> QED BY <3>4, <5>1, <6>1
        <5>2. CASE t # task[w]
          BY <2>4, <5>2 DEF IInv, Counted, AttemptsBudget
        <5> QED BY <5>1, <5>2
      <4> QED BY <2>3, <4>1 DEF AttemptsBudget, scheduler, cloud
    <3>6. Counted'
      <4>1. \A u \in Worker \ {w} :
              /\ AtWork(u) /\ task[u] \notin doubled => row'[task[u]] = row[task[u]]
              /\ step[u] \in {"fetched", "preparing", "launching"} => AtWork(u)
        BY <2>4, <3>3 DEF IInv, Exclusive, AtWork
      <4> QED BY <2>3, <3>4, <3>5, <4>1 DEF IInv, Counted, Exhausted, scheduler, cloud
    <3> QED BY <2>5, <3>2, <3>6 DEF IInv
  <2> QED BY <2>3, <2>6, <2>7
<1>7. ASSUME LaunchInstance(w) PROVE IInv'
  <2>1. /\ step[w] = "launching" /\ task[w] \in Task /\ Launching(w) \in Identity
        /\ step' = [step EXCEPT ![w] = "launched"] /\ calls' = [calls EXCEPT ![task[w]] = @ + 1]
        /\ UNCHANGED <<row, phase, scheduler, task, seen, req>>
    BY <1>7, <1>0 DEF LaunchInstance, IInv, TypeOK, Launching, Identity
  <2>2. outcome' \in [Worker -> Outcome] /\ instances' \in SUBSET Identity
    BY <1>7, <2>1 DEF LaunchInstance, IInv, TypeOK
  <2>3. TypeOK'
    BY <1>7, <2>1, <2>2 DEF LaunchInstance, IInv, TypeOK, Step, scheduler
  <2>4. /\ \A u \in Worker \ {w} : step'[u] = step[u]
        /\ step'[w] = "launched" /\ \A t \in Task \ {task[w]} : calls'[t] = calls[t]
        /\ calls'[task[w]] = calls[task[w]] + 1
    BY <2>1 DEF IInv, TypeOK
  <2>5. Exclusive'
    BY <2>1, <2>4 DEF IInv, Exclusive, OneExecution, AtWork, scheduler
  <2>6. \A u \in Worker \ {w} : step[u] = "launching" /\ task[u] = task[w] => task[w] \in doubled
    BY <2>1 DEF IInv, Exclusive, OneExecution, AtWork
  <2>7. task[w] \notin doubled => calls'[task[w]] <= row[task[w]].attempts
    BY <2>1, <2>4 DEF IInv, TypeOK, Row, Counted
  <2>8. AttemptsBudget'
    BY <2>1, <2>4, <2>7 DEF IInv, Counted, AttemptsBudget, scheduler
  <2>9. Counted'
    BY <2>1, <2>4, <2>6, <2>8 DEF IInv, Exclusive, Counted, Exhausted, scheduler
  <2> QED BY <2>3, <2>5, <2>9 DEF IInv
<1>8. ASSUME Refetch(w) PROVE IInv'
  <2>1. /\ step[w] = "launched" /\ step'[w] = "recording"
        /\ \A u \in Worker \ {w} : step'[u] = step[u] /\ seen'[u] = seen[u]
        /\ UNCHANGED <<row, task, scheduler, req, phase, calls>>
    BY <1>8 DEF Refetch, IInv, TypeOK, cloud
  <2>2. TypeOK'
    BY <1>8, <1>0 DEF Refetch, IInv, TypeOK, Step, cloud, scheduler
  <2> QED BY <2>1, <2>2, WorkerStep DEF AtWork
<1>9. ASSUME Record(w) PROVE IInv'
  <2> DEFINE new == Recorded(seen[w], outcome[w])
  <2>1. /\ step[w] = "recording" /\ task[w] \in Task /\ seen[w] \in Row
        /\ new \in Row /\ new.attempts = seen[w].attempts
    BY <1>9, <1>0, RecordedType DEF Record, IInv, TypeOK
  <2>2. /\ Saves(task[w], seen[w], new) \/ Conflicts(task[w], seen[w], new)
        /\ step' \in [Worker -> Step] /\ step'[w] \in {"done", "retry"}
        /\ \A u \in Worker \ {w} : step'[u] = step[u] /\ seen'[u] = seen[u]
        /\ seen' = [seen EXCEPT ![w] = NewRow]
        /\ outcome' = [outcome EXCEPT ![w] = "none"]
        /\ events' \in {events, events \cup {Launching(w)}}
        /\ UNCHANGED <<user, phase, restored, inserted, scheduler, task, launch, req, cloud, disturbances>>
    BY <1>9, <2>1 DEF Record, IInv, TypeOK, Step
  <2> HIDE DEF new
  <2>3. row' \in [Task -> Row] /\ \A t \in Task : row'[t].attempts = row[t].attempts
    BY <2>1, <2>2, SessionKeeps DEF IInv
  <2>4. Launching(w) \in Identity
    BY <2>1 DEF IInv, TypeOK, Launching, Identity
  <2>5. TypeOK'
    BY <2>2, <2>3, <2>4, NewRowType DEF IInv, TypeOK, cloud, scheduler, Outcome
  <2> QED BY <2>1, <2>2, <2>3, <2>5, WorkerStep DEF AtWork, cloud
<1> QED BY <1>1, <1>2, <1>3, <1>4, <1>5, <1>6, <1>7, <1>8, <1>9 DEF Execute

LEMMA RequestInv ==
  ASSUME IInv, NEW r \in Request,
         \/ \E k \in Kinds, t \in Named : ReadRequest(r, k, t)
         \/ ApplyRequest(r) \/ CommitRequest(r)
  PROVE  IInv'
<1>1. ASSUME NEW k \in Kinds, NEW t \in Named, ReadRequest(r, k, t) PROVE IInv'
  <2>1. t \in Task /\ k \in RequestKind /\ row[t] \in Row
    BY CreateTaskAssumption DEF IInv, TypeOK
  <2>2. [step |-> "read", kind |-> k, task |-> t, seen |-> row[t]]
          \in [step : {"idle", "read", "applied"}, kind : RequestKind, task : Task \cup {NoTask}, seen : Row]
    BY <2>1
  <2>3. TypeOK'
    BY <1>1, <2>2, CreateTaskAssumption
       DEF ReadRequest, Disturb, IInv, TypeOK, workers, cloud, scheduler
  <2>4. Exclusive'
    BY <1>1, <2>1 DEF ReadRequest, IInv, TypeOK, Exclusive, OneExecution, AtWork, workers, scheduler
  <2> QED BY <1>1, <2>3, <2>4, OtherStep DEF ReadRequest, scheduler, cloud
<1>2. ASSUME ApplyRequest(r) PROVE IInv'
  <2>1. /\ req[r].task \in Task /\ req[r].step = "read" /\ req[r].kind \in RequestKind
        /\ req' = [req EXCEPT ![r].step = "applied"]
        /\ UNCHANGED <<row, user, phase, restored, inserted, workers, cloud, events, disturbances>>
    BY <1>2 DEF ApplyRequest, IInv, TypeOK, Exclusive
  <2>2. /\ req' \in [Request -> [step : {"idle", "read", "applied"}, kind : RequestKind,
                                 task : Task \cup {NoTask}, seen : Row]]
        /\ \A q \in Request : req'[q].step # "idle" => req'[q].task \in Task
    BY <2>1 DEF IInv, TypeOK, Exclusive
  <2>3. CASE Unschedule(req[r].task)
    <3>1. TypeOK'
      BY <2>1, <2>2, <2>3, UnscheduleType DEF IInv, TypeOK, workers, cloud
    <3>2. Exclusive' /\ doubled \subseteq doubled'
      BY <2>1, <2>2, <2>3, UnscheduleKeepsExclusive DEF workers
    <3> QED BY <2>1, <3>1, <3>2, OtherStep DEF cloud
  <2>4. CASE Schedule({req[r].task})
    <3>1. TypeOK'
      BY <2>1, <2>2, <2>4, ScheduleType DEF IInv, TypeOK, workers, cloud
    <3>2. Exclusive' /\ doubled \subseteq doubled'
      BY <2>1, <2>2, <2>4, ScheduleKeepsExclusive DEF workers
    <3> QED BY <2>1, <3>1, <3>2, OtherStep DEF cloud
  <2>5. CASE held' \in SUBSET Task /\ UNCHANGED <<registered, runner, doubled>>
    <3>1. TypeOK'
      BY <2>1, <2>2, <2>5 DEF IInv, TypeOK, workers, cloud
    <3>2. Exclusive'
      BY <2>1, <2>2, <2>5 DEF IInv, Exclusive, OneExecution, AtWork, workers
    <3> QED BY <2>1, <2>5, <3>1, <3>2, OtherStep DEF cloud
  <2>6. held \in SUBSET Task /\ registered \in SUBSET Task
    BY DEF IInv, TypeOK
  <2> QED BY <1>2, <2>1, <2>3, <2>4, <2>5, <2>6 DEF ApplyRequest, RequestKind
<1>3. ASSUME CommitRequest(r) PROVE IInv'
  <2> DEFINE q == req[r]
             new == Wanted(q.kind, q.seen)
  <2>1. /\ q.task \in Task /\ q.seen \in Row /\ new \in Row /\ new.attempts = q.seen.attempts
    BY <1>3, WantedType DEF CommitRequest, IInv, TypeOK, Exclusive
  <2>2. Idle \in [step : {"idle", "read", "applied"}, kind : RequestKind, task : Task \cup {NoTask}, seen : Row]
    BY NewRowType DEF Idle, RequestKind
  <2>3. /\ Saves(q.task, q.seen, new) \/ Conflicts(q.task, q.seen, new)
        /\ user' \in BOOLEAN
        /\ revived' \in SUBSET Task
        /\ req' = [req EXCEPT ![r] = Idle]
        /\ UNCHANGED <<phase, restored, inserted, scheduler, workers, instances, calls, events, disturbances>>
    BY <1>3 DEF CommitRequest, Revivals, IInv, TypeOK
  <2> HIDE DEF q, new
  <2>4. row' \in [Task -> Row] /\ \A t \in Task : row'[t].attempts = row[t].attempts
    BY <2>1, <2>3, SessionKeeps DEF IInv
  <2>5. TypeOK'
    BY <2>2, <2>3, <2>4 DEF IInv, TypeOK, workers, scheduler
  <2>6. Exclusive'
    BY <2>3 DEF IInv, TypeOK, Exclusive, OneExecution, AtWork, Idle, workers, scheduler
  <2> QED BY <2>3, <2>4, <2>5, <2>6, OtherStep DEF scheduler
<1> QED BY <1>1, <1>2, <1>3

LEMMA InvStep == IInv /\ [Next]_vars => IInv'
<1> SUFFICES ASSUME IInv, [Next]_vars PROVE IInv'
  OBVIOUS
<1>1. ASSUME NEW w \in Worker, (\E t \in Task : Dispatch(w, t)) \/ Execute(w) PROVE IInv'
  BY <1>1, WorkerInv
<1>2. ASSUME NEW r \in Request,
             \/ \E k \in Kinds, t \in Named : ReadRequest(r, k, t)
             \/ ApplyRequest(r) \/ CommitRequest(r)
      PROVE  IInv'
  BY <1>2, RequestInv
<1>3. ASSUME NEW t \in Task, Insert(t) PROVE IInv'
  <2>1. /\ row' = [row EXCEPT ![t].status = "pending"] /\ inserted' = inserted \cup {t}
        /\ UNCHANGED <<user, phase, restored, scheduler, workers, req, cloud, events, disturbances>>
    BY <1>3 DEF Insert
  <2>2. row' \in [Task -> Row] /\ \A u \in Task : row'[u].attempts = row[u].attempts
    <3>1. [row[t] EXCEPT !.status = "pending"] \in Row
          /\ [row[t] EXCEPT !.status = "pending"].attempts = row[t].attempts
      BY StatusType DEF IInv, TypeOK, Active
    <3> QED BY <2>1, <3>1 DEF IInv, TypeOK
  <2>3. TypeOK'
    BY <2>1, <2>2 DEF IInv, TypeOK, workers, cloud, scheduler
  <2>4. Exclusive'
    BY <2>1 DEF IInv, Exclusive, OneExecution, AtWork, workers, scheduler
  <2> QED BY <2>1, <2>2, <2>3, <2>4, OtherStep DEF cloud, scheduler
<1>4. ASSUME NEW t \in Task, ScheduleInserted(t) PROVE IInv'
  <2>1. /\ Schedule({t}) /\ inserted' = inserted \ {t}
        /\ UNCHANGED <<row, user, phase, restored, workers, req, cloud, events, disturbances>>
    BY <1>4 DEF ScheduleInserted
  <2>2. TypeOK'
    BY <2>1, ScheduleType DEF IInv, TypeOK, workers, cloud
  <2>3. Exclusive' /\ doubled \subseteq doubled'
    BY <2>1, ScheduleKeepsExclusive DEF workers, IInv, Exclusive
  <2> QED BY <2>1, <2>2, <2>3, OtherStep DEF cloud
<1>5. CASE RemoveUnused
  <2>0. /\ user' = FALSE /\ disturbances < MaxDisturbances /\ disturbances' = disturbances + 1
        /\ UNCHANGED <<row, phase, restored, inserted, scheduler, workers, req, cloud, events>>
    BY <1>5 DEF RemoveUnused, Disturb
  <2>1. TypeOK'
    <3>1. disturbances' \in 0..MaxDisturbances
      BY <2>0, CreateTaskAssumption DEF IInv, TypeOK
    <3> QED BY <2>0, <3>1 DEF IInv, TypeOK, workers, cloud, scheduler
  <2>2. Exclusive'
    BY <1>5 DEF RemoveUnused, IInv, Exclusive, OneExecution, AtWork, workers, scheduler
  <2> QED BY <1>5, <2>1, <2>2, OtherStep DEF RemoveUnused, cloud, scheduler
<1>6. CASE Crash
  <2>1. Idle \in [step : {"idle", "read", "applied"}, kind : RequestKind, task : Task \cup {NoTask}, seen : Row]
    BY NewRowType DEF Idle, RequestKind
  <2>2. TypeOK'
    BY <1>6, <2>1, NewRowType, CreateTaskAssumption
       DEF Crash, Disturb, IInv, TypeOK, Step, Outcome, cloud
  <2>3. Exclusive'
    BY <1>6 DEF Crash, Exclusive, OneExecution, AtWork, Idle
  <2>4. Counted'
    BY <1>6 DEF Crash, IInv, Counted, AttemptsBudget, cloud
  <2> QED BY <2>2, <2>3, <2>4 DEF IInv
<1>7. CASE Restore
  <2> DEFINE S == {t \in Task : row[t].status \in {"pending", "running"}}
  <2>1. /\ S \in SUBSET Task /\ Schedule(S) /\ restored' = row /\ phase' = "restoring"
        /\ UNCHANGED <<row, user, inserted, workers, req, cloud, events, disturbances>>
    BY <1>7 DEF Restore
  <2> HIDE DEF S
  <2>2. TypeOK'
    BY <2>1, ScheduleType DEF IInv, TypeOK, workers, cloud
  <2>3. Exclusive' /\ doubled \subseteq doubled'
    BY <2>1, ScheduleKeepsExclusive DEF workers, IInv, Exclusive
  <2> QED BY <2>1, <2>2, <2>3, OtherStep DEF cloud
<1>8. CASE CommitRestored
  <2>1. /\ phase' = "up" /\ restored' = [t \in Task |-> NewRow]
        /\ revived' \in SUBSET Task
        /\ UNCHANGED <<user, inserted, scheduler, workers, req, instances, calls, events, disturbances>>
    BY <1>8 DEF CommitRestored, Revivals, IInv, TypeOK
  <2>2. row' \in [Task -> Row] /\ \A t \in Task : row'[t].attempts = row[t].attempts
    <3> DEFINE pending(t) == [restored[t] EXCEPT !.status = "pending"]
               new == [t \in Task |-> IF restored[t].status = "running"
                                      THEN Merge(restored[t], pending(t), row[t]) ELSE row[t]]
    <3>1. row' = new \/ row' = row
      BY <1>8 DEF CommitRestored
    <3>2. ASSUME NEW t \in Task
          PROVE  /\ Merge(restored[t], pending(t), row[t]) \in Row
                 /\ Merge(restored[t], pending(t), row[t]).attempts = row[t].attempts
      <4>1. restored[t] \in Row /\ row[t] \in Row /\ pending(t) \in Row
            /\ pending(t).attempts = restored[t].attempts
        BY StatusType DEF IInv, TypeOK, Active
      <4> HIDE DEF pending
      <4> QED BY <4>1, MergeType
    <3> HIDE DEF pending
    <3>3. new \in [Task -> Row] /\ \A t \in Task : new[t].attempts = row[t].attempts
      BY <3>2 DEF IInv, TypeOK
    <3> HIDE DEF new
    <3> QED BY <3>1, <3>3 DEF IInv, TypeOK
  <2>3. TypeOK'
    BY <2>1, <2>2, NewRowType DEF IInv, TypeOK, workers, scheduler
  <2>4. Exclusive'
    BY <2>1 DEF IInv, Exclusive, OneExecution, AtWork, workers, scheduler
  <2> QED BY <2>1, <2>2, <2>3, <2>4, OtherStep DEF scheduler
<1>9. CASE UNCHANGED vars
  <2>1. TypeOK' /\ Exclusive'
    BY <1>9 DEF vars, workers, scheduler, cloud, IInv, TypeOK, Exclusive, OneExecution, AtWork
  <2> QED BY <1>9, <2>1, OtherStep DEF vars, scheduler, cloud
<1> QED BY <1>1, <1>2, <1>3, <1>4, <1>5, <1>6, <1>7, <1>8, <1>9 DEF Next, Execute

-----------------------------------------------------------------------------
(* The place an execution works on stays the one the row names until it records its result. *)
PlaceKnown(w) ==
  LET r == row[task[w]]
  IN /\ step[w] \in {"fetched", "preparing", "recording"} =>
          seen[w].remaining = r.remaining /\ seen[w].domain = r.domain
     /\ step[w] \in {"launching", "launched", "recording"} =>
          launch[w].remaining = r.remaining /\ launch[w].domain = r.domain % Domains
     /\ step[w] \in {"launched", "recording"} /\ outcome[w] = "capacity" =>
          Launching(w) \notin instances

(* Instances are at places the task has filled, or at the one it is working on. *)
Places ==
  /\ events \subseteq instances
  /\ \A w \in Worker : step[w] \in {"launched", "recording"} /\ outcome[w] = "success" =>
       Launching(w) \in instances
  /\ NoDuplicateLaunch
  /\ \A i \in instances : i.task \notin doubled =>
       /\ row[i.task].remaining <= i.place.remaining
       /\ row[i.task].remaining = i.place.remaining /\ i.place.remaining > 0 =>
            i.place.domain = row[i.task].domain % Domains
  /\ \A w \in Worker : task[w] \in Task \ doubled => PlaceKnown(w)

Sound == Task \ (revived \cup doubled)
OnPlace == {"fetched", "preparing", "launching", "launched", "recording"}

(* A task whose last place is filled has ended, and stays so unless it is revived. *)
Ends ==
  /\ IsFiniteSet(events)
  /\ \A t \in Sound :
       /\ row[t].remaining = 0 => row[t].status \in Terminal
       /\ \A i \in Of(t, instances) : i.place.remaining > 0
       /\ \A e \in Of(t, events) : e.place.remaining > row[t].remaining
       /\ Requested - row[t].remaining = Cardinality(Of(t, events))
  /\ \A w \in Worker : task[w] \in Sound =>
       /\ step[w] \in OnPlace => row[task[w]].remaining > 0
       /\ step[w] = "recording" /\ seen[w].status \in Terminal => row[task[w]].status \in Terminal

LEMMA PlacesInit == Init => Places /\ Ends
<1> SUFFICES ASSUME Init PROVE Places /\ Ends
  OBVIOUS
<1>1. Places
  BY DEF Init, Places, NoDuplicateLaunch, PlaceKnown
<1>2. \A t : Of(t, events) = {} /\ Of(t, instances) = {}
  BY DEF Init, Of
<1>3. \A t \in Task : row[t].remaining = Requested /\ Requested # 0 /\ Requested - Requested = 0
  BY CreateTaskAssumption DEF Init, NewRow
<1>4. IsFiniteSet(events) /\ Cardinality({}) = 0
  BY FS_EmptySet DEF Init
<1>5. \A w \in Worker : step[w] = "idle"
  BY DEF Init
<1>6. Ends
  BY <1>2, <1>3, <1>4, <1>5 DEF Ends, Sound, OnPlace
<1> QED BY <1>1, <1>6

SamePlaces == \A t \in Task : row'[t].remaining = row[t].remaining /\ row'[t].domain = row[t].domain

LEMMA SessionKeepsPlace ==
  ASSUME TypeOK, NEW t \in Task, NEW old \in Row, NEW new \in Row,
         Saves(t, old, new) \/ Conflicts(t, old, new),
         new.remaining = old.remaining, new.domain = old.domain
  PROVE  /\ SamePlaces
         /\ \A u \in Task : row'[u].status \in {row[u].status} \cup (IF u = t THEN {new.status} ELSE {})
  BY DEF Saves, Conflicts, Updated, Merge, TypeOK, SamePlaces

(* Steps that launch and record nothing: only what the worker w knows may change. *)
LEMMA PlacesKept ==
  ASSUME IInv, Places, SamePlaces, UNCHANGED <<instances, events>>, doubled \subseteq doubled',
         \A u \in Worker :
           \/ UNCHANGED <<step[u], task[u], seen[u], launch[u], outcome[u]>>
           \/ /\ step'[u] \in {"launched", "recording"} /\ outcome'[u] = "success" =>
                   Launching(u)' \in instances
              /\ task'[u] \in Task \ doubled' => PlaceKnown(u)'
  PROVE  Places'
<1>1. \A u \in Worker : step'[u] \in {"launched", "recording"} /\ outcome'[u] = "success" =>
        Launching(u)' \in instances
  BY DEF Places, Launching
<1>2. \A u \in Worker : task'[u] \in Task \ doubled' => PlaceKnown(u)'
  BY DEF Places, PlaceKnown, Launching, SamePlaces
<1>3. \A i \in instances : i.task \in Task
  BY DEF IInv, TypeOK, Identity
<1> QED BY <1>1, <1>2, <1>3 DEF Places, NoDuplicateLaunch, SamePlaces

LEMMA EndsKept ==
  ASSUME IInv, Ends, SamePlaces, UNCHANGED <<instances, events>>, doubled \subseteq doubled',
         revived \subseteq revived',
         \A t \in Sound' : row[t].remaining = 0 /\ row[t].status \in Terminal => row'[t].status \in Terminal,
         \A u \in Worker : task'[u] \in Sound' =>
           /\ step'[u] \in OnPlace => row[task'[u]].remaining > 0
           /\ step'[u] = "recording" /\ seen'[u].status \in Terminal =>
                row'[task'[u]].status \in Terminal
  PROVE  Ends'
<1>1. Sound' \subseteq Sound
  BY DEF Sound
<1>2. \A t \in Task : row'[t].remaining = row[t].remaining
  BY DEF SamePlaces
<1>3. ASSUME NEW t \in Sound'
      PROVE  /\ row'[t].remaining = 0 => row'[t].status \in Terminal
             /\ \A i \in Of(t, instances) : i.place.remaining > 0
             /\ \A e \in Of(t, events) : e.place.remaining > row'[t].remaining
             /\ Requested - row'[t].remaining = Cardinality(Of(t, events))
  BY <1>1, <1>2 DEF Ends, Sound
<1>4. ASSUME NEW u \in Worker, task'[u] \in Sound', step'[u] \in OnPlace
      PROVE  row'[task'[u]].remaining > 0
  BY <1>1, <1>2, <1>4 DEF Sound
<1> QED BY <1>3, <1>4 DEF Ends, Of

(* A step of the worker w alone, before its call or after it, that records nothing. *)
LEMMA WorkerKeeps ==
  ASSUME IInv, Places, Ends, NEW w \in Worker,
         SamePlaces, UNCHANGED <<instances, events, doubled, revived>>,
         \A u \in Worker \ {w} : UNCHANGED <<step[u], task[u], seen[u], launch[u], outcome[u]>>,
         step'[w] \in {"launched", "recording"} => step[w] = "launched" /\ UNCHANGED <<task, launch, outcome>>,
         task'[w] \in Task \ doubled' => PlaceKnown(w)',
         task'[w] \in Sound' /\ step'[w] \in OnPlace => row[task'[w]].remaining > 0,
         step'[w] = "recording" => seen'[w].status = row[task[w]].status /\ row' = row,
         \A t \in Task : row[t].status \in Terminal /\ row'[t] # row[t] =>
           /\ \A u \in Worker \ {w} : AtWork(u) /\ task[u] = t => t \in doubled
           /\ row[t].remaining = 0 => row'[t].status \in Terminal \/ t \notin Sound
  PROVE  Places' /\ Ends'
<1>1. Places'
  <2>1. step'[w] \in {"launched", "recording"} /\ outcome'[w] = "success" => Launching(w)' \in instances
    BY DEF Places, Launching
  <2> QED BY <2>1, PlacesKept
<1>2. ASSUME NEW u \in Worker, task'[u] \in Sound', u # w
      PROVE  /\ step'[u] \in OnPlace => row[task'[u]].remaining > 0
             /\ step'[u] = "recording" /\ seen'[u].status \in Terminal => row'[task'[u]].status \in Terminal
  BY <1>2 DEF Ends, Sound, AtWork
<1>3. ASSUME task'[w] \in Sound', step'[w] = "recording", seen'[w].status \in Terminal
      PROVE  row'[task'[w]].status \in Terminal
  BY <1>3
<1>4. \A t \in Sound' : row[t].remaining = 0 /\ row[t].status \in Terminal => row'[t].status \in Terminal
  BY DEF Sound
<1>5. Ends'
  BY <1>2, <1>3, <1>4, EndsKept
<1> QED BY <1>1, <1>5

LEMMA WorkerPlaces ==
  ASSUME IInv, Places, Ends, NEW w \in Worker,
         \/ \E t \in Task : Dispatch(w, t)
         \/ Fetch(w) \/ GiveUp(w) \/ FindUser(w) \/ Prepare(w) \/ Refetch(w) \/ Complete(w)
  PROVE  Places' /\ Ends'
<1> USE DEF MoveTo
<1>0. step[w] # "idle" => task[w] \in Task /\ row[task[w]] \in Row
  BY DEF IInv, Exclusive, TypeOK
<1>a. row' = row => SamePlaces
  BY DEF SamePlaces
<1>b. \A u \in Worker \ {w} : AtWork(u) /\ AtWork(w) /\ task[u] = task[w] => task[w] \in doubled
  BY DEF IInv, Exclusive, OneExecution
<1>1. ASSUME NEW t \in Task, Dispatch(w, t) PROVE Places' /\ Ends'
  <2>1. /\ step'[w] = "starting"
        /\ \A u \in Worker \ {w} : UNCHANGED <<step[u], task[u], seen[u], launch[u], outcome[u]>>
        /\ UNCHANGED <<row, instances, events, doubled, revived>>
    BY <1>1 DEF Dispatch, IInv, TypeOK, cloud
  <2> QED BY <1>a, <2>1, WorkerKeeps DEF PlaceKnown, OnPlace
<1>2. ASSUME Complete(w) PROVE Places' /\ Ends'
  <2>1. /\ step'[w] = "idle"
        /\ \A u \in Worker \ {w} : UNCHANGED <<step[u], task[u], seen[u], launch[u], outcome[u]>>
        /\ UNCHANGED <<row, instances, events, doubled, revived>>
    BY <1>2 DEF Complete, IInv, TypeOK, cloud, scheduler, Unschedule
  <2> QED BY <1>a, <2>1, WorkerKeeps DEF PlaceKnown, OnPlace
<1>3. ASSUME Fetch(w) PROVE Places' /\ Ends'
  <2>1. /\ step'[w] \in {"done", "retry", "fetched"}
        /\ step'[w] = "fetched" => seen'[w] = row[task[w]] /\ row[task[w]].status \notin Terminal
        /\ \A u \in Worker \ {w} : UNCHANGED <<step[u], task[u], seen[u], launch[u], outcome[u]>>
        /\ UNCHANGED <<row, task, instances, events, doubled, revived>>
    BY <1>3, <1>0 DEF Fetch, IInv, TypeOK, cloud, scheduler
  <2>2. task[w] \in Sound /\ step'[w] = "fetched" => row[task[w]].remaining > 0
    <3>1. task[w] \in Task => row[task[w]] \in Row
      BY DEF IInv, TypeOK
    <3>2. \A r \in Row : r.remaining \in Nat
      BY CreateTaskAssumption DEF Row
    <3>3. task[w] \in Sound => row[task[w]].remaining \in Nat
      BY <3>1, <3>2 DEF Sound
    <3> QED BY <2>1, <3>3 DEF Ends
  <2>3. PlaceKnown(w)'
    BY <2>1 DEF PlaceKnown
  <2>4. task'[w] \in Sound' /\ step'[w] \in OnPlace => row[task'[w]].remaining > 0
    BY <2>1, <2>2 DEF OnPlace, Sound
  <2> QED BY <1>a, <2>1, <2>3, <2>4, WorkerKeeps
<1>4. ASSUME GiveUp(w) PROVE Places' /\ Ends'
  <2> DEFINE failed == [seen[w] EXCEPT !.status = "failed"]
  <2>1. /\ task[w] \in Task /\ seen[w] \in Row /\ failed \in Row /\ AtWork(w)
        /\ failed.remaining = seen[w].remaining /\ failed.domain = seen[w].domain
        /\ failed.status = "failed"
    BY <1>4, <1>0 DEF GiveUp, IInv, TypeOK, Row, Terminal, AtWork
  <2>2. /\ Saves(task[w], seen[w], failed) \/ Conflicts(task[w], seen[w], failed)
        /\ step'[w] \in {"done", "retry"}
        /\ \A u \in Worker \ {w} : UNCHANGED <<step[u], task[u], seen[u], launch[u], outcome[u]>>
        /\ UNCHANGED <<task, instances, events, doubled, revived>>
    BY <1>4, <2>1 DEF GiveUp, Fail, IInv, TypeOK, cloud, scheduler
  <2> HIDE DEF failed
  <2>3. /\ SamePlaces
        /\ \A u \in Task : row'[u].status \in {row[u].status} \cup (IF u = task[w] THEN {"failed"} ELSE {})
    BY <2>1, <2>2, SessionKeepsPlace DEF IInv
  <2>4. \A u \in Task \ {task[w]} : row'[u] = row[u]
    BY <2>1, <2>2, SessionKeeps DEF IInv
  <2>5. \A t \in Task : row[t].status \in Terminal /\ row'[t] # row[t] =>
           /\ \A u \in Worker \ {w} : AtWork(u) /\ task[u] = t => t \in doubled
           /\ row[t].remaining = 0 => row'[t].status \in Terminal \/ t \notin Sound
    BY <1>b, <2>1, <2>3, <2>4 DEF Terminal
  <2> QED BY <2>2, <2>3, <2>5, WorkerKeeps DEF PlaceKnown, OnPlace
<1>5. ASSUME FindUser(w) PROVE Places' /\ Ends'
  <2>1. /\ step[w] = "fetched" /\ step'[w] = "preparing"
        /\ \A u \in Worker \ {w} : UNCHANGED <<step[u], task[u], seen[u], launch[u], outcome[u]>>
        /\ UNCHANGED <<row, task, seen, instances, events, doubled, revived>>
    BY <1>5 DEF FindUser, IInv, TypeOK, cloud, scheduler
  <2>2. task[w] \in Task \ doubled => PlaceKnown(w)'
    BY <2>1 DEF Places, PlaceKnown
  <2>3. task[w] \in Sound => row[task[w]].remaining > 0
    BY <2>1 DEF Ends, OnPlace
  <2> QED BY <1>a, <2>1, <2>2, <2>3, WorkerKeeps DEF OnPlace, Sound
<1>6. ASSUME Prepare(w) PROVE Places' /\ Ends'
  <2> DEFINE new == [seen[w] EXCEPT !.status = "running", !.attempts = @ + 1]
  <2>1. /\ step[w] = "preparing" /\ task[w] \in Task /\ seen[w] \in Row /\ AtWork(w)
        /\ new.remaining = seen[w].remaining /\ new.domain = seen[w].domain /\ new.status = "running"
    BY <1>6, <1>0 DEF Prepare, IInv, TypeOK, Row, AtWork
  <2>2. new \in Row
    <3> DEFINE run == [seen[w] EXCEPT !.status = "running"]
    <3>1. run \in Row
      BY <2>1, StatusType DEF Active
    <3>2. new = [run EXCEPT !.attempts = @ + 1]
      OBVIOUS
    <3> HIDE DEF run, new
    <3> QED BY <3>1, <3>2 DEF Row
  <2>3. /\ Saves(task[w], seen[w], new) \/ Conflicts(task[w], seen[w], new)
        /\ \/ /\ step'[w] = "launching"
              /\ launch'[w] = [remaining |-> new.remaining, domain |-> new.domain % Domains]
           \/ step'[w] = "retry"
        /\ \A u \in Worker \ {w} : UNCHANGED <<step[u], task[u], seen[u], launch[u], outcome[u]>>
        /\ UNCHANGED <<task, instances, events, doubled, revived>>
    BY <1>6 DEF Prepare, IInv, TypeOK, cloud, scheduler
  <2> HIDE DEF new
  <2>4. SamePlaces
    BY <2>1, <2>2, <2>3, SessionKeepsPlace DEF IInv
  <2>5. \A u \in Task \ {task[w]} : row'[u] = row[u]
    BY <2>1, <2>2, <2>3, SessionKeeps DEF IInv
  <2>6. task[w] \in Task \ doubled => PlaceKnown(w)'
    BY <2>1, <2>3, <2>4 DEF Places, PlaceKnown, SamePlaces
  <2>7. task[w] \in Sound => row[task[w]].remaining > 0
    BY <2>1 DEF Ends, OnPlace
  <2>8. \A t \in Task : row[t].status \in Terminal /\ row'[t] # row[t] =>
           /\ \A u \in Worker \ {w} : AtWork(u) /\ task[u] = t => t \in doubled
           /\ row[t].remaining = 0 => row'[t].status \in Terminal \/ t \notin Sound
    BY <1>b, <2>1, <2>5, <2>7
  <2> QED BY <2>3, <2>4, <2>6, <2>7, <2>8, WorkerKeeps DEF Sound
<1>7. ASSUME Refetch(w) PROVE Places' /\ Ends'
  <2>1. /\ step[w] = "launched" /\ step'[w] = "recording" /\ seen'[w] = row[task[w]]
        /\ \A u \in Worker \ {w} : UNCHANGED <<step[u], task[u], seen[u], launch[u], outcome[u]>>
        /\ UNCHANGED <<row, task, launch, outcome, instances, events, doubled, revived>>
    BY <1>7 DEF Refetch, IInv, TypeOK, cloud, scheduler
  <2>2. task[w] \in Task \ doubled => PlaceKnown(w)'
    BY <2>1 DEF Places, PlaceKnown, Launching
  <2>3. task[w] \in Sound => row[task[w]].remaining > 0
    BY <2>1 DEF Ends, OnPlace
  <2> QED BY <1>a, <2>1, <2>2, <2>3, WorkerKeeps DEF Sound
<1> QED BY <1>1, <1>2, <1>3, <1>4, <1>5, <1>6, <1>7

(* A step of no worker: whoever makes a finished task active again revives it. *)
LEMMA OthersKeep ==
  ASSUME IInv, Places, Ends, SamePlaces, UNCHANGED <<workers, instances, events>>,
         doubled \subseteq doubled', revived \subseteq revived',
         \A t \in Task \ revived' : row[t].status \in Terminal => row'[t].status \in Terminal
  PROVE  Places' /\ Ends'
<1>1. Places'
  BY PlacesKept DEF workers
<1>2. \A u \in Worker : task'[u] \in Sound' =>
        /\ step'[u] \in OnPlace => row[task'[u]].remaining > 0
        /\ step'[u] = "recording" /\ seen'[u].status \in Terminal => row'[task'[u]].status \in Terminal
  BY DEF workers, Ends, Sound
<1>3. Ends'
  BY <1>2, EndsKept DEF Sound
<1> QED BY <1>1, <1>3

LEMMA DoubledGrows ==
  ASSUME NEW S, Schedule(S) \/ Unschedule(S)
  PROVE  doubled \subseteq doubled'
  BY DEF Schedule, Unschedule

LEMMA RequestPlaces ==
  ASSUME IInv, Places, Ends, NEW r \in Request,
         \/ \E k \in Kinds, t \in Named : ReadRequest(r, k, t)
         \/ ApplyRequest(r) \/ CommitRequest(r)
  PROVE  Places' /\ Ends'
<1>1. ASSUME NEW k \in Kinds, NEW t \in Named, ReadRequest(r, k, t) PROVE Places' /\ Ends'
  BY <1>1, OthersKeep DEF ReadRequest, SamePlaces, cloud, scheduler
<1>2. ASSUME ApplyRequest(r) PROVE Places' /\ Ends'
  <2>1. UNCHANGED <<row, workers, cloud, events>> /\ doubled \subseteq doubled'
    <3>1. req[r].kind \in RequestKind
      BY DEF IInv, TypeOK
    <3> QED BY <1>2, <3>1, DoubledGrows DEF ApplyRequest, RequestKind
  <2> QED BY <2>1, OthersKeep DEF SamePlaces, cloud
<1>3. ASSUME CommitRequest(r) PROVE Places' /\ Ends'
  <2> DEFINE q == req[r]
             new == Wanted(q.kind, q.seen)
  <2>1. /\ q.task \in Task /\ q.seen \in Row /\ q.kind \in RequestKind
    BY <1>3 DEF CommitRequest, IInv, TypeOK, Exclusive
  <2>2. /\ new \in Row /\ new.remaining = q.seen.remaining /\ new.domain = q.seen.domain
        /\ new.status \in Active \cup Terminal
    BY <2>1 DEF Wanted, Row, RequestKind, Active, Terminal
  <2>3. /\ Saves(q.task, q.seen, new) \/ Conflicts(q.task, q.seen, new)
        /\ revived' = revived \cup Revivals
        /\ UNCHANGED <<scheduler, workers, instances, events>>
    BY <1>3 DEF CommitRequest
  <2> HIDE DEF q, new
  <2>4. /\ SamePlaces
        /\ \A u \in Task : row'[u].status \in {row[u].status} \cup (IF u = q.task THEN {new.status} ELSE {})
    BY <2>1, <2>2, <2>3, SessionKeepsPlace DEF IInv
  <2>5. \A t \in Task \ revived' : row[t].status \in Terminal => row'[t].status \in Terminal
    BY <2>2, <2>3, <2>4 DEF Revivals
  <2> QED BY <2>3, <2>4, <2>5, OthersKeep DEF scheduler
<1> QED BY <1>1, <1>2, <1>3

LEMMA ProcessPlaces ==
  ASSUME IInv, Places, Ends,
         \/ \E t \in Task : Insert(t) \/ ScheduleInserted(t)
         \/ RemoveUnused \/ Crash \/ Restore \/ CommitRestored \/ UNCHANGED vars
  PROVE  Places' /\ Ends'
<1>1. ASSUME NEW t \in Task, Insert(t) PROVE Places' /\ Ends'
  <2>1. SamePlaces /\ \A u \in Task : row[u].status \in Terminal => row'[u].status \in Terminal
    BY <1>1 DEF Insert, SamePlaces, IInv, TypeOK, Row, Terminal
  <2> QED BY <1>1, <2>1, OthersKeep DEF Insert, cloud, scheduler
<1>2. ASSUME NEW t \in Task, ScheduleInserted(t) PROVE Places' /\ Ends'
  BY <1>2, DoubledGrows, OthersKeep DEF ScheduleInserted, SamePlaces, cloud
<1>3. CASE RemoveUnused
  BY <1>3, OthersKeep DEF RemoveUnused, SamePlaces, cloud, scheduler
<1>4. CASE Crash
  <2>1. /\ \A w \in Worker : step'[w] = "idle"
        /\ UNCHANGED <<row, doubled, revived, instances, events>> /\ SamePlaces
    BY <1>4 DEF Crash, cloud, SamePlaces
  <2>2. \A w \in Worker : PlaceKnown(w)'
    BY <2>1 DEF PlaceKnown
  <2>3. Places'
    BY <2>1, <2>2, PlacesKept
  <2>4. Ends'
    BY <2>1, EndsKept DEF OnPlace
  <2> QED BY <2>3, <2>4
<1>5. CASE Restore
  BY <1>5, DoubledGrows, OthersKeep DEF Restore, SamePlaces, cloud
<1>6. CASE CommitRestored
  <2>1. /\ revived' = revived \cup Revivals
        /\ UNCHANGED <<scheduler, workers, instances, events>>
    BY <1>6 DEF CommitRestored
  <2> DEFINE pending(t) == [restored[t] EXCEPT !.status = "pending"]
             new == [t \in Task |-> IF restored[t].status = "running"
                                    THEN Merge(restored[t], pending(t), row[t]) ELSE row[t]]
  <2>2. row' = new \/ row' = row
    BY <1>6 DEF CommitRestored
  <2>3. ASSUME NEW t \in Task
        PROVE  LET m == Merge(restored[t], pending(t), row[t])
               IN /\ m.remaining = row[t].remaining /\ m.domain = row[t].domain
                  /\ m.status \in {row[t].status, "pending"}
    <3>1. /\ restored[t] \in Row
          /\ pending(t).remaining = restored[t].remaining /\ pending(t).domain = restored[t].domain
          /\ pending(t).status = "pending"
      BY DEF IInv, TypeOK, Row
    <3> HIDE DEF pending
    <3> QED BY <3>1 DEF Merge
  <2> HIDE DEF pending
  <2>4. SamePlaces /\ \A t \in Task : row'[t].status \in {row[t].status, "pending"}
    BY <2>2, <2>3 DEF SamePlaces
  <2>5. \A t \in Task \ revived' : row[t].status \in Terminal => row'[t].status \in Terminal
    BY <2>1, <2>4 DEF Revivals, Active
  <2> QED BY <2>1, <2>4, <2>5, OthersKeep DEF scheduler
<1>7. CASE UNCHANGED vars
  BY <1>7, OthersKeep DEF vars, SamePlaces, cloud, scheduler
<1> QED BY <1>1, <1>2, <1>3, <1>4, <1>5, <1>6, <1>7

(* A call adds at most the instance of the place, and a capacity error adds none. *)
LEMMA LaunchPlaces ==
  ASSUME IInv, Places, Ends, NEW w \in Worker, LaunchInstance(w)
  PROVE  Places' /\ Ends'
<1>1. /\ step[w] = "launching" /\ task[w] \in Task /\ launch[w] \in Place /\ AtWork(w)
      /\ step' = [step EXCEPT ![w] = "launched"] /\ step'[w] = "launched"
      /\ \A u \in Worker \ {w} : step'[u] = step[u] /\ outcome'[u] = outcome[u]
      /\ UNCHANGED <<row, task, seen, launch, events, doubled, revived>>
  BY DEF LaunchInstance, MoveTo, IInv, TypeOK, Exclusive, AtWork, scheduler
<1>2. /\ instances' = instances \cup {Launching(w)} \/ instances' = instances
      /\ outcome'[w] = "success" => Launching(w) \in instances'
      /\ outcome'[w] = "capacity" => Launching(w) \notin instances'
  BY DEF LaunchInstance, IInv, TypeOK, Outcome
<1>3. Launching(w) = [task |-> task[w], place |-> launch[w]]
  BY DEF Launching
<1>4. task[w] \notin doubled =>
        /\ launch[w].remaining = row[task[w]].remaining
        /\ launch[w].domain = row[task[w]].domain % Domains
        /\ \A u \in Worker \ {w} : AtWork(u) => task[u] # task[w]
  BY <1>1 DEF Places, PlaceKnown, IInv, Exclusive, OneExecution
<1>5. NoDuplicateLaunch'
  <2> SUFFICES ASSUME NEW i \in instances, i.task = task[w], i.place.remaining = launch[w].remaining,
                      i.place.remaining > 0, task[w] \notin doubled
               PROVE  i = Launching(w)
    BY <1>1, <1>2, <1>3 DEF Places, NoDuplicateLaunch
  <2>1. i.place.domain = launch[w].domain /\ i.place \in Place /\ i \in Identity
    BY <1>1, <1>4 DEF Places, IInv, TypeOK, Identity
  <2>2. i.place = launch[w]
    BY <1>1, <2>1 DEF Place
  <2> QED BY <1>3, <2>1, <2>2 DEF Identity
<1>6. \A i \in instances' : i.task \notin doubled' =>
       /\ row'[i.task].remaining <= i.place.remaining
       /\ row'[i.task].remaining = i.place.remaining /\ i.place.remaining > 0 =>
            i.place.domain = row'[i.task].domain % Domains
  <2>1. task[w] \notin doubled => row[task[w]].remaining <= launch[w].remaining
    BY <1>1, <1>4, CreateTaskAssumption DEF Place
  <2> QED BY <1>1, <1>2, <1>3, <1>4, <2>1 DEF Places
<1>7. ASSUME NEW u \in Worker, task'[u] \in Task \ doubled' PROVE PlaceKnown(u)'
  <2>1. CASE u = w
    BY <1>1, <1>2, <1>4, <1>7, <2>1 DEF PlaceKnown, Launching
  <2>2. CASE u # w
    <3>1. step[u] \in {"launched", "recording"} => Launching(u) # Launching(w)
      BY <1>1, <1>4, <1>7, <2>2 DEF Launching, AtWork
    <3>2. PlaceKnown(u)
      BY <1>1, <1>7 DEF Places
    <3> QED BY <1>1, <1>2, <2>2, <3>1, <3>2 DEF PlaceKnown, Launching
  <2> QED BY <2>1, <2>2
<1>8. \A u \in Worker : step'[u] \in {"launched", "recording"} /\ outcome'[u] = "success" =>
        Launching(u)' \in instances'
  BY <1>1, <1>2 DEF Places, Launching
<1>9. Places'
  BY <1>1, <1>2, <1>5, <1>6, <1>7, <1>8 DEF Places
<1>10. ASSUME NEW t \in Sound, NEW i \in Of(t, instances') PROVE i.place.remaining > 0
  <2>1. task[w] \in Sound => launch[w].remaining > 0
    BY <1>1, <1>4 DEF Ends, Sound, OnPlace
  <2>2. i.task = t /\ (i \in instances \/ i = Launching(w))
    BY <1>2, <1>10 DEF Of
  <2>3. i \in instances => i.place.remaining > 0
    BY <2>2 DEF Ends, Of
  <2>4. i = Launching(w) => i.place = launch[w] /\ t = task[w]
    BY <1>3, <2>2
  <2> QED BY <2>1, <2>2, <2>3, <2>4
<1>11. Ends'
  BY <1>1, <1>10 DEF Ends, Sound, Of, OnPlace
<1> QED BY <1>9, <1>11

(* What a result makes of the place: a success leaves it behind, and the domain is changed *)
(* only where no instance can be left in the old one.                                      *)
LEMMA RecordedPlace ==
  ASSUME NEW r \in Row, NEW o \in Outcome
  PROVE  /\ Recorded(r, o).remaining = Left(r, o)
         /\ Recorded(r, o).domain # r.domain => o \in {"success", "capacity"}
         /\ Recorded(r, o).status \in Terminal \/ Left(r, o) # 0
         /\ r.status = "cancelled" => Recorded(r, o).status = "cancelled"
<1>1. Left(r, o) \in 0..Requested
  BY CreateTaskAssumption DEF Left, Row
<1> DEFINE counted == [r EXCEPT !.remaining = Left(r, o)]
           rotated == [counted EXCEPT !.domain =
                         IF Rotating /\ o \in {"success", "capacity"} THEN @ + 1 ELSE @]
<1>2. /\ counted.remaining = Left(r, o) /\ counted.domain = r.domain /\ counted.status = r.status
      /\ counted \in Row
  BY <1>1 DEF Row
<1>3. /\ rotated.remaining = Left(r, o)
      /\ rotated.domain # r.domain => o \in {"success", "capacity"}
      /\ DOMAIN rotated = DOMAIN r
  BY <1>2 DEF Row
<1>4. Recorded(r, o) =
        IF r.status = "cancelled" THEN counted
        ELSE IF rotated.remaining = 0 THEN [rotated EXCEPT !.status = "succeeded"]
        ELSE IF o = "refused" \/ Exhausted(r) THEN [rotated EXCEPT !.status = "failed"]
        ELSE IF r.paused \/ r.status = "paused"
             THEN [rotated EXCEPT !.status = "paused", !.paused = TRUE]
        ELSE [rotated EXCEPT !.status = "pending"]
  BY DEF Recorded, counted, rotated
<1>5. "status" \in DOMAIN r
  BY DEF Row
<1> HIDE DEF counted, rotated
<1>6. CASE r.status = "cancelled"
  BY <1>2, <1>4, <1>6 DEF Terminal
<1>7. CASE r.status # "cancelled"
  <2>1. \A s : /\ [rotated EXCEPT !.status = s].remaining = rotated.remaining
               /\ [rotated EXCEPT !.status = s].domain = rotated.domain
               /\ [rotated EXCEPT !.status = s].status = s
    BY <1>3, <1>5
  <2>2. \A s : /\ [rotated EXCEPT !.status = s, !.paused = TRUE].remaining = rotated.remaining
               /\ [rotated EXCEPT !.status = s, !.paused = TRUE].domain = rotated.domain
    BY <1>3, <1>5
  <2>3. rotated.remaining = 0 => Recorded(r, o) = [rotated EXCEPT !.status = "succeeded"]
    BY <1>4, <1>7
  <2>4. /\ Recorded(r, o).remaining = rotated.remaining
        /\ Recorded(r, o).domain = rotated.domain
    BY <1>4, <1>7, <2>1, <2>2
  <2> QED BY <1>3, <1>7, <2>1, <2>3, <2>4 DEF Terminal
<1> QED BY <1>6, <1>7

LEMMA RecordPlaces ==
  ASSUME IInv, Places, Ends, NEW w \in Worker, Record(w)
  PROVE  Places' /\ Ends'
<1> DEFINE t == task[w]
           o == outcome[w]
           new == Recorded(seen[w], o)
<1>1. /\ step[w] = "recording" /\ t \in Task /\ seen[w] \in Row /\ row[t] \in Row /\ o \in Outcome
      /\ AtWork(w)
  BY DEF Record, IInv, TypeOK, Exclusive, AtWork
<1>2. /\ step'[w] \in {"done", "retry"}
      /\ \A u \in Worker \ {w} : UNCHANGED <<step[u], seen[u], outcome[u]>>
      /\ UNCHANGED <<task, launch, instances, doubled, revived>>
      /\ \/ Conflicts(t, seen[w], new) /\ events' = events
         \/ /\ Saves(t, seen[w], new)
            /\ events' = IF o = "success" THEN events \cup {Launching(w)} ELSE events
  BY DEF Record, MoveTo, IInv, TypeOK, scheduler, cloud
<1>3. CASE Conflicts(t, seen[w], new) /\ events' = events
  <2>1. row' = row /\ SamePlaces
    BY <1>3 DEF Conflicts, SamePlaces
  <2>2. PlaceKnown(w)'
    BY <1>2 DEF PlaceKnown
  <2> QED BY <1>2, <1>3, <2>1, <2>2, WorkerKeeps DEF OnPlace
<1>4. CASE /\ Saves(t, seen[w], new)
           /\ events' = IF o = "success" THEN events \cup {Launching(w)} ELSE events
  <2>1. /\ new \in Row /\ new.remaining = Left(seen[w], o)
        /\ new.domain # seen[w].domain => o \in {"success", "capacity"}
        /\ new.status \in Terminal \/ Left(seen[w], o) # 0
        /\ seen[w].status = "cancelled" => new.status = "cancelled"
    BY <1>1, RecordedPlace, RecordedType
  <2> HIDE DEF new
  <2>2. /\ \A u \in Task \ {t} : row'[u] = row[u]
        /\ row'[t] = Merge(seen[w], new, row[t])
    BY <1>1, <1>4 DEF Saves, Updated, IInv, TypeOK
  <2>3. /\ row'[t].remaining = IF new.remaining = seen[w].remaining THEN row[t].remaining ELSE new.remaining
        /\ row'[t].domain = IF new.domain = seen[w].domain THEN row[t].domain ELSE new.domain
        /\ row'[t].status = IF new.status = seen[w].status THEN row[t].status ELSE new.status
    BY <2>2 DEF Merge
  <2>4. Launching(w).task = t /\ Launching(w).place = launch[w] /\ Launching(w) \in Identity
    BY <1>1 DEF Launching, Identity, IInv, TypeOK
  <2>5. t \notin doubled =>
          /\ seen[w].remaining = row[t].remaining /\ seen[w].domain = row[t].domain
          /\ launch[w].remaining = row[t].remaining /\ launch[w].domain = row[t].domain % Domains
          /\ o = "capacity" => Launching(w) \notin instances
          /\ \A u \in Worker \ {w} : AtWork(u) => task[u] # t
    BY <1>1 DEF Places, PlaceKnown, IInv, Exclusive, OneExecution
  <2>6. row[t].remaining \in Nat /\ seen[w].remaining \in Nat
    BY <1>1, CreateTaskAssumption DEF Row
  <2>7. t \notin doubled =>
          row'[t].remaining = IF o = "success" /\ row[t].remaining > 0 THEN row[t].remaining - 1
                              ELSE row[t].remaining
    BY <2>1, <2>3, <2>5, <2>6 DEF Left
  <2>8. ASSUME NEW i \in instances, i.task \notin doubled
        PROVE  /\ row'[i.task].remaining <= i.place.remaining
               /\ row'[i.task].remaining = i.place.remaining /\ i.place.remaining > 0 =>
                    i.place.domain = row'[i.task].domain % Domains
    <3>1. i \in Identity /\ i.task \in Task /\ i.place \in Place /\ i.place.remaining \in Nat
      BY CreateTaskAssumption DEF IInv, TypeOK, Identity, Place
    <3>2. CASE i.task # t
      BY <2>2, <2>8, <3>1, <3>2 DEF Places
    <3>3. CASE i.task = t
      <4>1. /\ row[t].remaining <= i.place.remaining
            /\ row[t].remaining = i.place.remaining /\ i.place.remaining > 0 =>
                 i.place.domain = row[t].domain % Domains
        BY <2>8, <3>3 DEF Places
      <4>2. row'[t].remaining <= i.place.remaining
        BY <2>6, <2>7, <2>8, <3>1, <3>3, <4>1
      <4>3. ASSUME row'[t].remaining = i.place.remaining, i.place.remaining > 0
            PROVE  i.place.domain = row'[t].domain % Domains
        <5>1. o # "success" /\ row[t].remaining = i.place.remaining
          BY <2>6, <2>7, <2>8, <3>1, <3>3, <4>1, <4>3
        <5>2. i.place = launch[w]
          <6>1. launch[w] \in Place
            BY DEF IInv, TypeOK
          <6>2. i.place.domain = launch[w].domain /\ i.place.remaining = launch[w].remaining
            BY <2>5, <2>8, <3>3, <4>1, <4>3, <5>1
          <6> QED BY <3>1, <6>1, <6>2 DEF Place
        <5>3. i = Launching(w)
          BY <2>4, <3>1, <3>3, <5>2 DEF Identity
        <5>4. o # "capacity"
          BY <2>5, <2>8, <3>3, <5>3
        <5>5. row'[t].domain = row[t].domain
          BY <2>1, <2>3, <5>1, <5>4
        <5> QED BY <4>1, <4>3, <5>1, <5>5
      <4> QED BY <3>3, <4>2, <4>3
    <3> QED BY <3>2, <3>3
  <2>9. ASSUME NEW u \in Worker, task[u] \in Task \ doubled PROVE PlaceKnown(u)'
    <3>1. CASE u = w \/ ~AtWork(u)
      BY <1>2, <3>1 DEF PlaceKnown, AtWork
    <3>2. CASE u # w /\ AtWork(u)
      <4>1. row'[task[u]] = row[task[u]]
        BY <2>2, <2>5, <2>9, <3>2
      <4> QED BY <1>2, <2>9, <3>2, <4>1 DEF Places, PlaceKnown, Launching
    <3> QED BY <3>1, <3>2
  <2>10. events' \subseteq instances
    BY <1>1, <1>4 DEF Places
  <2>11. \A u \in Worker : step'[u] \in {"launched", "recording"} /\ outcome'[u] = "success" =>
           Launching(u)' \in instances
    BY <1>2 DEF Places, Launching
  <2>12. Places'
    BY <1>2, <2>8, <2>9, <2>10, <2>11 DEF Places, NoDuplicateLaunch
  <2>13. IsFiniteSet(events')
    BY <1>4, FS_AddElement DEF Ends
  <2>14. ASSUME t \in Sound
         PROVE  /\ row'[t].remaining = 0 => row'[t].status \in Terminal
                /\ \A e \in Of(t, events') : e.place.remaining > row'[t].remaining
                /\ Requested - row'[t].remaining = Cardinality(Of(t, events'))
    <3>1. row[t].remaining > 0 /\ t \notin doubled
      BY <1>1, <2>14 DEF Ends, Sound, OnPlace
    <3>2. /\ \A e \in Of(t, events) : e.place.remaining > row[t].remaining
          /\ Requested - row[t].remaining = Cardinality(Of(t, events))
      BY <2>14 DEF Ends
    <3>3. row'[t].remaining = 0 => row'[t].status \in Terminal
      <4>1. seen[w].status \in Terminal => row[t].status \in Terminal
        BY <1>1, <2>14 DEF Ends
      <4>2. row'[t].remaining = 0 => Left(seen[w], o) = 0
        BY <2>3, <2>5, <2>1, <3>1
      <4> QED BY <2>1, <2>3, <4>1, <4>2
    <3>4. CASE o # "success"
      BY <1>4, <2>7, <3>1, <3>2, <3>3, <3>4
    <3>5. CASE o = "success"
      <4>1. row'[t].remaining = row[t].remaining - 1
        BY <2>7, <3>1, <3>5
      <4>2. Of(t, events') = Of(t, events) \cup {Launching(w)}
        BY <1>4, <2>4, <3>5 DEF Of
      <4>3. Launching(w) \notin Of(t, events)
        BY <2>4, <2>5, <2>6, <3>1, <3>2
      <4>4. IsFiniteSet(Of(t, events))
        BY FS_Subset DEF Ends, Of
      <4>5. Cardinality(Of(t, events')) = Cardinality(Of(t, events)) + 1
        BY <4>2, <4>3, <4>4, FS_AddElement
      <4>6. \A e \in Of(t, events') : e.place.remaining > row'[t].remaining
        <5>1. \A e \in Of(t, events) : e.place.remaining \in Nat
          BY CreateTaskAssumption DEF Of, IInv, TypeOK, Identity, Place
        <5> QED BY <2>4, <2>5, <2>6, <3>1, <3>2, <4>1, <4>2, <5>1
      <4>7. Requested \in Nat
        BY CreateTaskAssumption
      <4> QED BY <2>6, <3>2, <3>3, <4>1, <4>5, <4>6, <4>7
    <3> QED BY <3>4, <3>5
  <2>15. ASSUME NEW s \in Sound, s # t
         PROVE  row'[s] = row[s] /\ Of(s, events') = Of(s, events)
    BY <1>4, <2>2, <2>4, <2>15 DEF Sound, Of
  <2>16. ASSUME NEW u \in Worker, task[u] \in Sound
         PROVE  /\ step'[u] \in OnPlace => row'[task[u]].remaining > 0
                /\ step'[u] = "recording" /\ seen'[u].status \in Terminal => row'[task[u]].status \in Terminal
    <3>1. CASE u = w \/ ~AtWork(u)
      BY <1>2, <3>1 DEF OnPlace, AtWork
    <3>2. CASE u # w /\ AtWork(u)
      <4>1. row'[task[u]] = row[task[u]]
        BY <2>2, <2>5, <2>16, <3>2 DEF Sound
      <4> QED BY <1>2, <2>16, <3>2, <4>1 DEF Ends
    <3> QED BY <3>1, <3>2
  <2>17. Sound' = Sound
    BY <1>2 DEF Sound
  <2>18. ASSUME NEW s \in Sound
         PROVE  /\ row'[s].remaining = 0 => row'[s].status \in Terminal
                /\ \A i \in Of(s, instances') : i.place.remaining > 0
                /\ \A e \in Of(s, events') : e.place.remaining > row'[s].remaining
                /\ Requested - row'[s].remaining = Cardinality(Of(s, events'))
    <3>1. \A i \in Of(s, instances') : i.place.remaining > 0
      BY <1>2 DEF Ends, Of
    <3> QED BY <2>14, <2>15, <3>1 DEF Ends
  <2>19. Ends'
    BY <1>2, <2>13, <2>16, <2>17, <2>18 DEF Ends
  <2> QED BY <2>12, <2>19
<1> QED BY <1>2, <1>3, <1>4

LEMMA PlacesStep == IInv /\ Places /\ Ends /\ [Next]_vars => Places' /\ Ends'
  BY WorkerPlaces, LaunchPlaces, RecordPlaces, RequestPlaces, ProcessPlaces DEF Next

(* An execution has its task to itself and never calls OCI more often than it has counted,  *)
(* whatever requests and crashes come between its transactions.                             *)
THEOREM ExecutionsAreExclusive == Spec => []TaskInv
<1>1. IInv => TaskInv
  BY DEF IInv, TaskInv, Exclusive, Counted
<1> QED BY InvInit, InvStep, <1>1, PTL DEF Spec
(* No place of a task is filled twice, in no domain and across crashes; a task that leaves  *)
(* more instances than requested was taken for unfinished after its end.                     *)
THEOREM NoInstanceTooMany == Spec => []NoSurplusInstance
<1>1. ASSUME IInv, Places, Ends, NEW t \in Sound
      PROVE  ~(Cardinality(Of(t, instances)) > Requested)
  <2> DEFINE T == Of(t, instances)
             filled == [i \in T |-> i.place.remaining]
  <2>1. \A i \in T : i \in instances /\ i.task = t /\ i.place.remaining \in 1..Requested
    <3>1. \A i \in T : i \in instances /\ i.task = t /\ i.place.remaining > 0
      BY <1>1 DEF Of, Ends
    <3>2. \A i \in instances : i.place.remaining \in 0..Requested
      BY <1>1 DEF IInv, TypeOK, Identity, Place
    <3> QED BY <3>1, <3>2, CreateTaskAssumption
  <2>2. t \notin doubled /\ NoDuplicateLaunch
    BY <1>1 DEF Sound, Places
  <2>3. \A i, j \in T : i.place.remaining = j.place.remaining => i = j
    BY <2>1, <2>2 DEF NoDuplicateLaunch
  <2>4. filled \in Injection(T, 1..Requested)
    BY <2>1, <2>3 DEF Injection, IsInjective
  <2>5. IsFiniteSet(1..Requested) /\ Cardinality(1..Requested) = Requested
    BY FS_Interval, CreateTaskAssumption
  <2> HIDE DEF T, filled
  <2>6. IsFiniteSet(T) /\ Cardinality(T) <= Requested
    BY <2>4, <2>5, FS_Injection
  <2>7. Cardinality(T) \in Nat
    BY <2>6, FS_CardinalityType
  <2> QED BY <2>6, <2>7, CreateTaskAssumption DEF T
<1>2. IInv /\ Places /\ Ends => NoSurplusInstance
  BY <1>1 DEF NoSurplusInstance, NoMoreThanRequested, Places, Sound
<1> QED BY InvInit, InvStep, PlacesInit, PlacesStep, <1>2, PTL DEF Spec

(* Every success that is taken off the count is notified, once, and for an instance that    *)
(* exists: the row, the notification and OCI agree through conflicts, requests and crashes.  *)
THEOREM ResultsAreAccounted == Spec => []Accounted
<1>1. Places /\ Ends => Accounted
  BY DEF Places, Ends, Accounted, Sound
<1> QED BY InvInit, InvStep, PlacesInit, PlacesStep, <1>1, PTL DEF Spec

-----------------------------------------------------------------------------
(* What the reduced scheduler has in common with the full one: only registered tasks are    *)
(* held or executed, and a worker has a task from its dispatch to its completion.            *)
SchedulerShape ==
  /\ held \subseteq registered
  /\ \A t \in Task \ registered : runner[t] = NoWorker
  /\ \A w \in Worker : step[w] = "idle" <=> task[w] = NoTask

AtSchedule == <<registered, held, runner, task>>

\* A step of a worker between its dispatch and its completion.
LEMMA InsideAnExecution ==
  ASSUME NEW w \in Worker,
         Fetch(w) \/ GiveUp(w) \/ FindUser(w) \/ Prepare(w) \/ LaunchInstance(w) \/ Refetch(w) \/ Record(w)
  PROVE  /\ UNCHANGED AtSchedule
         /\ step[w] # "idle"
         /\ \E s \in Step \ {"idle"} : step' = [step EXCEPT ![w] = s]
<1> USE DEF MoveTo, scheduler, AtSchedule, Step
<1>1. CASE Fetch(w) \/ FindUser(w) \/ LaunchInstance(w) \/ Refetch(w)
  BY <1>1 DEF Fetch, FindUser, LaunchInstance, Refetch
<1>2. CASE GiveUp(w)
  BY <1>2 DEF GiveUp, Fail
<1>3. CASE Prepare(w)
  BY <1>3 DEF Prepare
<1>4. CASE Record(w)
  BY <1>4 DEF Record
<1> QED BY <1>1, <1>2, <1>3, <1>4

\* The requests, the INSERT and the restart, as far as they do not call the scheduler.
LEMMA BesideTheScheduler ==
  ASSUME \/ \E t \in Task : Insert(t)
         \/ \E r \in Request : CommitRequest(r) \/ \E k \in Kinds, t \in Named : ReadRequest(r, k, t)
         \/ RemoveUnused \/ CommitRestored \/ UNCHANGED vars
  PROVE  UNCHANGED AtSchedule /\ UNCHANGED step
BY DEF Insert, CommitRequest, ReadRequest, RemoveUnused, CommitRestored, vars, scheduler, workers, AtSchedule

LEMMA SchedulesAsPromised ==
  ASSUME TypeOK, SchedulerShape, NEW S \in SUBSET Task, Schedule(S), UNCHANGED <<step, task>>
  PROVE  /\ SchedulerShape'
         /\ Scheduler!Schedule(S \ registered, {}) \/ UNCHANGED AtSchedule
<1> USE DEF TypeOK, SchedulerShape, Schedule
<1>1. held' = held /\ runner' = runner /\ registered' = registered \cup (S \ registered)
  OBVIOUS
<1>2. SchedulerShape'
  BY <1>1
<1>3. Scheduler!Schedule(S \ registered, {})
  BY <1>1 DEF Scheduler!Schedule
<1> QED BY <1>2, <1>3

LEMMA UnschedulesAsPromised ==
  ASSUME TypeOK, SchedulerShape, NEW t \in Task, Unschedule(t)
  PROVE  /\ held' \subseteq registered' /\ \A u \in Task \ registered' : runner'[u] = NoWorker
         /\ Scheduler!Leave({t})
BY DEF TypeOK, SchedulerShape, Unschedule, Scheduler!Leave

\* The pool has a worker for an execution that begins.
LEMMA OneIsFree ==
  ASSUME NEW w \in Worker, task[w] = NoTask
  PROVE  Cardinality({d \in Worker : task[d] # NoTask}) < Cardinality(Worker)
<1> DEFINE B == {d \in Worker : task[d] # NoTask}
<1>1. IsFiniteSet(Worker) /\ IsFiniteSet(B) /\ B \subseteq Worker /\ B # Worker
  BY CreateTaskAssumption, FS_Subset
<1>2. Cardinality(B) <= Cardinality(Worker) /\ Cardinality(B) # Cardinality(Worker)
  BY <1>1, FS_Subset
<1>3. Cardinality(B) \in Nat /\ Cardinality(Worker) \in Nat
  BY <1>1, FS_CardinalityType
<1> QED BY <1>2, <1>3

LEMMA DispatchesAsPromised ==
  ASSUME TypeOK, SchedulerShape, NEW w \in Worker, NEW t \in Task, Dispatch(w, t)
  PROVE  SchedulerShape' /\ Scheduler!Dispatch(w, t)
<1> USE DEF TypeOK, SchedulerShape
<1>1. /\ t \in registered \ held /\ runner[t] = NoWorker /\ task[w] = NoTask
      /\ runner' = [runner EXCEPT ![t] = w] /\ task' = [task EXCEPT ![w] = t]
      /\ step' = [step EXCEPT ![w] = "starting"] /\ UNCHANGED <<registered, held>>
  BY DEF Dispatch
<1>2. SchedulerShape'
  BY <1>1, CreateTaskAssumption
<1>3. Scheduler!Cardinality({d \in Worker : task[d] # NoTask})
        = Cardinality({d \in Worker : task[d] # NoTask})
  BY DEF Scheduler!Cardinality, Cardinality
<1> QED BY <1>1, <1>2, <1>3, OneIsFree DEF Scheduler!Dispatch

LEMMA CompletesAsPromised ==
  ASSUME TypeOK, Exclusive, SchedulerShape, NEW w \in Worker, Complete(w)
  PROVE  SchedulerShape' /\ Scheduler!Complete(w)
<1> USE DEF TypeOK, SchedulerShape
<1>1. /\ task[w] \in Task /\ task[w] # NoTask
      /\ task' = [task EXCEPT ![w] = NoTask] /\ step' = [step EXCEPT ![w] = "idle"]
  BY CreateTaskAssumption DEF Complete, Exclusive
<1>2. CASE runner[task[w]] # w
  <2>1. UNCHANGED <<registered, held, runner>>
    BY <1>2 DEF Complete, scheduler
  <2> QED BY <1>1, <1>2, <2>1 DEF Scheduler!Complete
<1>3. CASE runner[task[w]] = w /\ step[w] = "done"
  <2>1. Unschedule(task[w])
    BY <1>3 DEF Complete
  <2> QED BY <1>1, <1>3, <2>1, UnschedulesAsPromised DEF Scheduler!Complete
<1>4. CASE runner[task[w]] = w /\ step[w] # "done"
  <2>1. runner' = [runner EXCEPT ![task[w]] = NoWorker] /\ UNCHANGED <<registered, held>>
    BY <1>4 DEF Complete
  <2> QED BY <1>1, <1>4, <2>1 DEF Scheduler!Complete
<1> QED BY <1>2, <1>3, <1>4

LEMMA AppliesAsPromised ==
  ASSUME TypeOK, Exclusive, SchedulerShape, NEW r \in Request, ApplyRequest(r)
  PROVE  SchedulerShape' /\ (Scheduler!Next \/ UNCHANGED AtSchedule)
<1> DEFINE t == req[r].task
<1>1. t \in Task /\ UNCHANGED <<step, task>> /\ req[r].kind \in RequestKind
  BY DEF ApplyRequest, workers, Exclusive, TypeOK
<1> HIDE DEF t
<1>2. CASE Unschedule(t)
  <2>1. Scheduler!Unschedule({t})
    BY <1>1, <1>2, UnschedulesAsPromised DEF Scheduler!Unschedule
  <2>2. SchedulerShape'
    BY <1>1, <1>2, UnschedulesAsPromised DEF SchedulerShape
  <2> QED BY <1>1, <2>1, <2>2 DEF Scheduler!Next
<1>3. CASE Schedule({t})
  <2>1. SchedulerShape' /\ (Scheduler!Schedule({t} \ registered, {}) \/ UNCHANGED AtSchedule)
    BY <1>1, <1>3, SchedulesAsPromised
  <2> QED BY <1>1, <2>1 DEF Scheduler!Next
<1>4. CASE UNCHANGED <<registered, runner>> /\ held' = held \cup ({t} \cap registered)
  <2>1. SchedulerShape'
    BY <1>1, <1>4 DEF SchedulerShape
  <2>2. Scheduler!Hold(t) \/ UNCHANGED AtSchedule
    BY <1>1, <1>4 DEF Scheduler!Hold, AtSchedule
  <2> QED BY <1>1, <2>1, <2>2 DEF Scheduler!Next
<1>5. CASE UNCHANGED <<registered, runner>> /\ held' = held \ {t} /\ t \in registered
  <2>1. SchedulerShape'
    BY <1>1, <1>5 DEF SchedulerShape
  <2>2. Scheduler!Release(t)
    BY <1>1, <1>5 DEF Scheduler!Release
  <2> QED BY <1>1, <2>1, <2>2 DEF Scheduler!Next
<1> QED BY <1>1, <1>2, <1>3, <1>4, <1>5 DEF ApplyRequest, RequestKind, t

LEMMA StepAsPromised ==
  ASSUME TypeOK, Exclusive, SchedulerShape, [Next]_vars
  PROVE  SchedulerShape' /\ (Scheduler!Next \/ Scheduler!Crash \/ UNCHANGED AtSchedule)
<1>1. CASE \/ \E t \in Task : Insert(t)
           \/ \E r \in Request : CommitRequest(r) \/ \E k \in Kinds, t \in Named : ReadRequest(r, k, t)
           \/ RemoveUnused \/ CommitRestored \/ UNCHANGED vars
  BY <1>1, BesideTheScheduler DEF SchedulerShape, AtSchedule
<1>2. ASSUME NEW t \in Task, ScheduleInserted(t)
      PROVE  SchedulerShape' /\ (Scheduler!Next \/ UNCHANGED AtSchedule)
  <2>1. SchedulerShape' /\ (Scheduler!Schedule({t} \ registered, {}) \/ UNCHANGED AtSchedule)
    BY <1>2, SchedulesAsPromised DEF ScheduleInserted, workers
  <2> QED BY <2>1 DEF Scheduler!Next
<1>3. CASE Restore
  <2> DEFINE S == {t \in Task : row[t].status \in {"pending", "running"}}
  <2>1. SchedulerShape' /\ (Scheduler!Schedule(S \ registered, {}) \/ UNCHANGED AtSchedule)
    BY <1>3, SchedulesAsPromised DEF Restore, workers
  <2> QED BY <2>1 DEF Scheduler!Next
<1>4. CASE Crash
  BY <1>4 DEF Crash, Scheduler!Crash, SchedulerShape
<1>5. ASSUME NEW w \in Worker, NEW t \in Task, Dispatch(w, t)
      PROVE  SchedulerShape' /\ Scheduler!Next
  BY <1>5, DispatchesAsPromised DEF Scheduler!Next
<1>6. ASSUME NEW w \in Worker, Complete(w)
      PROVE  SchedulerShape' /\ Scheduler!Next
  BY <1>6, CompletesAsPromised DEF Scheduler!Next
<1>7. ASSUME NEW w \in Worker,
             Fetch(w) \/ GiveUp(w) \/ FindUser(w) \/ Prepare(w) \/ LaunchInstance(w) \/ Refetch(w) \/ Record(w)
      PROVE  SchedulerShape' /\ UNCHANGED AtSchedule
  <2>1. UNCHANGED AtSchedule /\ step[w] # "idle"
    BY <1>7, InsideAnExecution
  <2>2. PICK s \in Step \ {"idle"} : step' = [step EXCEPT ![w] = s]
    BY <1>7, InsideAnExecution
  <2> QED BY <2>1, <2>2 DEF SchedulerShape, AtSchedule, TypeOK
<1>8. ASSUME NEW r \in Request, ApplyRequest(r)
      PROVE  SchedulerShape' /\ (Scheduler!Next \/ UNCHANGED AtSchedule)
  BY <1>8, AppliesAsPromised
<1> QED BY <1>1, <1>2, <1>3, <1>4, <1>5, <1>6, <1>7, <1>8 DEF Next

(* For any tasks, workers, requests and crashes, the tasks are scheduled and executed only   *)
(* as SchedulerPromise says, which TaskScheduler keeps (SchedulerActsAsPromised).             *)
THEOREM TasksKeepToScheduler == Spec => KeepsToScheduler
<1>1. Init => SchedulerShape /\ Scheduler!Init
  BY DEF Init, SchedulerShape, Scheduler!Init
<1>2. IInv /\ SchedulerShape /\ [Next]_vars => SchedulerShape'
  BY StepAsPromised DEF IInv
<1>3. IInv /\ SchedulerShape /\ [Next]_vars => [Scheduler!Next \/ Scheduler!Crash]_(Scheduler!vars)
  BY StepAsPromised DEF IInv, Scheduler!vars, AtSchedule
<1> QED BY InvInit, InvStep, <1>1, <1>2, <1>3, PTL DEF Spec, KeepsToScheduler, Scheduler!SpecWithCrashes
=============================================================================
