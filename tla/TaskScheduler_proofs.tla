------------------------- MODULE TaskScheduler_proofs -------------------------
(***************************************************************************)
(* Proofs about TaskScheduler for any sets of keys and jobs and any number *)
(* of workers, with executor.submit failing or not.                        *)
(***************************************************************************)
EXTENDS TaskScheduler, FiniteSetTheorems, TLAPS

USE SchedulerAssumption

\* Whatever is in flight is a finite set of jobs, so it has a size.
LEMMA InFlightFinite == IsFiniteSet(InFlight) /\ Cardinality(InFlight) \in Nat
  BY FS_Subset, FS_CardinalityType DEF InFlight

\* A step that starts nothing new keeps the pool within its bound.
LEMMA ShrinkingInFlight ==
  ASSUME WorkerBound, InFlight' \subseteq InFlight
  PROVE  WorkerBound'
<1>1. Cardinality(InFlight') <= Cardinality(InFlight)
  BY InFlightFinite, FS_Subset
<1>2. IsFiniteSet(InFlight') /\ Cardinality(InFlight') \in Nat
  BY InFlightFinite, FS_Subset, FS_CardinalityType
<1>3. QED
  BY <1>1, <1>2, InFlightFinite DEF WorkerBound

\* A dispatched batch never exceeds the workers that are not taken.
LEMMA BatchKeepsWorkerBound ==
  ASSUME NEW B \in SUBSET Ready, TypeOK, Available > 0,
         Cardinality(B) <= BatchSize, SubmitBatch(B)
  PROVE  WorkerBound'
<1>1. InFlight' \subseteq InFlight \cup B
  BY DEF SubmitBatch, InFlight, TypeOK
<1>2. IsFiniteSet(Ready) /\ Cardinality(Ready) \in Nat
  <2>1. Ready \subseteq Job
    BY DEF Ready, TypeOK
  <2>2. QED
    BY <2>1, FS_Subset, FS_CardinalityType
<1>3. IsFiniteSet(B) /\ Cardinality(B) \in Nat
  BY <1>2, FS_Subset, FS_CardinalityType
<1>4. Cardinality(B) <= Available
  BY <1>2, <1>3, InFlightFinite DEF BatchSize, Available
<1>5. /\ IsFiniteSet(InFlight \cup B)
      /\ Cardinality(InFlight \cup B) \in Nat
      /\ Cardinality(InFlight \cup B) <= Cardinality(InFlight) + Cardinality(B)
  <2>1. IsFiniteSet(InFlight \cup B)
    BY <1>3, InFlightFinite, FS_Union
  <2>2. Cardinality(InFlight \cup B)
          = Cardinality(InFlight) + Cardinality(B) - Cardinality(InFlight \cap B)
    BY <1>3, InFlightFinite, FS_Union
  <2>3. Cardinality(InFlight \cap B) \in Nat
    BY InFlightFinite, FS_Intersection, FS_CardinalityType
  <2>4. QED
    BY <2>1, <2>2, <2>3, <1>3, InFlightFinite, FS_CardinalityType
<1>6. Cardinality(InFlight') <= Cardinality(InFlight \cup B) /\ Cardinality(InFlight') \in Nat
  BY <1>1, <1>5, FS_Subset, FS_CardinalityType
<1>7. QED
  BY <1>3, <1>4, <1>5, <1>6, InFlightFinite DEF WorkerBound, Available

-----------------------------------------------------------------------------
\* Initially nothing is registered and nothing runs.
LEMMA InitInv == Init => SchedulerInv
<1> SUFFICES ASSUME Init PROVE SchedulerInv
  OBVIOUS
<1>1. TypeOK
  BY DEF Init, TypeOK, FutureState
<1>2. Registered = {} /\ InFlight = {}
  BY DEF Init, Registered, Current, InFlight
<1>3. WorkerBound
  BY <1>2, FS_EmptySet DEF WorkerBound
<1>4. Consistent /\ NoLostTask
  BY <1>2 DEF Init, Consistent, NoLostTask
<1>5. QED
  BY <1>1, <1>3, <1>4 DEF SchedulerInv

\* Each variable keeps its type in every step.
LEMMA NextTypeOK == TypeOK /\ [Next]_vars => TypeOK'
<1> SUFFICES ASSUME TypeOK, [Next]_vars PROVE TypeOK'
  OBVIOUS
<1> USE DEF TypeOK, FutureState, flags, timers
<1>1. CASE Start \/ Closed
  BY <1>1 DEF Start, Closed
<1>2. CASE Shutdown
  BY <1>2 DEF Shutdown, LeaveTimers, Registered
<1>3. CASE Dispatch \/ DispatchFails
  <2> USE DEF Dispatch, DispatchFails, SubmitBatch, LeaveTimers, Ready
  <2>1. PICK B \in SUBSET Ready : SubmitBatch(B) /\ dispatcher' \in BOOLEAN
    BY <1>3
  <2>2. B \subseteq Job
    BY DEF Ready
  <2>3. future' \in [Job -> FutureState] /\ running' \in SUBSET Job
    BY <2>1, <2>2
  <2>4. QED
    BY <2>1, <2>2, <2>3
<1>4. CASE \E j \in Job : \E p, d \in BOOLEAN : Submit(j, p, d)
  BY <1>4 DEF Submit, BecomeDue
<1>5. CASE \E j \in Job : Stop(j) \/ Pause(j) \/ Resume(j) \/ TimerElapses(j)
  BY <1>5 DEF Stop, Pause, Resume, TimerElapses, BecomeDue, LeaveTimers
<1>6. CASE \E j \in Job : Begin(j) \/ Skip(j) \/ Return(j) \/ CancelQueued(j)
  BY <1>6 DEF Begin, Skip, Return, CancelQueued, SetFuture
<1>7. CASE \E j \in Job : Complete(j)
  BY <1>7 DEF Complete, Settle
<1>8. CASE UNCHANGED vars
  BY <1>8 DEF vars
<1>9. QED
  BY <1>1, <1>2, <1>3, <1>4, <1>5, <1>6, <1>7, <1>8 DEF Next

-----------------------------------------------------------------------------
\* The steps that only move one job's future along leave the bookkeeping as it is.
LEMMA FutureStepKeepsInv ==
  ASSUME TypeOK, Consistent, NoLostTask, NEW j \in Job, NEW s \in FutureState \ {"none"},
         future[j] # "none", SetFuture(j, s)
  PROVE  Consistent' /\ NoLostTask' /\ InFlight' \subseteq InFlight
<1>1. \A i \in Job : future'[i] = "none" <=> future[i] = "none"
  BY DEF SetFuture, TypeOK
<1>2. UNCHANGED <<registry, functions, created, paused, running, stopped, sleeping, due, phase>>
  BY DEF SetFuture, flags, timers
<1>3. Registered' = Registered /\ Registered \subseteq Job
  BY <1>2 DEF Registered, Current
<1>4. Consistent'
  BY <1>1, <1>2, <1>3 DEF Consistent
<1>5. NoLostTask'
  BY <1>1, <1>2, <1>3 DEF NoLostTask
<1>6. QED
  BY <1>1, <1>4, <1>5 DEF InFlight

\* A submitted job is fresh: idle, unregistered, and its key is free.
LEMMA SubmitKeepsInv ==
  ASSUME TypeOK, Consistent, NoLostTask, NEW j \in Job, NEW p \in BOOLEAN, NEW d \in BOOLEAN,
         Submit(j, p, d)
  PROVE  Consistent' /\ NoLostTask' /\ InFlight' \subseteq InFlight
<1> USE DEF Submit, TypeOK
<1>1. Registered' = Registered \cup {j}
  BY DEF Registered, Current
<1>2. due' \cup sleeping' = due \cup sleeping \cup {j}
  BY DEF BecomeDue
<1>3. future[j] = "none" /\ j \notin running \cup stopped
  BY DEF Consistent
<1>4. Consistent'
  BY <1>1, <1>2, <1>3 DEF Consistent
<1>5. NoLostTask'
  <2> SUFFICES ASSUME NEW i \in Registered'
               PROVE  /\ KeyOf[i] \in functions'
                      /\ i \in running' <=> future'[i] # "none"
                      /\ i \in running' <=> i \notin due' \cup sleeping'
    BY DEF NoLostTask
  <2>1. CASE i = j
    BY <2>1, <1>2, <1>3
  <2>2. CASE i \in Registered /\ i # j
    BY <2>2, <1>2 DEF NoLostTask
  <2>3. QED
    BY <2>1, <2>2, <1>1
<1>6. QED
  BY <1>4, <1>5 DEF InFlight

\* Stopping a job takes it out of the registry and out of the timers.
LEMMA StopKeepsInv ==
  ASSUME TypeOK, Consistent, NoLostTask, NEW j \in Job, Stop(j)
  PROVE  Consistent' /\ NoLostTask' /\ InFlight' \subseteq InFlight
<1> USE DEF Stop, TypeOK, LeaveTimers
<1>1. Registered' = Registered \ {j}
  BY DEF Registered, Current
<1>2. \A i \in Registered : i # j => KeyOf[i] # KeyOf[j]
  BY DEF Registered, Current
<1>3. Consistent'
  BY <1>1 DEF Consistent, Registered
<1>4. NoLostTask'
  BY <1>1, <1>2 DEF NoLostTask, Registered
<1>5. QED
  BY <1>3, <1>4 DEF InFlight

\* Pausing and resuming move timers of registered, idle jobs only.
LEMMA PauseResumeKeepInv ==
  ASSUME TypeOK, Consistent, NoLostTask, NEW j \in Job,
         Pause(j) \/ Resume(j) \/ TimerElapses(j)
  PROVE  Consistent' /\ NoLostTask' /\ InFlight' \subseteq InFlight
<1> USE DEF TypeOK, flags, timers
<1>1. UNCHANGED <<registry, functions, created, running, stopped, future, phase>>
  BY DEF Pause, Resume, TimerElapses
<1>2. Registered' = Registered /\ j \in Registered
  BY <1>1 DEF Registered, Current, Pause, Resume, TimerElapses, Consistent
<1>3. due' \cup sleeping' = due \cup sleeping
  BY <1>2 DEF Pause, Resume, TimerElapses, BecomeDue, NoLostTask
<1>4. paused' \subseteq paused \cup {j}
  BY DEF Pause, Resume, TimerElapses
<1>5. Consistent'
  BY <1>1, <1>2, <1>3, <1>4 DEF Consistent
<1>6. NoLostTask'
  BY <1>1, <1>2, <1>3 DEF NoLostTask
<1>7. QED
  BY <1>1, <1>5, <1>6 DEF InFlight

\* A batch moves ready jobs from the timers to the pool.
LEMMA BatchKeepsInv ==
  ASSUME TypeOK, Consistent, NoLostTask, NEW B \in SUBSET Ready, SubmitBatch(B)
  PROVE  Consistent' /\ NoLostTask'
<1> USE DEF SubmitBatch, TypeOK, LeaveTimers
<1>1. B \subseteq Registered /\ B \subseteq Job
  BY DEF Ready, Registered
<1>2. Registered' = Registered
  BY DEF Registered, Current
<1>3. Consistent'
  BY <1>1, <1>2 DEF Consistent
<1>4. NoLostTask'
  BY <1>1, <1>2 DEF NoLostTask
<1>5. QED
  BY <1>3, <1>4

\* A completion either belongs to the registered job, which is then done or sleeps
\* again, or is stale and touches nothing but its own future.
LEMMA CompleteKeepsInv ==
  ASSUME TypeOK, Consistent, NoLostTask, NEW j \in Job, Complete(j)
  PROVE  Consistent' /\ NoLostTask' /\ InFlight' \subseteq InFlight
<1> USE DEF Complete, TypeOK, Finished, timers
<1>1. InFlight' \subseteq InFlight
  BY DEF InFlight
<1>2. \A i \in Job : i # j => future'[i] = future[i]
  OBVIOUS
<1>3. future[j] # "none" /\ future'[j] = "none" /\ j \in created
  BY DEF Consistent
<1>4. CASE ~Current(j)
  <2>1. Registered' = Registered /\ j \notin Registered
    BY <1>4 DEF Registered, Current
  <2>2. Consistent'
    BY <1>2, <1>3, <1>4, <2>1 DEF Consistent
  <2>3. NoLostTask'
    BY <1>2, <1>4, <2>1 DEF NoLostTask
  <2>4. QED
    BY <1>1, <2>2, <2>3
<1>5. CASE Current(j)
  <2> USE DEF Settle
  <2>1. j \in Registered /\ j \in running /\ j \notin due \cup sleeping
    BY <1>3, <1>5 DEF Registered, NoLostTask
  <2>2. running' = running \ {j}
    BY <1>5
  <2>3. CASE future[j] = "done" \/ j \in stopped
    <3>1. Registered' = Registered \ {j}
      BY <1>5, <2>3 DEF Registered, Current
    <3>2. \A i \in Registered : i # j => KeyOf[i] # KeyOf[j]
      BY <1>5 DEF Registered, Current
    <3>3. Consistent'
      BY <1>2, <1>3, <1>5, <2>1, <2>3, <3>1 DEF Consistent
    <3>4. NoLostTask'
      BY <1>2, <1>5, <2>2, <2>3, <3>1, <3>2 DEF NoLostTask, Registered
    <3>5. QED
      BY <1>1, <3>3, <3>4
  <2>4. CASE ~(future[j] = "done" \/ j \in stopped)
    <3>1. Registered' = Registered /\ sleeping' = sleeping \cup {j} /\ due' = due
      BY <1>5, <2>4 DEF Registered, Current
    <3>2. Consistent'
      BY <1>2, <1>3, <1>5, <2>1, <2>4, <3>1 DEF Consistent
    <3>3. NoLostTask'
      BY <1>2, <1>3, <1>5, <2>2, <2>4, <3>1 DEF NoLostTask
    <3>4. QED
      BY <1>1, <3>2, <3>3
  <2>5. QED
    BY <2>3, <2>4
<1>6. QED
  BY <1>4, <1>5

\* start, shutdown and the end of shutdown.
LEMMA LifecycleKeepsInv ==
  ASSUME TypeOK, Consistent, NoLostTask, Start \/ Shutdown \/ Closed
  PROVE  Consistent' /\ NoLostTask' /\ InFlight' \subseteq InFlight
<1> USE DEF TypeOK, flags, timers
<1>1. CASE Start \/ Closed
  <2>1. Registered' = Registered
    BY <1>1 DEF Start, Closed, Registered, Current
  <2>2. Consistent' /\ NoLostTask'
    BY <1>1, <2>1 DEF Start, Closed, Consistent, NoLostTask
  <2>3. QED
    BY <1>1, <2>2 DEF Start, Closed, InFlight
<1>2. CASE Shutdown
  <2>1. Registered' = {}
    BY <1>2 DEF Shutdown, Registered, Current
  <2>2. due' = {} /\ sleeping' = {}
    BY <1>2 DEF Shutdown, LeaveTimers, Consistent
  <2>3. Consistent' /\ NoLostTask'
    BY <1>2, <2>1, <2>2 DEF Shutdown, Consistent, NoLostTask
  <2>4. QED
    BY <1>2, <2>3 DEF Shutdown, InFlight
<1>3. QED
  BY <1>1, <1>2

LEMMA NextInv == SchedulerInv /\ [Next]_vars => SchedulerInv'
<1> SUFFICES ASSUME SchedulerInv, [Next]_vars PROVE SchedulerInv'
  OBVIOUS
<1> USE DEF SchedulerInv
<1>0. TypeOK'
  BY NextTypeOK
<1>1. CASE Start \/ Shutdown \/ Closed
  BY <1>0, <1>1, LifecycleKeepsInv, ShrinkingInFlight
<1>2. CASE Dispatch \/ DispatchFails
  <2>1. PICK B \in SUBSET Ready : SubmitBatch(B) /\ Cardinality(B) <= BatchSize
    <3>1. IsFiniteSet(Ready)
      BY FS_Subset DEF Ready, TypeOK
    <3>2. \A B \in SUBSET Ready : Cardinality(B) \in Nat
      BY <3>1, FS_Subset, FS_CardinalityType
    <3>3. BatchSize \in Int
      BY <3>2, InFlightFinite DEF BatchSize, Available
    <3>4. QED
      BY <1>2, <3>2, <3>3 DEF Dispatch, DispatchFails
  <2>2. Available > 0
    BY <1>2 DEF Dispatch, DispatchFails, CanDispatch
  <2>3. QED
    BY <1>0, <2>1, <2>2, BatchKeepsInv, BatchKeepsWorkerBound
<1>3. ASSUME NEW j \in Job, NEW p \in BOOLEAN, NEW d \in BOOLEAN, Submit(j, p, d)
      PROVE  SchedulerInv'
  BY <1>0, <1>3, SubmitKeepsInv, ShrinkingInFlight
<1>4. ASSUME NEW j \in Job, Stop(j)
      PROVE  SchedulerInv'
  BY <1>0, <1>4, StopKeepsInv, ShrinkingInFlight
<1>5. ASSUME NEW j \in Job, Pause(j) \/ Resume(j) \/ TimerElapses(j)
      PROVE  SchedulerInv'
  BY <1>0, <1>5, PauseResumeKeepInv, ShrinkingInFlight
<1>6. ASSUME NEW j \in Job, Begin(j) \/ Skip(j) \/ Return(j) \/ CancelQueued(j)
      PROVE  SchedulerInv'
  <2>1. future[j] # "none" /\ \E s \in FutureState \ {"none"} : SetFuture(j, s)
    BY <1>6 DEF Begin, Skip, Return, CancelQueued, FutureState
  <2>2. QED
    BY <1>0, <2>1, FutureStepKeepsInv, ShrinkingInFlight
<1>7. ASSUME NEW j \in Job, Complete(j)
      PROVE  SchedulerInv'
  BY <1>0, <1>7, CompleteKeepsInv, ShrinkingInFlight
<1>8. CASE UNCHANGED vars
  BY <1>8 DEF vars, flags, timers, TypeOK, Consistent, NoLostTask, WorkerBound, InFlight,
              Registered, Current
<1>9. QED
  BY <1>1, <1>2, <1>3, <1>4, <1>5, <1>6, <1>7, <1>8 DEF Next

-----------------------------------------------------------------------------
(* The scheduler's bookkeeping stays consistent: no registered task is lost *)
(* and the pool never holds more than Workers futures, across any number of *)
(* stops, replacements, shutdowns and restarts.                             *)
THEOREM SchedulerCorrect == Spec => []SchedulerInv
  BY InitInv, NextInv, PTL DEF Spec

\* The pool never holds more futures than it has workers.
THEOREM PoolIsBounded == Spec => []WorkerBound
<1>1. SchedulerInv => WorkerBound
  BY DEF SchedulerInv
<1>2. QED
  BY <1>1, SchedulerCorrect, PTL

\* A stale completion never removes the task that replaced it.
THEOREM ReplacementIsSafe == Spec => ReplacementUndisturbed
<1> DEFINE Undisturbed ==
      \A k \in Key : registry[k] # NoJob /\ registry'[k] # registry[k]
        => registry[k] \in stopped' \/ future[registry[k]] = "done"
<1>1. SchedulerInv /\ [Next]_vars => [Undisturbed]_vars
  <2> SUFFICES ASSUME SchedulerInv, Next, NEW k \in Key,
                      registry[k] # NoJob, registry'[k] # registry[k]
               PROVE  registry[k] \in stopped' \/ future[registry[k]] = "done"
    OBVIOUS
  <2> USE DEF SchedulerInv, TypeOK, Consistent, flags, timers
  <2>1. registry[k] \in Registered
    BY DEF Registered, Current
  <2>2. CASE Shutdown
    BY <2>1, <2>2 DEF Shutdown
  <2>3. CASE \E j \in Job : Stop(j)
    BY <2>3 DEF Stop, Current
  <2>4. CASE \E j \in Job : Complete(j)
    BY <2>4 DEF Complete, Settle, Current
  <2>5. CASE \E j \in Job : \E p, d \in BOOLEAN : Submit(j, p, d)
    BY <2>5 DEF Submit
  <2>6. CASE ~(Shutdown \/ \E j \in Job : Stop(j) \/ Complete(j)
                 \/ \E p, d \in BOOLEAN : Submit(j, p, d))
    BY <2>6 DEF Next, Start, Closed, Dispatch, DispatchFails, SubmitBatch, Pause, Resume,
                TimerElapses, Begin, Skip, Return, CancelQueued, SetFuture
  <2>7. QED
    BY <2>2, <2>3, <2>4, <2>5, <2>6
<1>2. QED
  BY <1>1, SchedulerCorrect, PTL DEF Spec, ReplacementUndisturbed

\* No execution begins after a stop, a pause or a shutdown: only Begin starts one, and
\* only for a job its key still names and that is neither stopped nor paused.
THEOREM StoppedStaysStopped == Spec => NoStartAfterStop
<1> DEFINE Allowed ==
      \A j \in Job : future[j] # "executing" /\ future'[j] = "executing"
        => j \notin stopped \cup paused
<1>1. SchedulerInv /\ [Next]_vars => [Allowed]_vars
  <2> SUFFICES ASSUME SchedulerInv, Next, NEW j \in Job,
                      future[j] # "executing", future'[j] = "executing"
               PROVE  j \notin stopped \cup paused
    OBVIOUS
  <2> USE DEF SchedulerInv, TypeOK
  <2>1. ASSUME NEW i \in Job, NEW s \in {"retry", "done", "cancelled"}, SetFuture(i, s)
        PROVE  FALSE
    BY <2>1 DEF SetFuture
  <2>2. ASSUME NEW i \in Job, Begin(i)
        PROVE  j \notin stopped \cup paused
    BY <2>2 DEF Begin, MayExecute, SetFuture
  <2>3. ASSUME NEW i \in Job, Skip(i) \/ Return(i) \/ CancelQueued(i)
        PROVE  FALSE
    BY <2>1, <2>3 DEF Skip, Return, CancelQueued
  <2>4. ASSUME NEW i \in Job, Complete(i)
        PROVE  FALSE
    BY <2>4 DEF Complete
  <2>5. CASE Dispatch \/ DispatchFails
    <3>1. PICK B \in SUBSET Ready : SubmitBatch(B)
      BY <2>5 DEF Dispatch, DispatchFails
    <3>2. QED
      BY <3>1 DEF SubmitBatch
  <2>6. CASE \/ Start \/ Shutdown \/ Closed
             \/ \E i \in Job : \/ \E p, d \in BOOLEAN : Submit(i, p, d)
                               \/ Stop(i) \/ Pause(i) \/ Resume(i) \/ TimerElapses(i)
    BY <2>6 DEF Start, Shutdown, Closed, Submit, Stop, Pause, Resume, TimerElapses
  <2>7. QED
    BY <2>2, <2>3, <2>4, <2>5, <2>6 DEF Next
<1>2. QED
  BY <1>1, SchedulerCorrect, PTL DEF Spec, NoStartAfterStop

(* A stop, a pause or a shutdown is final for the executions it has come before, and a   *)
(* replacement is left alone by those that have outlived it.                             *)
THEOREM StopsAreFinal == Spec => StopIsFinal
  BY StoppedStaysStopped, ReplacementIsSafe DEF StopIsFinal

-----------------------------------------------------------------------------
\* Steps that the promise does not see.
LEMMA Unseen ==
  ASSUME AtWork' = AtWork, UNCHANGED <<registry, paused>>
  PROVE  UNCHANGED <<RegisteredKeys, HeldKeys, Runner, Busy>>
  BY DEF RegisteredKeys, HeldKeys, Runner, Busy

\* Only a registered job that is not paused begins, and a slot was free for it.
LEMMA BeginIsPromised ==
  ASSUME SchedulerInv, NEW j \in Job, Begin(j)
  PROVE  Promise!Dispatch(j, KeyOf[j])
<1> USE DEF SchedulerInv, TypeOK
<1>1. /\ future[j] = "queued" /\ registry[KeyOf[j]] = j /\ j \notin paused
      /\ future' = [future EXCEPT ![j] = "executing"] /\ UNCHANGED <<registry, paused>>
  BY DEF Begin, MayExecute, Current, SetFuture, flags
<1>2. AtWork' = AtWork \cup {j} /\ j \notin AtWork /\ j # NoJob
  BY <1>1 DEF AtWork
<1>3. KeyOf[j] \in RegisteredKeys \ HeldKeys /\ Runner[KeyOf[j]] = NoJob /\ Busy[j] = NoJob
  BY <1>1, <1>2 DEF RegisteredKeys, HeldKeys, Runner, Busy
<1>4. Cardinality({d \in Job : Busy[d] # NoJob}) < Workers
  <2>1. {d \in Job : Busy[d] # NoJob} = AtWork
    BY DEF Busy, AtWork
  <2>2. AtWork \subseteq InFlight /\ j \in InFlight
    BY <1>1 DEF AtWork, InFlight
  <2>3. Cardinality(AtWork) <= Cardinality(InFlight) /\ Cardinality(AtWork) # Cardinality(InFlight)
    BY <1>2, <2>2, InFlightFinite, FS_Subset
  <2>4. Cardinality(AtWork) \in Nat /\ Cardinality(InFlight) \in Nat
    BY <2>2, InFlightFinite, FS_Subset, FS_CardinalityType
  <2>5. Cardinality(AtWork) < Workers
    BY <2>3, <2>4 DEF WorkerBound
  <2> QED BY <2>1, <2>5
<1>5. Runner' = [Runner EXCEPT ![KeyOf[j]] = j]
  <2>1. \A k \in Key : registry[k] = j => k = KeyOf[j]
    BY <1>2 DEF Consistent
  <2> QED BY <1>1, <1>2, <2>1 DEF Runner
<1>6. Busy' = [Busy EXCEPT ![j] = KeyOf[j]]
  BY <1>2 DEF Busy
<1>7. RegisteredKeys' = RegisteredKeys /\ HeldKeys' = HeldKeys
  BY <1>1 DEF RegisteredKeys, HeldKeys
<1>8. Promise!Cardinality({d \in Job : Busy[d] # NoJob})
        = Cardinality({d \in Job : Busy[d] # NoJob})
  BY DEF Promise!Cardinality, Cardinality
<1> QED BY <1>3, <1>4, <1>5, <1>6, <1>7, <1>8 DEF Promise!Dispatch

\* The end of an execution, where the job stays registered: the function wants another
\* run, or the job was stopped before.
LEMMA EndIsPromised ==
  ASSUME SchedulerInv, NEW j \in AtWork, AtWork' = AtWork \ {j},
         UNCHANGED <<registry, paused>>
  PROVE  Promise!Complete(j)
<1> USE DEF SchedulerInv, TypeOK
<1>1. j \in Job /\ j # NoJob /\ KeyOf[j] \in Key /\ Busy[j] = KeyOf[j]
  BY DEF AtWork, Busy
<1>2. Busy' = [Busy EXCEPT ![j] = NoJob]
  BY <1>1 DEF Busy
<1>3. RegisteredKeys' = RegisteredKeys /\ HeldKeys' = HeldKeys
  BY DEF RegisteredKeys, HeldKeys
<1>4. \A k \in Key : registry[k] = j => k = KeyOf[j]
  BY <1>1 DEF Consistent
<1>5. CASE Runner[KeyOf[j]] = j
  <2>1. Runner' = [Runner EXCEPT ![KeyOf[j]] = NoJob]
    BY <1>1, <1>4, <1>5 DEF Runner
  <2> QED BY <1>1, <1>2, <1>3, <1>5, <2>1 DEF Promise!Complete
<1>6. CASE Runner[KeyOf[j]] # j
  <2>1. \A k \in Key : registry[k] # j
    BY <1>1, <1>4, <1>6 DEF Runner
  <2>2. Runner' = Runner
    BY <2>1 DEF Runner
  <2> QED BY <1>1, <1>2, <1>3, <1>6, <2>2 DEF Promise!Complete
<1> QED BY <1>5, <1>6

\* The completion of a job that is done takes it off the registry, if it is still there.
LEMMA CompleteIsPromised ==
  ASSUME SchedulerInv, NEW j \in Job, Complete(j)
  PROVE  Promise!Next \/ UNCHANGED <<RegisteredKeys, HeldKeys, Runner, Busy>>
<1> USE DEF SchedulerInv, TypeOK
<1>1. /\ future' = [future EXCEPT ![j] = "none"] /\ future[j] \in {"done", "retry", "cancelled"}
      /\ UNCHANGED paused /\ j # NoJob
  BY DEF Complete, Finished
<1>2. AtWork' = AtWork \ {j}
  BY <1>1 DEF AtWork
<1>3. CASE ~(Current(j) /\ future[j] = "done")
  <2>1. UNCHANGED registry
    BY <1>3 DEF Complete, Settle, Current, Consistent, Registered
  <2>2. CASE j \in AtWork
    BY <1>1, <1>2, <2>1, <2>2, EndIsPromised DEF Promise!Next
  <2>3. CASE j \notin AtWork
    BY <1>1, <1>2, <2>1, <2>3, Unseen
  <2> QED BY <2>2, <2>3
<1>4. CASE Current(j) /\ future[j] = "done"
  <2>1. registry' = [registry EXCEPT ![KeyOf[j]] = NoJob] /\ registry[KeyOf[j]] = j
    BY <1>4 DEF Complete, Settle, Current
  <2>2. j \in AtWork /\ KeyOf[j] \in Key
    BY <1>4 DEF AtWork
  <2>3. \A k \in Key : registry[k] = j => k = KeyOf[j]
    BY <1>1 DEF Consistent
  <2>4. Busy[j] = KeyOf[j] /\ Runner[KeyOf[j]] = j /\ KeyOf[j] # NoJob
    BY <2>1, <2>2 DEF Busy, Runner
  <2>5. RegisteredKeys' = RegisteredKeys \ {KeyOf[j]} /\ HeldKeys' = HeldKeys \ {KeyOf[j]}
    BY <1>1, <2>1, <2>2 DEF RegisteredKeys, HeldKeys
  <2>6. Runner' = [k \in Key |-> IF k \in {KeyOf[j]} THEN NoJob ELSE Runner[k]]
    <3>1. NoJob \notin AtWork'
      BY DEF AtWork
    <3> QED BY <1>2, <2>1, <2>2, <2>3, <3>1 DEF Runner
  <2>7. Busy' = [Busy EXCEPT ![j] = NoJob]
    BY <1>2 DEF Busy
  <2>8. Promise!Complete(j)
    BY <2>4, <2>5, <2>6, <2>7 DEF Promise!Complete, Promise!Leave
  <2> QED BY <2>8 DEF Promise!Next
<1> QED BY <1>3, <1>4

LEMMA StepIsPromised ==
  SchedulerInv /\ [Next]_vars => [Promise!Next]_(Promise!vars)
<1> SUFFICES ASSUME SchedulerInv, [Next]_vars
             PROVE  Promise!Next \/ UNCHANGED <<RegisteredKeys, HeldKeys, Runner, Busy>>
  BY DEF Promise!vars
<1> USE DEF SchedulerInv, TypeOK, flags, timers
<1>1. CASE Start \/ Closed \/ UNCHANGED vars \/ \E j \in Job : TimerElapses(j)
  <2>1. UNCHANGED <<registry, paused, future>>
    BY <1>1 DEF Start, Closed, TimerElapses, vars
  <2> QED BY <2>1, Unseen DEF AtWork
<1>2. CASE Shutdown
  <2>1. registry' = [k \in Key |-> NoJob] /\ UNCHANGED <<paused, future>>
    BY <1>2 DEF Shutdown
  <2>2. RegisteredKeys' = {} /\ HeldKeys' = {} /\ Busy' = Busy /\ Runner' = [k \in Key |-> NoJob]
    BY <2>1 DEF RegisteredKeys, HeldKeys, Busy, Runner, AtWork
  <2>3. Promise!Unschedule(Key)
    BY <2>2 DEF Promise!Unschedule, Promise!Leave, RegisteredKeys, HeldKeys
  <2> QED BY <2>3 DEF Promise!Next
<1>3. CASE Dispatch \/ DispatchFails
  <2>1. PICK B \in SUBSET Ready : SubmitBatch(B)
    BY <1>3 DEF Dispatch, DispatchFails
  <2>2. \A j \in B : future[j] = "none"
    BY DEF Ready, NoLostTask, Registered, Current
  <2>3. AtWork' = AtWork
    BY <2>1, <2>2 DEF SubmitBatch, AtWork
  <2> QED BY <2>1, <2>3, Unseen DEF SubmitBatch
<1>4. ASSUME NEW j \in Job, NEW p \in BOOLEAN, NEW d \in BOOLEAN, Submit(j, p, d) PROVE Promise!Next
  <2>1. /\ registry' = [registry EXCEPT ![KeyOf[j]] = j] /\ registry[KeyOf[j]] = NoJob
        /\ paused' = IF p THEN paused \cup {j} ELSE paused
        /\ UNCHANGED future
    BY <1>4 DEF Submit
  <2>2. future[j] = "none" /\ j \notin paused /\ \A k \in Key : registry[k] # j
    BY <1>4 DEF Submit, Consistent, Registered, Current
  <2>3. AtWork' = AtWork /\ j \notin AtWork /\ NoJob \notin AtWork /\ NoJob \notin paused \cup paused'
    BY <2>1, <2>2 DEF AtWork
  <2>4. Runner' = Runner /\ Busy' = Busy
    BY <2>1, <2>3 DEF Runner, Busy
  <2>5. RegisteredKeys' = RegisteredKeys \cup {KeyOf[j]} /\ KeyOf[j] \notin RegisteredKeys
    BY <2>1 DEF RegisteredKeys
  <2>6. HeldKeys' = HeldKeys \cup (IF p THEN {KeyOf[j]} ELSE {})
    BY <2>1, <2>2, <2>3 DEF HeldKeys
  <2>7. Promise!Schedule({KeyOf[j]}, IF p THEN {KeyOf[j]} ELSE {})
    BY <2>4, <2>5, <2>6 DEF Promise!Schedule
  <2> QED BY <2>7 DEF Promise!Next
<1>5. ASSUME NEW j \in Job, Stop(j) PROVE Promise!Next
  <2>1. registry' = [registry EXCEPT ![KeyOf[j]] = NoJob] /\ UNCHANGED <<paused, future>>
    BY <1>5 DEF Stop
  <2>2. AtWork' = AtWork /\ NoJob \notin AtWork /\ NoJob \notin paused
    BY <2>1 DEF AtWork
  <2>3. /\ RegisteredKeys' = RegisteredKeys \ {KeyOf[j]} /\ HeldKeys' = HeldKeys \ {KeyOf[j]}
        /\ Busy' = Busy /\ Runner' = [k \in Key |-> IF k \in {KeyOf[j]} THEN NoJob ELSE Runner[k]]
    BY <2>1, <2>2 DEF RegisteredKeys, HeldKeys, Busy, Runner
  <2>4. Promise!Unschedule({KeyOf[j]})
    BY <2>3 DEF Promise!Unschedule, Promise!Leave
  <2> QED BY <2>4 DEF Promise!Next
<1>6. ASSUME NEW j \in Job, Pause(j) \/ Resume(j) PROVE Promise!Next
  <2>1. /\ registry[KeyOf[j]] = j /\ UNCHANGED <<registry, future>>
        /\ (paused' = paused \cup {j}) \/ (paused' = paused \ {j})
    BY <1>6 DEF Pause, Resume, Current
  <2>2. \A k \in Key : registry[k] = j <=> k = KeyOf[j]
    BY <2>1 DEF Consistent
  <2>3. RegisteredKeys' = RegisteredKeys /\ Busy' = Busy /\ Runner' = Runner
    BY <2>1 DEF RegisteredKeys, Busy, Runner, AtWork
  <2>4. KeyOf[j] \in RegisteredKeys
    BY <2>1 DEF RegisteredKeys
  <2>5. HeldKeys' = HeldKeys \cup {KeyOf[j]} \/ HeldKeys' = HeldKeys \ {KeyOf[j]}
    BY <2>1, <2>2 DEF HeldKeys
  <2>6. Promise!Hold(KeyOf[j]) \/ Promise!Release(KeyOf[j])
    BY <2>3, <2>4, <2>5 DEF Promise!Hold, Promise!Release
  <2> QED BY <2>6 DEF Promise!Next
<1>7. ASSUME NEW j \in Job, Begin(j) PROVE Promise!Next
  BY <1>7, BeginIsPromised DEF Promise!Next
<1>8. ASSUME NEW j \in Job, Skip(j) \/ CancelQueued(j)
      PROVE  UNCHANGED <<RegisteredKeys, HeldKeys, Runner, Busy>>
  <2>1. AtWork' = AtWork /\ UNCHANGED <<registry, paused>>
    BY <1>8 DEF Skip, CancelQueued, SetFuture, AtWork
  <2> QED BY <2>1, Unseen
<1>9. ASSUME NEW j \in Job, Return(j)
      PROVE  Promise!Next \/ UNCHANGED <<RegisteredKeys, HeldKeys, Runner, Busy>>
  <2>1. PICK s \in {"done", "retry"} : SetFuture(j, s) /\ future[j] = "executing"
    BY <1>9 DEF Return
  <2>2. UNCHANGED <<registry, paused>> /\ j \in AtWork
    BY <2>1 DEF SetFuture, AtWork
  <2>3. CASE s = "done"
    <3>1. AtWork' = AtWork
      BY <2>1, <2>3 DEF SetFuture, AtWork
    <3> QED BY <2>2, <3>1, Unseen
  <2>4. CASE s = "retry"
    <3>1. AtWork' = AtWork \ {j}
      BY <2>1, <2>4 DEF SetFuture, AtWork
    <3> QED BY <2>2, <3>1, EndIsPromised DEF Promise!Next
  <2> QED BY <2>3, <2>4
<1>10. ASSUME NEW j \in Job, Complete(j)
       PROVE  Promise!Next \/ UNCHANGED <<RegisteredKeys, HeldKeys, Runner, Busy>>
  BY <1>10, CompleteIsPromised
<1> QED BY <1>1, <1>2, <1>3, <1>4, <1>5, <1>6, <1>7, <1>8, <1>9, <1>10 DEF Next

(* The scheduler with its threads, futures and timers keeps SchedulerPromise, for any    *)
(* keys, jobs and workers: what CreateTask and ChangeIp assume of it.                    *)
THEOREM SchedulerActsAsPromised == Spec => ActsAsPromised
<1>1. Init => Promise!Init
  BY DEF Init, Promise!Init, RegisteredKeys, HeldKeys, Runner, Busy, AtWork
<1> QED BY <1>1, StepIsPromised, SchedulerCorrect, PTL DEF Spec, ActsAsPromised, Promise!Spec
=============================================================================
