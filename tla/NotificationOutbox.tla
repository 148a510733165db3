-------------------------- MODULE NotificationOutbox --------------------------
(***************************************************************************)
(* services/notification_service.py: the SQLite outbox and the coroutines  *)
(* that deliver it.  A row is claimed by an UPDATE that writes a lease     *)
(* timestamp, sent outside any transaction, and completed by an UPDATE     *)
(* that still finds that timestamp.  Deliveries overlap when a new process *)
(* starts while an old one lives, and after cancellations and crashes.     *)
(*                                                                         *)
(* Time is relative: wait[n] is what is left until next_attempt_at, age[d] *)
(* what delivery d has spent since its claim.  A lease timestamp is later  *)
(* than every earlier one of its row, so "next_attempt_at is my lease" is  *)
(* modelled as owner[n] = d.                                               *)
(***************************************************************************)
EXTENDS Integers, FiniteSets

CONSTANTS
  Note,             \* rows, numbered in the order of (created_at, id)
  Delivery,         \* coroutines running dispatch_due_notifications
  Nobody,           \* no lease timestamp in next_attempt_at
  BatchSize,        \* NOTIFICATION_BATCH_SIZE
  Lease,            \* NOTIFICATION_LEASE_SECONDS
  DeliveryTimeout,  \* NOTIFICATION_DELIVERY_TIMEOUT_SECONDS
  DeferDelay,       \* NOTIFICATION_UNCONFIGURED_DELAY_SECONDS
  MaxAttempts,      \* NOTIFICATION_MAX_ATTEMPTS
  RetryDelay,       \* notification_retry_delay, a function of the attempts
  MaxRestarts       \* bound on cancelled deliveries and crashes

ASSUME OutboxAssumption ==
  /\ Note \subseteq Nat /\ Note # {}
  /\ Nobody \notin Delivery
  /\ BatchSize \in Nat \ {0} /\ DeferDelay \in Nat \ {0} /\ MaxAttempts \in Nat \ {0}
  /\ DeliveryTimeout \in Nat \ {0}
  /\ Lease \in Nat /\ DeliveryTimeout < Lease
  /\ \A a \in 1..MaxAttempts : RetryDelay[a] \in Nat \ {0}
  /\ MaxRestarts \in Nat

VARIABLES
  status, attempts, wait, owner,   \* the rows
  step, batch, note, age, answer,  \* the deliveries
  bot,          \* _bot_instance: none, up, or closing (its inner _bot is gone or going)
  configured,   \* token and chat id are stored
  clearing,     \* update_sys_cfg stored an empty token and is in shutdown_telegram_bot
  accepted,     \* history: the rows Telegram accepted at least once
  restarts

rows == <<status, attempts, wait, owner>>
deliveries == <<step, batch, note, age, answer>>
runtime == <<bot, configured, clearing>>
vars == <<rows, deliveries, runtime, accepted, restarts>>

Status == {"absent", "pending", "sending", "sent", "failed"}
InTimeout == {"restoring", "unavailable", "calling", "sending"}
Step == {"idle", "claimed", "result"} \cup InTimeout

\* What the sender answered; "nobot" is a refusal that never reached Telegram.
Answer == {"yes", "no", "nobot"}

TypeOK ==
  /\ status \in [Note -> Status]
  /\ attempts \in [Note -> 0..MaxAttempts]
  /\ wait \in [Note -> Nat]
  /\ owner \in [Note -> Delivery \cup {Nobody}]
  /\ step \in [Delivery -> Step]
  /\ batch \in [Delivery -> SUBSET Note]
  /\ note \in [Delivery -> Note]
  /\ age \in [Delivery -> Nat]
  /\ answer \in [Delivery -> Answer]
  /\ bot \in {"none", "up", "closing"}
  /\ configured \in BOOLEAN /\ clearing \in BOOLEAN
  /\ accepted \in SUBSET Note
  /\ restarts \in 0..MaxRestarts

Init ==
  /\ status = [n \in Note |-> "absent"]
  /\ attempts = [n \in Note |-> 0]
  /\ wait = [n \in Note |-> 0]
  /\ owner = [n \in Note |-> Nobody]
  /\ step = [d \in Delivery |-> "idle"]
  /\ batch = [d \in Delivery |-> {}]
  /\ note = [d \in Delivery |-> CHOOSE n \in Note : TRUE]
  /\ age = [d \in Delivery |-> 0]
  /\ answer = [d \in Delivery |-> "no"]
  /\ configured \in BOOLEAN
  /\ bot \in IF configured THEN {"none", "up"} ELSE {"none"}
  /\ clearing = FALSE
  /\ accepted = {}
  /\ restarts = 0

-----------------------------------------------------------------------------
\* enqueue_notification; a conflict on event_key inserts nothing.
Enqueue(n) ==
  /\ status[n] = "absent"
  /\ status' = [status EXCEPT ![n] = "pending"]
  /\ UNCHANGED <<attempts, wait, owner, deliveries, runtime, accepted, restarts>>

Due(n) == status[n] \in {"pending", "sending"} /\ wait[n] = 0

\* A member of a batch is among the BatchSize oldest of the due rows.
OldestDue(n) == Due(n) /\ Cardinality({m \in Note : Due(m) /\ m < n}) < BatchSize

\* The SELECT of dispatch_due_notifications.
Select(d) ==
  /\ step[d] = "idle" /\ batch[d] = {}
  /\ \E n \in Note : Due(n)
  /\ batch' = [batch EXCEPT ![d] = {n \in Note : OldestDue(n)}]
  /\ UNCHANGED <<rows, step, note, age, answer, runtime, accepted, restarts>>

\* What the claiming UPDATE writes.
WriteClaim(d, n) ==
  /\ status' = [status EXCEPT ![n] = "sending"]
  /\ wait' = [wait EXCEPT ![n] = Lease]
  /\ owner' = [owner EXCEPT ![n] = d]
  /\ step' = [step EXCEPT ![d] = "claimed"]
  /\ note' = [note EXCEPT ![d] = n]
  /\ age' = [age EXCEPT ![d] = 0]

\* The ids of a batch are delivered in the order of the SELECT.
TakeNext(d, n) ==
  /\ step[d] = "idle"
  /\ n \in batch[d] /\ \A m \in batch[d] : n <= m
  /\ batch' = [batch EXCEPT ![d] = @ \ {n}]
  /\ UNCHANGED <<attempts, answer, runtime, accepted, restarts>>

ClaimUnchecked(d) ==  \* mutant: UPDATE ... WHERE id = :id only
  \E n \in Note : TakeNext(d, n) /\ WriteClaim(d, n)

\* The first half of _deliver_notification; with rowcount 0 another delivery has the row.
Claim(d) ==
  \E n \in Note :
    /\ TakeNext(d, n)
    /\ IF Due(n) THEN WriteClaim(d, n)
       ELSE UNCHANGED <<status, wait, owner, step, note, age>>

MoveTo(d, s) ==
  /\ step' = [step EXCEPT ![d] = s]
  /\ UNCHANGED <<rows, batch, note, age, restarts>>

\* Nothing is awaited between get_bot() and the notifier's lock if that lock is free;
\* otherwise ("calling") the delivery queues for it.
SenderStep == IF \A e \in Delivery : step[e] # "sending" THEN "sending" ELSE "calling"

\* get_bot(), and the read of the stored configuration in _try_restore_global_bot.
CheckBot(d) ==
  /\ step[d] = "claimed"
  /\ MoveTo(d, IF bot = "up" THEN SenderStep
               ELSE IF bot = "closing" THEN "calling"
               ELSE IF configured THEN "restoring" ELSE "unavailable")
  /\ UNCHANGED <<answer, runtime, accepted>>

\* init_telegram_bot with what was read; the network may refuse.  A notifier that is
\* being closed is replaced first and its shutdown awaited.
RestoreBot(d) ==
  /\ step[d] = "restoring"
  /\ \/ bot' = "up" /\ MoveTo(d, IF bot = "closing" THEN "calling" ELSE SenderStep)
     \/ bot' = bot /\ MoveTo(d, "unavailable")
  /\ UNCHANGED <<answer, configured, clearing, accepted>>

\* The notifier's lock is granted.  A notifier that was shut down meanwhile has no inner
\* bot and answers False without contacting Telegram.
CallSender(d) ==
  /\ step[d] = "calling"
  /\ IF bot = "up"
     THEN SenderStep = "sending" /\ MoveTo(d, "sending") /\ UNCHANGED answer
     ELSE MoveTo(d, "result") /\ answer' = [answer EXCEPT ![d] = "nobot"]
  /\ UNCHANGED <<runtime, accepted>>

\* Telegram takes the message or not; an answer may be lost after it was taken.
Send(d) ==
  /\ step[d] = "sending"
  /\ \E taken, ok \in BOOLEAN :
       /\ ok => taken
       /\ accepted' = IF taken THEN accepted \cup {note[d]} ELSE accepted
       /\ answer' = [answer EXCEPT ![d] = IF ok THEN "yes" ELSE "no"]
  /\ MoveTo(d, "result")
  /\ UNCHANGED runtime

\* asyncio.timeout cuts off whatever the delivery awaits.
TimedOut(d) ==
  /\ step[d] \in InTimeout /\ age[d] >= DeliveryTimeout
  /\ answer' = [answer EXCEPT ![d] = "no"]
  /\ MoveTo(d, "result")
  /\ UNCHANGED <<runtime, accepted>>

-----------------------------------------------------------------------------
IgnoringLease(d) == TRUE  \* mutant

\* _notification_lease
HoldsLease(d) == status[note[d]] = "sending" /\ owner[note[d]] = d

\* Write the row of d's notification; its next_attempt_at is no lease any more.
WriteRow(d, s, a, w) ==
  /\ status' = [status EXCEPT ![note[d]] = s]
  /\ attempts' = [attempts EXCEPT ![note[d]] = a]
  /\ wait' = [wait EXCEPT ![note[d]] = w]
  /\ owner' = [owner EXCEPT ![note[d]] = Nobody]

Finish(d) ==
  /\ step' = [step EXCEPT ![d] = "idle"]
  /\ age' = [age EXCEPT ![d] = 0]
  /\ UNCHANGED <<batch, note, answer, runtime, accepted, restarts>>

DeferAsFailure(d) ==  \* mutant: an unavailable bot uses up an attempt
  /\ step[d] = "unavailable"
  /\ IF HoldsLease(d) THEN WriteRow(d, "pending", attempts[note[d]] + 1, DeferDelay)
     ELSE UNCHANGED rows
  /\ Finish(d)

\* _defer_unavailable_notification
Defer(d) ==
  /\ step[d] = "unavailable"
  /\ IF HoldsLease(d) THEN WriteRow(d, "pending", attempts[note[d]], DeferDelay)
     ELSE UNCHANGED rows
  /\ Finish(d)

OutcomeForever(d) ==  \* mutant: the attempts limit is never reached
  \/ answer[d] = "yes" /\ WriteRow(d, "sent", attempts[note[d]] + 1, 0)
  \/ answer[d] # "yes" /\ WriteRow(d, "pending", attempts[note[d]], RetryDelay[1])

OutcomeOptimistic(d) ==  \* mutant: a send that raised is recorded as sent
  WriteRow(d, "sent", attempts[note[d]] + 1, 0)

\* What a completion writes: sent, failed for good, or pending with a back-off.
Outcome(d) ==
  LET a == attempts[note[d]] + 1
  IN \/ answer[d] = "yes" /\ WriteRow(d, "sent", a, 0)
     \/ answer[d] # "yes" /\ a >= MaxAttempts /\ WriteRow(d, "failed", a, 0)
     \/ answer[d] # "yes" /\ a < MaxAttempts /\ WriteRow(d, "pending", a, RetryDelay[a])

\* The second half of _deliver_notification.  The SELECT and the UPDATE carry the same
\* lease condition and only its holder changes the row, so they act as one step.
Complete(d) ==
  /\ step[d] = "result"
  /\ IF HoldsLease(d) THEN Outcome(d) ELSE UNCHANGED rows
  /\ Finish(d)

-----------------------------------------------------------------------------
\* requeue_waiting_notifications: pending rows are due at once, failed ones start over.
Requeue ==
  /\ status' = [n \in Note |-> IF status[n] = "failed" THEN "pending" ELSE status[n]]
  /\ attempts' = [n \in Note |-> IF status[n] = "failed" THEN 0 ELSE attempts[n]]
  /\ wait' = [n \in Note |-> IF status[n] \in {"pending", "failed"} THEN 0 ELSE wait[n]]
  /\ owner' = [n \in Note |-> IF status[n] \in {"pending", "failed"} THEN Nobody ELSE owner[n]]

\* update_sys_cfg with a valid token: the new bot is up before the commit that requeues.
Configure ==
  /\ ~clearing
  /\ configured' = TRUE /\ bot' = "up"
  /\ Requeue
  /\ UNCHANGED <<clearing, deliveries, accepted, restarts>>

\* update_sys_cfg with an empty token: commit, then shutdown_telegram_bot, which waits
\* for the notifier's lock, closes its inner bot and at last forgets the instance.
Unconfigure ==
  /\ configured /\ ~clearing
  /\ configured' = FALSE /\ clearing' = TRUE
  /\ UNCHANGED <<rows, deliveries, bot, accepted, restarts>>

CloseBot ==
  /\ clearing /\ bot = "up" /\ \A d \in Delivery : step[d] # "sending"
  /\ bot' = "closing"
  /\ UNCHANGED <<rows, deliveries, configured, clearing, accepted, restarts>>

ForgetBot ==
  /\ clearing /\ bot # "up"
  /\ bot' = "none" /\ clearing' = FALSE
  /\ UNCHANGED <<rows, deliveries, configured, accepted, restarts>>

-----------------------------------------------------------------------------
\* NotificationDispatcher.stop cancels a delivery at whatever it awaits.
Cancel(d) ==
  /\ restarts < MaxRestarts
  /\ step[d] # "idle" \/ batch[d] # {}
  /\ step' = [step EXCEPT ![d] = "idle"]
  /\ batch' = [batch EXCEPT ![d] = {}]
  /\ age' = [age EXCEPT ![d] = 0]
  /\ restarts' = restarts + 1
  /\ UNCHANGED <<rows, note, answer, runtime, accepted>>

\* The process dies and comes back: rows survive, deliveries do not, and lifespan
\* tries to start the bot that is configured.
Crash ==
  /\ restarts < MaxRestarts
  /\ step' = [d \in Delivery |-> "idle"]
  /\ batch' = [d \in Delivery |-> {}]
  /\ age' = [d \in Delivery |-> 0]
  /\ bot' \in IF configured THEN {"none", "up"} ELSE {"none"}
  /\ clearing' = FALSE
  /\ restarts' = restarts + 1
  /\ UNCHANGED <<rows, note, answer, configured, accepted>>

\* One unit of time; a loop that stalls may cut a delivery off late.
Tick ==
  /\ wait' = [n \in Note |-> IF wait[n] > 0 THEN wait[n] - 1 ELSE 0]
  /\ age' = [d \in Delivery |-> IF step[d] = "idle" \/ age[d] >= Lease
                                THEN age[d] ELSE age[d] + 1]
  /\ UNCHANGED <<status, attempts, owner, step, batch, note, answer, runtime, accepted, restarts>>

Deliver(d) ==
  \/ Select(d) \/ Claim(d) \/ CheckBot(d) \/ RestoreBot(d) \/ CallSender(d)
  \/ Send(d) \/ TimedOut(d) \/ Defer(d) \/ Complete(d)

Next ==
  \/ \E n \in Note : Enqueue(n)
  \/ \E d \in Delivery : \/ Select(d) \/ Claim(d) \/ CheckBot(d) \/ RestoreBot(d)
                         \/ CallSender(d) \/ Send(d) \/ TimedOut(d) \/ Defer(d)
                         \/ Complete(d) \/ Cancel(d)
  \/ Configure \/ Unconfigure \/ CloseBot \/ ForgetBot
  \/ Crash \/ Tick

Spec == Init /\ [][Next]_vars

\* The event loop runs the dispatcher and the configuration request, and time passes.
FairSpec ==
  /\ Spec
  /\ \A d \in Delivery : WF_vars(Deliver(d))
  /\ WF_vars(CloseBot) /\ WF_vars(ForgetBot) /\ WF_vars(Tick)

-----------------------------------------------------------------------------
(* The outbox is safe to lean on: whatever the leases, crashes and timeouts *)
(* do, every row keeps the promise of OutboxPromise (no event vanishes,     *)
(* "sent" is final and only follows an acceptance by Telegram).             *)
Fate == [n \in Note |-> IF status[n] \in {"pending", "sending"} THEN "waiting" ELSE status[n]]
Promise == INSTANCE OutboxPromise WITH state <- Fate
KeepsPromise == Promise!Spec

(* A row is given up exactly when its attempts are used up, and a live row  *)
(* always has one left (attempts >= NOTIFICATION_MAX_ATTEMPTS).             *)
AttemptsBudget ==
  \A n \in Note :
    /\ status[n] = "failed" => attempts[n] = MaxAttempts
    /\ status[n] \in {"pending", "sending"} => attempts[n] < MaxAttempts

(* What makes the promise inductive: only rows that exist are worked on and *)
(* a positive answer in hand means Telegram accepted the row.               *)
Delivered ==
  /\ \A n \in Note :
       /\ status[n] = "absent" => attempts[n] = 0
       /\ status[n] = "sent" => n \in accepted
  /\ \A d \in Delivery :
       /\ step[d] # "idle" => status[note[d]] # "absent"
       /\ step[d] = "result" /\ answer[d] = "yes" => note[d] \in accepted

(* What makes exclusion inductive: a delivery within its deadline holds the *)
(* lease of its row, which ends later than the deadline.                    *)
InTime(d) == step[d] # "idle" /\ age[d] <= DeliveryTimeout
LeaseOutlivesDelivery ==
  \A d \in Delivery : InTime(d) => HoldsLease(d) /\ age[d] + wait[note[d]] = Lease

OutboxInv == TypeOK /\ AttemptsBudget /\ Delivered /\ LeaseOutlivesDelivery

(* Two deliveries that keep the delivery timeout never work on one row at   *)
(* the same time, whatever is cancelled, restarted or late next to them:    *)
(* the lease outlives the timeout (120 s against 60 s).                     *)
LeaseExclusive ==
  \A d, e \in Delivery : InTime(d) /\ InTime(e) /\ note[d] = note[e] => d = e

(* An attempt is only recorded by the delivery whose lease the row still    *)
(* carries, and only with an answer of the sender: a delivery that was      *)
(* overtaken, deferred or cancelled costs nothing.                          *)
OnlyLeaseHolderRecords ==
  [][\A n \in Note : attempts'[n] > attempts[n] =>
       /\ status[n] = "sending"
       /\ \E d \in Delivery : note[d] = n /\ owner[n] = d /\ step[d] = "result"
                             /\ step'[d] = "idle"]_vars

(* With a bot that stays up, every waiting event is settled in the end,     *)
(* also one whose delivery was cancelled or died with its process, unless   *)
(* the settings are saved again and again (each save reopens what failed)   *)
(* or every delivery is so late that it loses its lease.                    *)
LeftAlone ==
  /\ <>[](bot = "up") /\ <>[][~Configure]_vars
  /\ <>[](\A d \in Delivery : age[d] <= DeliveryTimeout)
EventuallySettled ==
  LeftAlone =>
    \A n \in Note : status[n] \in {"pending", "sending"} ~> status[n] \in {"sent", "failed"}
=============================================================================
