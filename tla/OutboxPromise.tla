---------------------------- MODULE OutboxPromise ----------------------------
(***************************************************************************)
(* What the notification outbox promises its callers, with no clock, no    *)
(* lease and no dispatcher: an event that was enqueued stays until it is   *)
(* recorded as sent, which happens only after Telegram accepted it, or is  *)
(* given up; a configuration change may reopen what was given up.  Nothing *)
(* ever leaves "sent", and an event may be accepted more than once.        *)
(***************************************************************************)
CONSTANT Note

VARIABLES
  state,     \* the fate of each event as the panel records it
  accepted   \* the events Telegram accepted at least once

vars == <<state, accepted>>

Init == state = [n \in Note |-> "absent"] /\ accepted = {}

Become(n, from, to) == state[n] = from /\ state' = [state EXCEPT ![n] = to]

Enqueue(n) == Become(n, "absent", "waiting") /\ UNCHANGED accepted

Accept(n) == state[n] # "absent" /\ accepted' = accepted \cup {n} /\ UNCHANGED state

RecordSent(n) == n \in accepted /\ Become(n, "waiting", "sent") /\ UNCHANGED accepted

GiveUp(n) == Become(n, "waiting", "failed") /\ UNCHANGED accepted

Reopen ==
  /\ state' = [n \in Note |-> IF state[n] = "failed" THEN "waiting" ELSE state[n]]
  /\ UNCHANGED accepted

Next == Reopen \/ \E n \in Note : Enqueue(n) \/ Accept(n) \/ RecordSent(n) \/ GiveUp(n)

Spec == Init /\ [][Next]_vars
=============================================================================
