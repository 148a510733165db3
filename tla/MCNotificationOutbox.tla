------------------------ MODULE MCNotificationOutbox ------------------------
(* A small instance of NotificationOutbox: two deliveries contend for one event. *)
EXTENDS NotificationOutbox, TLC

CONSTANTS d1, d2

\* notification_retry_delay with a base of one unit and a cap of two: min(2, 2^(a-1)).
MCRetryDelay == [a \in 1..MaxAttempts |-> IF a <= 1 THEN 1 ELSE 2]

=============================================================================
