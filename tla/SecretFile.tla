----------------------------- MODULE SecretFile ------------------------------
(***************************************************************************)
(* The generated secrets, .oci-helper-secret and .oci-helper-data-key:     *)
(* effective_jwt_secret, effective_data_encryption_key and                 *)
(* _load_or_create_secret (config.py).  _secret_lock makes the threads of  *)
(* a process one; processes that share the data directory are not          *)
(* serialised, and a process may die between any two steps.                *)
(***************************************************************************)
EXTENDS Integers

CONSTANTS Process, MaxPolls, MaxCrashes  \* MaxPolls: 20; MaxCrashes: a bound

VARIABLES
  file,     \* its content: one of the three below or the secret a process drew
  step,     \* of each process
  secret,   \* _generated_secret, None before there is one
  polls, crashes

vars == <<file, step, secret, polls, crashes>>

Absent == <<"absent">>
Empty == <<"empty">>
None == <<"none">>
\* token_urlsafe: what a process draws in one of its lives.
Drawn(p) == <<"drawn", p, crashes>>

Init ==
  /\ file = Absent /\ secret = [p \in Process |-> None]
  /\ step = [p \in Process |-> "idle"] /\ polls = [p \in Process |-> 0] /\ crashes = 0

MoveTo(p, s) == step' = [step EXCEPT ![p] = s]
Keep(p, value) == secret' = [secret EXCEPT ![p] = value]

\* A secret is needed: the file exists and is read, or is to be made.
Look(p) ==
  /\ step[p] = "idle" /\ secret[p] = None
  /\ IF file = Absent THEN MoveTo(p, "creating") /\ UNCHANGED secret
     ELSE IF file = Empty THEN MoveTo(p, "failed") /\ UNCHANGED secret
     ELSE MoveTo(p, "idle") /\ Keep(p, file)
  /\ UNCHANGED <<file, polls, crashes>>

CreateAnyway(p) ==  \* mutant: no O_EXCL
  /\ step[p] = "creating"
  /\ file' = Empty /\ MoveTo(p, "writing")
  /\ UNCHANGED <<secret, polls, crashes>>
\* os.open with O_CREAT and O_EXCL.
Create(p) ==
  /\ step[p] = "creating"
  /\ IF file = Absent THEN file' = Empty /\ MoveTo(p, "writing")
     ELSE MoveTo(p, "polling") /\ UNCHANGED file
  /\ polls' = [polls EXCEPT ![p] = 0]
  /\ UNCHANGED <<secret, crashes>>

\* stream.write, and the close that makes it visible.
Write(p) ==
  /\ step[p] = "writing"
  /\ file' = Drawn(p) /\ Keep(p, Drawn(p)) /\ MoveTo(p, "idle")
  /\ UNCHANGED <<polls, crashes>>

\* The file that somebody else has created is read until it has a content.
Poll(p) ==
  /\ step[p] = "polling"
  /\ IF file # Empty THEN Keep(p, file) /\ MoveTo(p, "idle") /\ UNCHANGED polls
     ELSE IF polls[p] < MaxPolls
     THEN polls' = [polls EXCEPT ![p] = @ + 1] /\ UNCHANGED <<step, secret>>
     ELSE MoveTo(p, "failed") /\ UNCHANGED <<secret, polls>>
  /\ UNCHANGED <<file, crashes>>

\* A process dies and starts again.
Crash(p) ==
  /\ crashes < MaxCrashes /\ crashes' = crashes + 1
  /\ MoveTo(p, "idle") /\ Keep(p, None)
  /\ UNCHANGED <<file, polls>>

Next == \E p \in Process : Look(p) \/ Create(p) \/ Write(p) \/ Poll(p) \/ Crash(p)

Spec == Init /\ [][Next]_vars

-----------------------------------------------------------------------------
\* "Return a stable signing key" (effective_jwt_secret): every process that has a key has
\* the one in the file, so that what one signs or encrypts is good for the others.
OneSecret == \A p \in Process : secret[p] # None => secret[p] = file
=============================================================================
