------------------------------- MODULE StartUp -------------------------------
(***************************************************************************)
(* The start-up of a process next to others that share its data directory: *)
(* migration 5 encrypts the stored bot token with the data key, which      *)
(* core/secrets.py gets from the secret file.  Composes Migrations, run by *)
(* the process Own, with SecretFile, used by all of them.                  *)
(***************************************************************************)
EXTENDS Migrations

CONSTANTS
  Process, Own,  \* processes that use the data directory, and the one that migrates
  MaxPolls       \* reads of a file that another process has created and not written

ASSUME StartUpAssumption == Own \in Process /\ MaxPolls \in Nat

VARIABLES
  file, step, secret, polls,  \* of SecretFile
  sealed                      \* the key the stored token was encrypted with

Key == INSTANCE SecretFile

keys == <<file, step, secret, polls>>
allVars == <<vars, keys, sealed>>

StartInit == Init /\ Key!Init /\ sealed = Key!None

-----------------------------------------------------------------------------
\* Migration 5 encrypts a token that is stored in the clear.
Encrypts == stage = "columns" /\ version = 5 /\ view.token = 0

\* The UPDATE of a migration; without the key _fernet raises and nothing is written.
Encrypt ==
  /\ Rewrite
  /\ Encrypts => secret[Own] # Key!None
  /\ sealed' = IF Encrypts THEN secret[Own] ELSE sealed
  /\ UNCHANGED keys

\* The other statements of the start-up, and the running application.
Continue ==
  /\ StartUp \/ AddColumn \/ CreateIndexes \/ Record \/ Commit \/ Work
  /\ UNCHANGED <<keys, sealed>>

\* Own asks for the key when it encrypts; the others when they handle a secret.
Ask(p) ==
  /\ p = Own => Encrypts
  /\ Key!Look(p) \/ Key!Create(p) \/ Key!Write(p) \/ Key!Poll(p)
  /\ UNCHANGED <<vars, sealed>>

\* A process ends; a start-up that was refused its key ends like this too.
Die(p) ==
  /\ Key!Crash(p)
  /\ IF p = Own THEN Crash
     ELSE UNCHANGED <<stored, view, open, applied, stage, version, had, owed, cut>>
  /\ UNCHANGED sealed

StartNext ==
  \/ Encrypt \/ Continue
  \/ \E p \in Process : Ask(p) \/ Die(p)

StartSpec == StartInit /\ [][StartNext]_allVars

-----------------------------------------------------------------------------
\* Every process that has a key has the one in the file (SecretFile), whoever has
\* created it, and whoever died on the way.
OneSecret == Key!OneSecret

\* The token in the database can be decrypted by every process that has a key, also
\* when the first start-up was cut off after it had drawn one (decrypt_secret).
TokenReadable ==
  stage = "up" /\ stored.token = 1 /\ sealed # Key!None => sealed = file

\* There is one key, for all processes and for what is stored.
SecretsAgree == OneSecret /\ TokenReadable
=============================================================================
