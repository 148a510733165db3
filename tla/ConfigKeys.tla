----------------------------- MODULE ConfigKeys ------------------------------
(***************************************************************************)
(* OCI configurations and the private keys they own: add_cfg,              *)
(* import_cfg_file and remove_cfg (services/oci_service.py), upload_cfg    *)
(* (routers/oci_router.py).  The rows are in the database, the keys are    *)
(* files of the key directory, and nothing makes the two one transaction:  *)
(* a request awaits, fails or is cancelled, or the process dies between    *)
(* the two.                                                                *)
(*                                                                         *)
(* A key file is the number of its creation (generate_id), and so is the   *)
(* configuration that owns it.  What remove_cfg does to the tasks of a     *)
(* configuration is in ChangeIp and CreateTask.                            *)
(***************************************************************************)
EXTENDS Integers, FiniteSets

CONSTANTS
  Supplied,        \* key files the operator has put there for an import
  Adder, Remover,  \* requests in progress
  MaxKeys, MaxRestarts  \* bounds

ASSUME KeysAssumption ==
  Supplied \cap Nat = {} /\ MaxKeys \in Nat /\ MaxRestarts \in Nat

VARIABLES
  files,      \* the key directory
  rows,       \* the configurations, each named by its key
  astep, key, \* of each adder: the file it has written
  queue,      \* of each adder: references of an upload still to import
  rstep, doomed,  \* of each remover: configurations to delete, then files to unlink
  created, restarts,
  lost,       \* history: files left behind by a crash, a failing write, a failing unlink
              \* or a removal cancelled at its commit
  severed         \* history: configurations whose import was cancelled at their commit

adding == <<astep, key, queue>>
removing == <<rstep, doomed>>
configVars == <<files, rows, adding, removing, created, restarts, lost, severed>>

KeyNumber == 1..MaxKeys

ConfigInit ==
  /\ files = Supplied /\ rows = {}
  /\ astep = [a \in Adder |-> "idle"] /\ key = [a \in Adder |-> 0]
  /\ queue = [a \in Adder |-> {}]
  /\ rstep = [r \in Remover |-> "idle"] /\ doomed = [r \in Remover |-> {}]
  /\ created = 0 /\ restarts = 0 /\ lost = {} /\ severed = {}

MoveAdd(a, s) == astep' = [astep EXCEPT ![a] = s]

\* An unlink that may fail with an OSError.
Discard(k) ==
  \/ files' = files \ {k} /\ UNCHANGED lost
  \/ lost' = lost \cup {k} /\ UNCHANGED files

-----------------------------------------------------------------------------
\* upload_cfg: one file after the other, the references as a set.
Upload(a, references) ==
  /\ astep[a] = "idle" /\ references # {}
  /\ queue' = [queue EXCEPT ![a] = references]
  /\ MoveAdd(a, "importing")
  /\ UNCHANGED <<files, rows, key, removing, created, restarts, lost, severed>>

\* import_cfg_file: the key it refers to has to be in the key directory, and is read
\* in a thread; a failure is noted, and the next file is tried.
ImportNext(a, reference) ==
  /\ astep[a] = "importing" /\ reference \in queue[a]
  /\ queue' = [queue EXCEPT ![a] = @ \ {reference}]
  /\ MoveAdd(a, IF reference \in files THEN "reading" ELSE "importing")
  /\ UNCHANGED <<files, rows, key, removing, created, restarts, lost, severed>>

UploadEnds(a) ==
  /\ astep[a] = "importing" /\ queue[a] = {}
  /\ MoveAdd(a, "idle")
  /\ UNCHANGED <<files, rows, key, queue, removing, created, restarts, lost, severed>>

\* add_cfg up to its await: a file of its own, and the key in it.  No clause covers the
\* write: where it fails, a file that nobody knows of stays.
WriteKey(a) ==
  /\ astep[a] = "reading" /\ created < MaxKeys
  /\ created' = created + 1
  /\ key' = [key EXCEPT ![a] = created']
  /\ files' = files \cup {created'}
  /\ \/ MoveAdd(a, "validating") /\ UNCHANGED lost
     \/ MoveAdd(a, "importing") /\ lost' = lost \cup {created'}
  /\ UNCHANGED <<rows, queue, removing, restarts, severed>>

\* The reference was read and is no key, or is gone by now; or no file can be created.
ImportFails(a) ==
  /\ astep[a] = "reading"
  /\ MoveAdd(a, "importing")
  /\ UNCHANGED <<files, rows, key, queue, removing, created, restarts, lost, severed>>

\* OCI accepts the key, and the row is committed.
CommitRow(a) ==
  /\ astep[a] = "validating"
  /\ rows' = rows \cup {key[a]}
  /\ MoveAdd(a, "importing")
  /\ UNCHANGED <<files, key, queue, removing, created, restarts, lost, severed>>

RefuseKeeping(a) ==  \* mutant: no finally
  /\ astep[a] = "validating"
  /\ MoveAdd(a, "importing")
  /\ UNCHANGED <<files, rows, key, queue, removing, created, restarts, lost, severed>>
\* OCI or the database refuses: the finally clause removes the file.
Refuse(a) ==
  /\ astep[a] = "validating"
  /\ Discard(key[a])
  /\ MoveAdd(a, "importing")
  /\ UNCHANGED <<rows, key, queue, removing, created, restarts, severed>>

\* A forced end of the server cancels what a request awaits.  CancelledError is no
\* Exception, but the finally clause runs; a commit may have taken effect all the same.
CancelImport(a) ==
  /\ astep[a] # "idle"
  /\ astep' = [astep EXCEPT ![a] = "idle"] /\ queue' = [queue EXCEPT ![a] = {}]
  /\ IF astep[a] # "validating" THEN UNCHANGED <<files, rows, lost, severed>>
     ELSE /\ Discard(key[a])
          /\ \/ rows' = rows \cup {key[a]} /\ severed' = severed \cup {key[a]}
             \/ UNCHANGED <<rows, severed>>
  /\ UNCHANGED <<key, removing, created, restarts>>

-----------------------------------------------------------------------------
\* remove_cfg: the SELECT, the commit, and the files of the rows that were read.
Select(r, ids) ==
  /\ rstep[r] = "idle"
  /\ doomed' = [doomed EXCEPT ![r] = ids \cap rows]
  /\ rstep' = [rstep EXCEPT ![r] = "deleting"]
  /\ UNCHANGED <<files, rows, adding, created, restarts, lost, severed>>

UnlinkFirst(r) ==  \* mutant: the files go before the commit, which may fail
  /\ rstep[r] = "deleting"
  /\ files' = files \ doomed[r]
  /\ \/ rows' = rows \ doomed[r] /\ rstep' = [rstep EXCEPT ![r] = "unlinking"] /\ UNCHANGED doomed
     \/ rstep' = [rstep EXCEPT ![r] = "idle"] /\ doomed' = [doomed EXCEPT ![r] = {}] /\ UNCHANGED rows
  /\ UNCHANGED <<adding, created, restarts, lost, severed>>
CommitDeletion(r) ==
  /\ rstep[r] = "deleting"
  /\ \/ rows' = rows \ doomed[r] /\ rstep' = [rstep EXCEPT ![r] = "unlinking"] /\ UNCHANGED doomed
     \/ rstep' = [rstep EXCEPT ![r] = "idle"] /\ doomed' = [doomed EXCEPT ![r] = {}] /\ UNCHANGED rows
  /\ UNCHANGED <<files, adding, created, restarts, lost, severed>>

\* One file after the other; an OSError is logged.
Unlink(r, k) ==
  /\ rstep[r] = "unlinking" /\ k \in doomed[r]
  /\ doomed' = [doomed EXCEPT ![r] = @ \ {k}]
  /\ Discard(k)
  /\ UNCHANGED <<rows, adding, rstep, created, restarts, severed>>

\* Cancelled at the commit, which may have taken effect: the files stay.
CancelRemoval(r) ==
  /\ rstep[r] = "deleting"
  /\ \/ rows' = rows \ doomed[r] /\ lost' = lost \cup doomed[r]
     \/ UNCHANGED <<rows, lost>>
  /\ rstep' = [rstep EXCEPT ![r] = "idle"] /\ doomed' = [doomed EXCEPT ![r] = {}]
  /\ UNCHANGED <<files, adding, created, restarts, severed>>

RemoveEnds(r) ==
  /\ rstep[r] = "unlinking" /\ doomed[r] = {}
  /\ rstep' = [rstep EXCEPT ![r] = "idle"]
  /\ UNCHANGED <<files, rows, adding, doomed, created, restarts, lost, severed>>

-----------------------------------------------------------------------------
\* The process dies in the middle of everything.
Unowned == files \ (rows \cup Supplied)
ProcessDies ==
  /\ restarts < MaxRestarts /\ restarts' = restarts + 1
  /\ lost' = lost \cup Unowned
  /\ astep' = [a \in Adder |-> "idle"] /\ queue' = [a \in Adder |-> {}]
  /\ rstep' = [r \in Remover |-> "idle"] /\ doomed' = [r \in Remover |-> {}]
  /\ UNCHANGED <<files, rows, key, created, severed>>

ConfigNext ==
  \/ \E a \in Adder :
       \/ \E references \in SUBSET (Supplied \cup KeyNumber) : Upload(a, references)
       \/ \E reference \in Supplied \cup KeyNumber : ImportNext(a, reference)
       \/ UploadEnds(a) \/ WriteKey(a) \/ ImportFails(a) \/ CommitRow(a) \/ Refuse(a)
       \/ CancelImport(a)
  \/ \E r \in Remover :
       \/ \E ids \in SUBSET KeyNumber : Select(r, ids)
       \/ CommitDeletion(r) \/ CancelRemoval(r)
       \/ \E k \in KeyNumber : Unlink(r, k)
       \/ RemoveEnds(r)
  \/ ProcessDies

ConfigSpec == ConfigInit /\ [][ConfigNext]_configVars

-----------------------------------------------------------------------------
\* "A committed row owns the key": a configuration finds its key file, whatever fails,
\* overlaps or is interrupted.  The exception is an import cancelled at its commit: the
\* finally clause takes the row for uncommitted.
RowHasItsKey == rows \ severed \subseteq files

\* "Otherwise remove the temporary key": a file that no configuration owns belongs to a
\* request in progress, or is one that a crash, a failing write or unlink, or a removal
\* cancelled at its commit has left behind.
NoOrphanedKey ==
  Unowned \subseteq lost \cup {key[a] : a \in {a \in Adder : astep[a] = "validating"}}
                         \cup UNION {doomed[r] : r \in {r \in Remover : rstep[r] = "unlinking"}}
=============================================================================
