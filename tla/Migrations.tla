----------------------------- MODULE Migrations -----------------------------
(***************************************************************************)
(* Start-up of the SQLite schema: database.py (init_database and           *)
(* _apply_migrations) with schema.sql, and what a crash between any two    *)
(* of its statements leaves behind.                                        *)
(*                                                                         *)
(* Python's sqlite3 opens a transaction before the first INSERT or UPDATE  *)
(* and keeps it until the commit of init_database.  DDL opens none: an     *)
(* ALTER TABLE before the first DML is durable at once, one after it is    *)
(* part of the transaction.  `stored` is the file, `view` what the         *)
(* connection sees, `open` says that they differ by a transaction.         *)
(*                                                                         *)
(* The rows are creation tasks of one user, reduced to the attributes the  *)
(* migrations write; oci_change_ip_task is treated by the same statements  *)
(* with (user_id, instance_id) for user_id.                                *)
(***************************************************************************)
EXTENDS Integers, Sequences

CONSTANTS
  Task,        \* ids, compared by the tie break: a set of naturals
  Legacy,      \* schema versions a stored database may have: subset of 0..12
  MaxCrashes   \* bound on crashes and restarts

ASSUME MigrationsAssumption ==
  Task \subseteq Nat /\ Legacy \subseteq 0..12 /\ MaxCrashes \in Nat

VARIABLES
  stored,      \* the database file: [columns, versions, unique, tasks, token]
  view,        \* the same through the connection of init_database
  open,        \* a transaction is open
  applied,     \* the versions read at start-up
  stage,       \* "off", "columns", "create", "record", "commit", "up", "failed"
  version,     \* the migration being applied
  had,         \* had_boot_volume_vpus
  owed,        \* history: the rows and token a finished start-up must show
  cut,         \* history: a crash has split migration 12 (see VolumesKept)
  crashes

vars == <<stored, view, open, applied, stage, version, had, owed, cut, crashes>>

Versions == 1..12
Numbers == {0, 2}  \* create_numbers that are left: none or some
Vpus == "boot_volume_vpus_per_gb"

\* The columns a migration adds to oci_create_task, in its order.
Columns ==
  [v \in Versions |->
     CASE v = 1  -> <<"status", "attempts", "max_attempts", "last_error",
                      "next_run_at", "updated_at">>
       [] v = 3  -> <<"ssh_public_key">>
       [] v = 7  -> <<"interval_max", "availability_domain", "availability_domain_index">>
       [] v = 8  -> <<"operation_system_version">>
       [] v = 10 -> <<"instance_name", "initial_create_numbers">>
       [] v = 12 -> <<Vpus>>
       [] OTHER  -> <<>>]
ColumnSet(v) == {Columns[v][i] : i \in DOMAIN Columns[v]}
ColumnsUpTo(k) == UNION {ColumnSet(v) : v \in 1..k}

Active == {"pending", "running", "paused"}
Status == Active \cup {"succeeded", "failed", "cancelled"}
Row == [time : 1..2, paused : BOOLEAN, numbers : Numbers, status : Status,
        interval_max : {"interval", "other"}, initial : 1..2, vpus : {10, 20}]

\* A column the file does not have yet shows its default as soon as it is added.
Defaults(r, k) ==
  [r EXCEPT !.status = IF k < 1 THEN "pending" ELSE @,
            !.paused = IF k < 1 THEN @ ELSE r.status = "paused",
            !.interval_max = IF k < 7 THEN "other" ELSE @,
            !.initial = IF k < 10 THEN 1 ELSE @,
            !.vpus = IF k < 12 THEN 20 ELSE @]

-----------------------------------------------------------------------------
\* The data statements of the migrations.

\* Migration 1.
StatusOf(r) ==
  IF r.status \in {"succeeded", "failed", "cancelled"} THEN r.status
  ELSE IF r.paused THEN "paused" ELSE "pending"

\* Migration 10.
InitialOf(r) == IF r.numbers > 0 THEN r.numbers ELSE 1

NewerByTime(tasks, t, u) ==  \* mutant: no tie break
  tasks[u].time > tasks[t].time
\* Migration 4: an active task with a newer active one of the same user.
Newer(tasks, t, u) ==
  \/ tasks[u].time > tasks[t].time
  \/ tasks[u].time = tasks[t].time /\ u > t
ActiveIn(tasks) == {t \in Task : tasks[t].status \in Active}
Superseded(tasks) ==
  {t \in ActiveIn(tasks) : \E u \in ActiveIn(tasks) : Newer(tasks, t, u)}

\* The UPDATE statements of migration v. A token is counted by how often it was
\* encrypted, -1 for none.
Rewritten(db, v) ==
  [db EXCEPT
     !.tasks = [t \in Task |->
        LET r == db.tasks[t] IN
        CASE v = 1 -> [r EXCEPT !.status = StatusOf(r)]
          [] v = 4 /\ t \in Superseded(db.tasks) -> [r EXCEPT !.status = "cancelled"]
          [] v = 7 -> [r EXCEPT !.interval_max = "interval"]
          [] v = 10 -> [r EXCEPT !.initial = InitialOf(r)]
          [] v = 12 -> [r EXCEPT !.vpus = 10]
          [] OTHER -> r],
     !.token = IF v = 5 /\ @ # -1 THEN @ + 1 ELSE @]

UpdatesRechecking(v) ==  \* mutant: the columns are looked at after the ALTER
  v \in {1, 4, 7, 10} \cup (IF view.token = 0 THEN {5} ELSE {})
    \cup (IF Vpus \in view.columns THEN {} ELSE {12})
\* Whether migration v executes an UPDATE.
Updates(v) ==
  v \in {1, 4, 7, 10} \cup (IF view.token = 0 THEN {5} ELSE {}) \cup (IF had THEN {} ELSE {12})

\* oci_create_task_one_active_user can be created.
Unique(db) == \A t, u \in ActiveIn(db.tasks) : t = u

-----------------------------------------------------------------------------
\* What a start-up owes to a database at version k: an uninterrupted upgrade.
Owed(db, k) ==
  LET status(t) == IF k >= 1 THEN db.tasks[t].status
                   ELSE IF db.tasks[t].paused THEN "paused" ELSE "pending"
      active == {t \in Task : status(t) \in Active}
      later(t) == {u \in active : \/ db.tasks[u].time > db.tasks[t].time
                                  \/ (db.tasks[u].time = db.tasks[t].time /\ u > t)}
      numbers(t) == db.tasks[t].numbers
  IN [tasks |->
        [t \in Task |->
           [db.tasks[t] EXCEPT
              !.status = IF k < 4 /\ t \in active /\ later(t) # {} THEN "cancelled" ELSE status(t),
              !.interval_max = IF k < 7 THEN "interval" ELSE @,
              !.initial = IF k < 10 THEN (IF numbers(t) = 0 THEN 1 ELSE numbers(t)) ELSE @,
              !.vpus = IF k < 12 THEN 10 ELSE @]],
      token |-> IF db.token = -1 THEN -1 ELSE 1]

Database(k) ==
  {[columns |-> ColumnsUpTo(k), versions |-> 1..k, unique |-> k >= 4,
    tasks |-> [t \in Task |-> Defaults(tasks[t], k)], token |-> token] :
     tasks \in [Task -> [time : 1..2, paused : BOOLEAN, numbers : Numbers,
                         status : {"pending", "paused", "succeeded"},
                         interval_max : {"interval"}, initial : {2}, vpus : {10}]],
     token \in {-1, IF k < 5 THEN 0 ELSE 1}}

Init ==
  \E k \in Legacy : \E db \in Database(k) :
    /\ db.unique => Unique(db)
    /\ stored = db /\ view = db
    /\ owed = Owed(db, k)
    /\ open = FALSE /\ applied = {} /\ stage = "off" /\ version = 0 /\ had = FALSE
    /\ cut = FALSE /\ crashes = 0

-----------------------------------------------------------------------------
\* Statements: DDL is durable at once unless a transaction is open, DML opens one.
Ddl(db) ==
  /\ view' = db
  /\ stored' = IF open THEN stored ELSE db
  /\ UNCHANGED open

Dml(db) ==
  /\ view' = db
  /\ open' = TRUE
  /\ UNCHANGED stored

\* The next migration whose version was not applied at start-up, or the commit.
Advance(after, known) ==
  LET todo == {v \in Versions \ known : v > after} IN
  IF todo = {}
  THEN stage' = "commit" /\ UNCHANGED <<version, had>>
  ELSE /\ stage' = "columns"
       /\ version' = CHOOSE v \in todo : \A w \in todo : v <= w
       /\ had' = (Vpus \in view'.columns)

\* executescript and the SELECT of the versions. schema.sql creates only what is missing.
StartUp ==
  /\ stage = "off"
  /\ view' = stored /\ open' = FALSE
  /\ applied' = stored.versions
  /\ Advance(0, stored.versions)
  /\ UNCHANGED <<stored, owed, cut, crashes>>

MissingUnlessBegun ==  \* mutant: the first column is taken for all of them
  {i \in DOMAIN Columns[version] : i = 1 /\ Columns[version][i] \notin view.columns}
\* The places of the columns that the table does not have yet.
Missing == {i \in DOMAIN Columns[version] : Columns[version][i] \notin view.columns}

AddColumn ==
  /\ stage = "columns"
  /\ \E i \in Missing :
       /\ \A j \in Missing : i <= j
       /\ Ddl([view EXCEPT !.columns = @ \cup {Columns[version][i]}])
  /\ UNCHANGED <<applied, stage, version, had, owed, cut, crashes>>

Rewrite ==
  /\ stage = "columns" /\ Missing = {}
  /\ IF Updates(version) THEN Dml(Rewritten(view, version)) ELSE UNCHANGED <<view, stored, open>>
  /\ stage' = IF version = 4 THEN "create" ELSE "record"
  /\ UNCHANGED <<applied, version, had, owed, cut, crashes>>

\* CREATE UNIQUE INDEX IF NOT EXISTS; duplicates raise, and the start-up is rolled back.
CreateIndexes ==
  /\ stage = "create"
  /\ IF view.unique \/ Unique(view)
     THEN Ddl([view EXCEPT !.unique = TRUE]) /\ stage' = "record"
     ELSE stage' = "failed" /\ view' = stored /\ open' = FALSE /\ UNCHANGED stored
  /\ UNCHANGED <<applied, version, had, owed, cut, crashes>>

Record ==
  /\ stage = "record"
  /\ Dml([view EXCEPT !.versions = @ \cup {version}])
  /\ Advance(version, applied)
  /\ UNCHANGED <<applied, owed, cut, crashes>>

Commit ==
  /\ stage = "commit"
  /\ stored' = view /\ open' = FALSE /\ stage' = "up"
  /\ UNCHANGED <<view, applied, version, had, owed, cut, crashes>>

\* The application is up: an operator's new interval, and the task's end.
Work ==
  /\ stage = "up"
  /\ \E t \in Task : \E r \in {[owed.tasks[t] EXCEPT !.interval_max = "other"],
                             [owed.tasks[t] EXCEPT !.status = "succeeded", !.numbers = 0]} :
       /\ stored' = [stored EXCEPT !.tasks[t] = [r EXCEPT !.vpus = stored.tasks[t].vpus]]
       /\ owed' = [owed EXCEPT !.tasks[t] = r]
  /\ view' = stored'
  /\ UNCHANGED <<open, applied, stage, version, had, cut, crashes>>

\* The process ends, at any point: SQLite discards the open transaction.
Crash ==
  /\ stage # "off" /\ crashes < MaxCrashes
  /\ crashes' = crashes + 1
  /\ stage' = "off" /\ view' = stored /\ open' = FALSE
  /\ applied' = {} /\ version' = 0 /\ had' = FALSE
  /\ cut' = (cut \/ (Vpus \in stored.columns /\ 12 \notin stored.versions))
  /\ UNCHANGED <<stored, owed>>

Next ==
  \/ StartUp \/ AddColumn \/ Rewrite \/ CreateIndexes \/ Record \/ Commit
  \/ Work \/ Crash

Spec == Init /\ [][Next]_vars

-----------------------------------------------------------------------------
TypeOK ==
  /\ stored.versions \in SUBSET Versions /\ view.versions \in SUBSET Versions
  /\ stored.columns \in SUBSET ColumnsUpTo(12) /\ view.columns \in SUBSET ColumnsUpTo(12)
  /\ stored.tasks \in [Task -> Row] /\ view.tasks \in [Task -> Row]
  /\ open \in BOOLEAN /\ had \in BOOLEAN
  /\ stage \in {"off", "columns", "create", "record", "commit", "up", "failed"}
  /\ version \in 0..12 /\ cut \in BOOLEAN /\ crashes \in 0..MaxCrashes

WithoutVpus(tasks) == [t \in Task |-> [tasks[t] EXCEPT !.vpus = 0]]

\* However often start-up was interrupted, and at whichever statement, an application
\* that is up sees what an uninterrupted upgrade gives, nothing it wrote itself is
\* migrated again (_apply_migrations), and the token is encrypted exactly once; nor is
\* a start-up refused because of the rows it finds, over which migration 4 creates the
\* unique index.  The volume performance is the subject of VolumesKept.
Upgraded ==
  /\ stage # "failed"
  /\ stage = "up" =>
       /\ stored.versions = Versions /\ stored.unique
       /\ WithoutVpus(stored.tasks) = WithoutVpus(owed.tasks)
       /\ stored.token = owed.token

\* Types, and: a version is never durable without the columns and the index of its
\* migration; later migrations and the ORM rely on the number (schema_migrations).
VersionsTruthful ==
  /\ TypeOK
  /\ \A v \in stored.versions :
       ColumnSet(v) \subseteq stored.columns /\ (v = 4 => stored.unique)

\* Tasks that predate migration 12 keep the performance of 10
\* (test_migration_preserves_legacy_task_boot_volume_performance), unless a crash has
\* separated its ALTER, durable at once when no transaction is open, from its UPDATE,
\* which the next start-up then takes for done (had_boot_volume_vpus).
VolumesKept ==
  stage = "up" /\ ~cut => \A t \in Task : stored.tasks[t].vpus = owed.tasks[t].vpus
=============================================================================
