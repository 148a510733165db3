--------------------------- MODULE Storage_proofs ---------------------------
(***************************************************************************)
(* What processes that may die at any point leave behind for the next one. *)
(* StartUp: one secret for all processes and a readable token; a schema    *)
(* and rows that an interrupted upgrade leaves as an uninterrupted one     *)
(* does.  ConfigKeys: a row has its key file, a file without a row is      *)
(* explained.  For any tasks, legacy versions, requests, processes and     *)
(* number of crashes.                                                      *)
(***************************************************************************)
EXTENDS StartUp, ConfigKeys, TLAPS

Contents == {<<"drawn", p, c>> : p \in Process, c \in Nat}

(* A file is absent, empty or has a drawn value; a process that has created it and not *)
(* yet written it is alone, and nobody has a key before there is one.                  *)
KeysInv ==
  /\ crashes \in Nat
  /\ step \in [Process -> {"idle", "creating", "writing", "polling", "failed"}]
  /\ secret \in [Process -> {Key!None} \cup Contents]
  /\ file \in {Key!Absent, Key!Empty} \cup Contents
  /\ \A p, q \in Process : step[p] = "writing" => file = Key!Empty /\ (step[q] = "writing" => p = q)
  /\ \A p \in Process : step[p] = "polling" => file # Key!Absent
  /\ \A p \in Process : secret[p] # Key!None => secret[p] = file
  /\ sealed # Key!None => sealed = file /\ file \in Contents

(* No drawn value looks like the marks for an absent or empty file or no key. *)
LEMMA MarksDiffer ==
  /\ Key!Absent \notin Contents /\ Key!Empty \notin Contents /\ Key!None \notin Contents
  /\ Key!Absent # Key!Empty /\ Key!None # Key!Absent /\ Key!None # Key!Empty
<1>1. ASSUME NEW p, NEW c, NEW x
      PROVE  <<"drawn", p, c>> # <<x>>
  <2>1. Len(<<"drawn", p, c>>) = 3 /\ Len(<<x>>) = 1
    OBVIOUS
  <2> QED BY <2>1
<1>2. <<"absent">>[1] = "absent" /\ <<"empty">>[1] = "empty" /\ <<"none">>[1] = "none"
  OBVIOUS
<1>3. Key!Absent # Key!Empty /\ Key!None # Key!Absent /\ Key!None # Key!Empty
  BY <1>2 DEF Key!Absent, Key!Empty, Key!None
<1> QED BY <1>1, <1>3 DEF Contents, Key!Absent, Key!Empty, Key!None

LEMMA KeysInit == StartInit => KeysInv
  BY MarksDiffer, StartUpAssumption, MigrationsAssumption DEF StartInit, Init, Key!Init, KeysInv

LEMMA KeysStep == KeysInv /\ [StartNext]_allVars => KeysInv'
<1> SUFFICES ASSUME KeysInv, [StartNext]_allVars PROVE KeysInv'
  OBVIOUS
<1> USE MarksDiffer
<1>1. CASE Encrypt
  <2>1. crashes' = crashes /\ UNCHANGED keys
    BY <1>1 DEF Encrypt, Rewrite, keys
  <2>2. sealed' # Key!None => sealed' = file /\ file \in Contents
    BY <1>1, StartUpAssumption DEF Encrypt, KeysInv
  <2> QED BY <2>1, <2>2 DEF KeysInv, keys
<1>2. CASE Continue
  BY <1>2 DEF KeysInv, Continue, keys, StartUp, AddColumn, CreateIndexes, Record, Commit, Work
<1>3. ASSUME NEW p \in Process, Key!Look(p), UNCHANGED <<vars, sealed>>
      PROVE  KeysInv'
  BY <1>3 DEF KeysInv, Key!Look, Key!MoveTo, Key!Keep, vars
<1>4. ASSUME NEW p \in Process, Key!Create(p), UNCHANGED <<vars, sealed>>
      PROVE  KeysInv'
  BY <1>4 DEF KeysInv, Key!Create, Key!MoveTo, vars
<1>5. ASSUME NEW p \in Process, Key!Write(p), UNCHANGED <<vars, sealed>>
      PROVE  KeysInv'
  <2>1. Key!Drawn(p) \in Contents
    BY DEF Key!Drawn, Contents, KeysInv
  <2> QED BY <1>5, <2>1 DEF KeysInv, Key!Write, Key!MoveTo, Key!Keep, vars
<1>6. ASSUME NEW p \in Process, Key!Poll(p), UNCHANGED <<vars, sealed>>
      PROVE  KeysInv'
  BY <1>6 DEF KeysInv, Key!Poll, Key!MoveTo, Key!Keep, vars
<1>7. ASSUME NEW p \in Process, Die(p)
      PROVE  KeysInv'
  <2>1. Key!Crash(p) /\ UNCHANGED sealed
    BY <1>7 DEF Die
  <2> QED BY <2>1 DEF KeysInv, Key!Crash, Key!MoveTo, Key!Keep
<1>8. CASE UNCHANGED allVars
  BY <1>8 DEF KeysInv, allVars, keys, vars
<1> QED
  BY <1>1, <1>2, <1>3, <1>4, <1>5, <1>6, <1>7, <1>8 DEF StartNext, Ask

LEMMA KeysAlways == StartSpec => []KeysInv
  BY KeysInit, KeysStep, PTL DEF StartSpec

(* effective_data_encryption_key: for any number of processes and crashes, every process *)
(* that has a key has the one in the file, and the stored token is encrypted with it.     *)
THEOREM SecretsAlwaysAgree == StartSpec => []SecretsAgree
<1>1. KeysInv => SecretsAgree
  BY DEF KeysInv, SecretsAgree, OneSecret, Key!OneSecret, TokenReadable
<1> QED BY <1>1, KeysAlways, PTL

-----------------------------------------------------------------------------
\* Only migration 12 adds the column of the volume performance.
LEMMA OnlyTwelveAddsVpus == \A v \in 1..11 : Vpus \notin ColumnSet(v)
<1> SUFFICES ASSUME NEW v \in 1..11 PROVE Vpus \notin ColumnSet(v)
  OBVIOUS
<1> DEFINE named == {"status", "attempts", "max_attempts", "last_error", "next_run_at",
                     "updated_at", "ssh_public_key", "interval_max", "availability_domain",
                     "availability_domain_index", "operation_system_version",
                     "instance_name", "initial_create_numbers"}
<1>1. \A i \in DOMAIN Columns[v] : Columns[v][i] \in named
  <2>1. CASE v = 1
    BY <2>1 DEF Columns, Versions
  <2>2. CASE v = 3
    BY <2>2 DEF Columns, Versions
  <2>3. CASE v = 7
    BY <2>3 DEF Columns, Versions
  <2>4. CASE v = 8
    BY <2>4 DEF Columns, Versions
  <2>5. CASE v = 10
    BY <2>5 DEF Columns, Versions
  <2>6. CASE v \in {2, 4, 5, 6, 9, 11}
    <3>1. Columns[v] = <<>>
      BY <2>6 DEF Columns, Versions
    <3> QED BY <3>1
  <2> QED BY <2>1, <2>2, <2>3, <2>4, <2>5, <2>6
<1>2. Vpus \notin named
  BY DEF Vpus
<1> QED BY <1>1, <1>2 DEF ColumnSet

IsDatabase(db) ==
  /\ db = [columns |-> db.columns, versions |-> db.versions, unique |-> db.unique,
           tasks |-> db.tasks, token |-> db.token]
  /\ db.columns \subseteq ColumnsUpTo(12) /\ db.versions \subseteq Versions
  /\ db.unique \in BOOLEAN /\ db.tasks \in [Task -> Row] /\ db.token \in {-1, 0, 1}

StatusAt(db, k, t) ==
  IF k >= 1 THEN db.tasks[t].status ELSE IF db.tasks[t].paused THEN "paused" ELSE "pending"
Overtaken(db, k, t) ==
  /\ StatusAt(db, k, t) \in Active
  /\ \E u \in Task : StatusAt(db, k, u) \in Active /\ Newer(db.tasks, t, u)

\* Owed, attribute by attribute.
LEMMA OwedRows ==
  ASSUME NEW db, IsDatabase(db), NEW k \in 0..12, NEW t \in Task
  PROVE  /\ Owed(db, k).tasks[t] =
              [time |-> db.tasks[t].time, paused |-> db.tasks[t].paused,
               numbers |-> db.tasks[t].numbers,
               status |-> IF k < 4 /\ Overtaken(db, k, t) THEN "cancelled" ELSE StatusAt(db, k, t),
               interval_max |-> IF k < 7 THEN "interval" ELSE db.tasks[t].interval_max,
               initial |-> IF k < 10 THEN InitialOf(db.tasks[t]) ELSE db.tasks[t].initial,
               vpus |-> IF k < 12 THEN 10 ELSE db.tasks[t].vpus]
         /\ Owed(db, k).tasks[t] \in Row
<1> DEFINE r == db.tasks[t]
           status == IF k < 4 /\ Overtaken(db, k, t) THEN "cancelled" ELSE StatusAt(db, k, t)
<1>1. r \in Row
  BY DEF IsDatabase
<1>2. InitialOf(r) = IF r.numbers = 0 THEN 1 ELSE r.numbers
  BY <1>1 DEF InitialOf, Row, Numbers
<1>3. Owed(db, k).tasks[t] =
        [r EXCEPT !.status = status,
                  !.interval_max = IF k < 7 THEN "interval" ELSE @,
                  !.initial = IF k < 10 THEN InitialOf(r) ELSE @,
                  !.vpus = IF k < 12 THEN 10 ELSE @]
  <2>1. (k < 4 /\ Overtaken(db, k, t)) <=>
          LET st(u) == IF k >= 1 THEN db.tasks[u].status
                       ELSE IF db.tasks[u].paused THEN "paused" ELSE "pending"
              active == {u \in Task : st(u) \in Active}
              later(x) == {u \in active : \/ db.tasks[u].time > db.tasks[x].time
                                          \/ (db.tasks[u].time = db.tasks[x].time /\ u > x)}
          IN k < 4 /\ t \in active /\ later(t) # {}
    BY DEF Overtaken, StatusAt, Newer
  <2> QED BY <1>2, <2>1 DEF Owed, StatusAt
<1>4. StatusAt(db, k, t) \in Status
  BY <1>1 DEF StatusAt, Row, Status, Active
<1>5. status \in Status
  BY <1>4 DEF Status
<1>6. /\ InitialOf(r) \in 1..2
      /\ r = [time |-> r.time, paused |-> r.paused, numbers |-> r.numbers, status |-> r.status,
              interval_max |-> r.interval_max, initial |-> r.initial, vpus |-> r.vpus]
  BY <1>1, <1>2 DEF Row, Numbers
<1> HIDE DEF r, status
<1>7. Owed(db, k).tasks[t] =
        [time |-> r.time, paused |-> r.paused, numbers |-> r.numbers, status |-> status,
         interval_max |-> IF k < 7 THEN "interval" ELSE r.interval_max,
         initial |-> IF k < 10 THEN InitialOf(r) ELSE r.initial,
         vpus |-> IF k < 12 THEN 10 ELSE r.vpus]
  BY <1>3, <1>6
<1>8. Owed(db, k).tasks[t] \in Row
  BY <1>1, <1>5, <1>6, <1>7 DEF Row
<1> QED BY <1>7, <1>8 DEF r, status

\* The UPDATE statements, attribute by attribute; they touch no schema.
LEMMA RewrittenRows ==
  ASSUME NEW db, IsDatabase(db), NEW v \in Versions, v = 5 => db.token # 1
  PROVE  /\ \A t \in Task :
              /\ Rewritten(db, v).tasks[t].time = db.tasks[t].time
              /\ Rewritten(db, v).tasks[t].paused = db.tasks[t].paused
              /\ Rewritten(db, v).tasks[t].numbers = db.tasks[t].numbers
              /\ Rewritten(db, v).tasks[t].status =
                   IF v = 1 THEN StatusOf(db.tasks[t])
                   ELSE IF v = 4 /\ t \in Superseded(db.tasks) THEN "cancelled"
                   ELSE db.tasks[t].status
              /\ Rewritten(db, v).tasks[t].interval_max =
                   IF v = 7 THEN "interval" ELSE db.tasks[t].interval_max
              /\ Rewritten(db, v).tasks[t].initial =
                   IF v = 10 THEN InitialOf(db.tasks[t]) ELSE db.tasks[t].initial
              /\ Rewritten(db, v).tasks[t].vpus = IF v = 12 THEN 10 ELSE db.tasks[t].vpus
         /\ IsDatabase(Rewritten(db, v))
         /\ Rewritten(db, v).columns = db.columns /\ Rewritten(db, v).unique = db.unique
         /\ Rewritten(db, v).versions = db.versions
         /\ Rewritten(db, v).token = IF v = 5 /\ db.token # -1 THEN db.token + 1 ELSE db.token
<1> DEFINE new(t) ==
             LET r == db.tasks[t] IN
             CASE v = 1 -> [r EXCEPT !.status = StatusOf(r)]
               [] v = 4 /\ t \in Superseded(db.tasks) -> [r EXCEPT !.status = "cancelled"]
               [] v = 7 -> [r EXCEPT !.interval_max = "interval"]
               [] v = 10 -> [r EXCEPT !.initial = InitialOf(r)]
               [] v = 12 -> [r EXCEPT !.vpus = 10]
               [] OTHER -> r
           token == IF v = 5 /\ db.token # -1 THEN db.token + 1 ELSE db.token
<1>1. Rewritten(db, v) = [db EXCEPT !.tasks = [t \in Task |-> new(t)], !.token = token]
  BY DEF Rewritten
<1>2. ASSUME NEW t \in Task
      PROVE  /\ new(t).time = db.tasks[t].time
             /\ new(t).paused = db.tasks[t].paused
             /\ new(t).numbers = db.tasks[t].numbers
             /\ new(t).status = IF v = 1 THEN StatusOf(db.tasks[t])
                                ELSE IF v = 4 /\ t \in Superseded(db.tasks) THEN "cancelled"
                                ELSE db.tasks[t].status
             /\ new(t).interval_max = IF v = 7 THEN "interval" ELSE db.tasks[t].interval_max
             /\ new(t).initial = IF v = 10 THEN InitialOf(db.tasks[t]) ELSE db.tasks[t].initial
             /\ new(t).vpus = IF v = 12 THEN 10 ELSE db.tasks[t].vpus
             /\ new(t) \in Row
  <2> DEFINE r == db.tasks[t]
  <2>1. r \in Row
    BY DEF IsDatabase
  <2>2. r = [time |-> r.time, paused |-> r.paused, numbers |-> r.numbers, status |-> r.status,
             interval_max |-> r.interval_max, initial |-> r.initial, vpus |-> r.vpus]
    BY <2>1 DEF Row
  <2>3. StatusOf(r) \in Status /\ InitialOf(r) \in 1..2 /\ "cancelled" \in Status
    BY <2>1 DEF Row, StatusOf, InitialOf, Status, Active, Numbers
  <2>4. new(t) =
          CASE v = 1 -> [r EXCEPT !.status = StatusOf(r)]
            [] v = 4 /\ t \in Superseded(db.tasks) -> [r EXCEPT !.status = "cancelled"]
            [] v = 7 -> [r EXCEPT !.interval_max = "interval"]
            [] v = 10 -> [r EXCEPT !.initial = InitialOf(r)]
            [] v = 12 -> [r EXCEPT !.vpus = 10]
            [] OTHER -> r
    OBVIOUS
  <2> HIDE DEF r, new
  <2>5. new(t) = [time |-> r.time, paused |-> r.paused, numbers |-> r.numbers,
                  status |-> IF v = 1 THEN StatusOf(r)
                             ELSE IF v = 4 /\ t \in Superseded(db.tasks) THEN "cancelled"
                             ELSE r.status,
                  interval_max |-> IF v = 7 THEN "interval" ELSE r.interval_max,
                  initial |-> IF v = 10 THEN InitialOf(r) ELSE r.initial,
                  vpus |-> IF v = 12 THEN 10 ELSE r.vpus]
    BY <2>2, <2>4
  <2>6. new(t) \in Row
    BY <2>1, <2>3, <2>5 DEF Row
  <2> QED BY <2>5, <2>6 DEF r
<1>3. token \in {-1, 0, 1}
  BY DEF IsDatabase
<1> HIDE DEF new, token
<1>4. Rewritten(db, v) =
        [columns |-> db.columns, versions |-> db.versions, unique |-> db.unique,
         tasks |-> [t \in Task |-> new(t)], token |-> token]
  BY <1>1 DEF IsDatabase
<1>5. IsDatabase(Rewritten(db, v))
  BY <1>2, <1>3, <1>4 DEF IsDatabase
<1> QED BY <1>2, <1>4, <1>5 DEF token

\* A migration's UPDATE pays its part of what is owed, and no more.
LEMMA OwedStep ==
  ASSUME NEW db, IsDatabase(db), NEW m \in 0..11, m = 4 => db.token # 1,
         m < 1 => \A t \in Task : db.tasks[t].status = "pending"
  PROVE  \A t \in Task : Owed(Rewritten(db, m + 1), m + 1).tasks[t] = Owed(db, m).tasks[t]
<1> DEFINE new == Rewritten(db, m + 1)
<1>1. m + 1 \in Versions /\ m \in 0..12 /\ m + 1 \in 0..12
  BY DEF Versions
<1>2. IsDatabase(new)
  BY <1>1, RewrittenRows
<1>3. \A t \in Task :
        /\ new.tasks[t].time = db.tasks[t].time
        /\ new.tasks[t].paused = db.tasks[t].paused
        /\ new.tasks[t].numbers = db.tasks[t].numbers
        /\ new.tasks[t].status = IF m = 0 THEN StatusOf(db.tasks[t])
                                 ELSE IF m = 3 /\ t \in Superseded(db.tasks) THEN "cancelled"
                                 ELSE db.tasks[t].status
        /\ new.tasks[t].interval_max = IF m = 6 THEN "interval" ELSE db.tasks[t].interval_max
        /\ new.tasks[t].initial = IF m = 9 THEN InitialOf(db.tasks[t]) ELSE db.tasks[t].initial
        /\ new.tasks[t].vpus = IF m = 11 THEN 10 ELSE db.tasks[t].vpus
  <2> DEFINE v == m + 1
  <2>1. v \in Versions /\ (v = 5 => db.token # 1)
    BY <1>1
  <2>2. /\ v = 1 <=> m = 0
        /\ v = 4 <=> m = 3
        /\ v = 7 <=> m = 6
        /\ v = 10 <=> m = 9
        /\ v = 12 <=> m = 11
    OBVIOUS
  <2>3. new = Rewritten(db, v)
    BY DEF new
  <2> HIDE DEF v, new
  <2> SUFFICES ASSUME NEW t \in Task
               PROVE  /\ new.tasks[t].time = db.tasks[t].time
                      /\ new.tasks[t].paused = db.tasks[t].paused
                      /\ new.tasks[t].numbers = db.tasks[t].numbers
                      /\ new.tasks[t].status =
                           IF m = 0 THEN StatusOf(db.tasks[t])
                           ELSE IF m = 3 /\ t \in Superseded(db.tasks) THEN "cancelled"
                           ELSE db.tasks[t].status
                      /\ new.tasks[t].interval_max =
                           IF m = 6 THEN "interval" ELSE db.tasks[t].interval_max
                      /\ new.tasks[t].initial =
                           IF m = 9 THEN InitialOf(db.tasks[t]) ELSE db.tasks[t].initial
                      /\ new.tasks[t].vpus = IF m = 11 THEN 10 ELSE db.tasks[t].vpus
    OBVIOUS
  <2>4. /\ new.tasks[t].time = db.tasks[t].time
        /\ new.tasks[t].paused = db.tasks[t].paused
        /\ new.tasks[t].numbers = db.tasks[t].numbers
    BY <2>1, <2>3, RewrittenRows
  <2>5. new.tasks[t].status =
          IF v = 1 THEN StatusOf(db.tasks[t])
          ELSE IF v = 4 /\ t \in Superseded(db.tasks) THEN "cancelled"
          ELSE db.tasks[t].status
    BY <2>1, <2>3, RewrittenRows
  <2>6. /\ new.tasks[t].interval_max = IF v = 7 THEN "interval" ELSE db.tasks[t].interval_max
        /\ new.tasks[t].initial = IF v = 10 THEN InitialOf(db.tasks[t]) ELSE db.tasks[t].initial
        /\ new.tasks[t].vpus = IF v = 12 THEN 10 ELSE db.tasks[t].vpus
    BY <2>1, <2>3, RewrittenRows
  <2> QED BY <2>2, <2>4, <2>5, <2>6
<1> HIDE DEF new
<1>4. \A t \in Task : InitialOf(new.tasks[t]) = InitialOf(db.tasks[t])
  BY <1>3 DEF InitialOf
<1>5. \A t, u \in Task : Newer(new.tasks, t, u) <=> Newer(db.tasks, t, u)
  BY <1>3 DEF Newer
<1>6. ASSUME NEW t \in Task
      PROVE  (IF m + 1 < 4 /\ Overtaken(new, m + 1, t) THEN "cancelled" ELSE StatusAt(new, m + 1, t))
               = IF m < 4 /\ Overtaken(db, m, t) THEN "cancelled" ELSE StatusAt(db, m, t)
  <2>1. CASE m = 0
    <3>1. \A u \in Task : StatusAt(new, 1, u) = StatusAt(db, 0, u)
      BY <1>3, <2>1 DEF StatusAt, StatusOf
    <3> QED BY <1>5, <2>1, <3>1 DEF Overtaken
  <2>2. CASE m \in {1, 2}
    <3>1. \A u \in Task : StatusAt(new, m + 1, u) = StatusAt(db, m, u)
      BY <1>3, <2>2 DEF StatusAt
    <3> QED BY <1>5, <2>2, <3>1 DEF Overtaken
  <2>3. CASE m = 3
    <3>1. Overtaken(db, 3, t) <=> t \in Superseded(db.tasks)
      BY DEF Overtaken, StatusAt, Superseded, ActiveIn
    <3> QED BY <1>3, <2>3, <3>1 DEF StatusAt
  <2>4. CASE m \in 4..11
    BY <1>3, <2>4 DEF StatusAt
  <2> QED BY <2>1, <2>2, <2>3, <2>4
<1>7. ASSUME NEW t \in Task
      PROVE  Owed(new, m + 1).tasks[t] = Owed(db, m).tasks[t]
  <2> DEFINE old(k) == [time |-> db.tasks[t].time, paused |-> db.tasks[t].paused,
               numbers |-> db.tasks[t].numbers,
               status |-> IF k < 4 /\ Overtaken(db, k, t) THEN "cancelled" ELSE StatusAt(db, k, t),
               interval_max |-> IF k < 7 THEN "interval" ELSE db.tasks[t].interval_max,
               initial |-> IF k < 10 THEN InitialOf(db.tasks[t]) ELSE db.tasks[t].initial,
               vpus |-> IF k < 12 THEN 10 ELSE db.tasks[t].vpus]
  <2>1. Owed(db, m).tasks[t] = old(m)
    BY <1>1, OwedRows
  <2>2. Owed(new, m + 1).tasks[t] =
          [time |-> new.tasks[t].time, paused |-> new.tasks[t].paused,
           numbers |-> new.tasks[t].numbers,
           status |-> IF m + 1 < 4 /\ Overtaken(new, m + 1, t) THEN "cancelled"
                      ELSE StatusAt(new, m + 1, t),
           interval_max |-> IF m + 1 < 7 THEN "interval" ELSE new.tasks[t].interval_max,
           initial |-> IF m + 1 < 10 THEN InitialOf(new.tasks[t]) ELSE new.tasks[t].initial,
           vpus |-> IF m + 1 < 12 THEN 10 ELSE new.tasks[t].vpus]
    BY <1>1, <1>2, OwedRows
  <2>3. /\ (IF m + 1 < 7 THEN "interval" ELSE new.tasks[t].interval_max)
             = IF m < 7 THEN "interval" ELSE db.tasks[t].interval_max
        /\ (IF m + 1 < 10 THEN InitialOf(new.tasks[t]) ELSE new.tasks[t].initial)
             = IF m < 10 THEN InitialOf(db.tasks[t]) ELSE db.tasks[t].initial
        /\ (IF m + 1 < 12 THEN 10 ELSE new.tasks[t].vpus)
             = IF m < 12 THEN 10 ELSE db.tasks[t].vpus
    BY <1>3, <1>4
  <2>4. Owed(new, m + 1).tasks[t] = old(m)
    BY <1>3, <1>6, <2>2, <2>3
  <2> QED BY <2>1, <2>4
<1> QED BY <1>7 DEF new

\* After the migrations of version 4 the unique index can be created.
LEMMA NoDuplicates ==
  ASSUME NEW db, IsDatabase(db), 4 \in Versions
  PROVE  Unique(Rewritten(db, 4))
<1> DEFINE new == Rewritten(db, 4)
<1>1. \A t \in Task : new.tasks[t].status = IF t \in Superseded(db.tasks) THEN "cancelled"
                                            ELSE db.tasks[t].status
  BY RewrittenRows
<1>2. ActiveIn(new.tasks) = ActiveIn(db.tasks) \ Superseded(db.tasks)
  <2> HIDE DEF new
  <2> QED BY <1>1 DEF ActiveIn, Active
<1>3. ASSUME NEW t \in ActiveIn(db.tasks) \ Superseded(db.tasks),
             NEW u \in ActiveIn(db.tasks) \ Superseded(db.tasks)
      PROVE  t = u
  <2>1. ~Newer(db.tasks, t, u) /\ ~Newer(db.tasks, u, t)
    BY DEF Superseded
  <2>2. t \in Nat /\ u \in Nat /\ db.tasks[t].time \in 1..2 /\ db.tasks[u].time \in 1..2
    BY MigrationsAssumption DEF ActiveIn, IsDatabase, Row
  <2> QED BY <2>1, <2>2 DEF Newer
<1> QED BY <1>2, <1>3 DEF Unique, new

-----------------------------------------------------------------------------
\* What is still to be paid to a database at version m is what was owed at the start.
ButVpus(r) == [r EXCEPT !.vpus = 0]
Owes(db, m, due, split) ==
  /\ m < 1 => \A t \in Task : db.tasks[t].status = "pending"
  /\ db.token \in {-1, IF m < 5 THEN 0 ELSE 1}
  /\ due.token = IF db.token = -1 THEN -1 ELSE 1
  /\ \A t \in Task : /\ ButVpus(Owed(db, m).tasks[t]) = ButVpus(due.tasks[t])
                     /\ ~split => Owed(db, m).tasks[t].vpus = due.tasks[t].vpus

\* The schema of the versions up to m is there.
Has(db, m) == \A v \in 1..m : ColumnSet(v) \subseteq db.columns /\ (v >= 4 => db.unique)

\* The migrations whose UPDATE and whose record have been executed.
Done == IF stage = "columns" THEN version - 1
        ELSE IF stage \in {"create", "record"} THEN version ELSE 12
Recorded == IF stage = "commit" THEN 12 ELSE version - 1
Upgrading == stage \in {"columns", "create", "record", "commit"}

Types ==
  /\ IsDatabase(stored) /\ IsDatabase(view)
  /\ owed = [tasks |-> owed.tasks, token |-> owed.token] /\ owed.tasks \in [Task -> Row]
  /\ open \in BOOLEAN /\ had \in BOOLEAN /\ cut \in BOOLEAN
  /\ stage \in {"off", "columns", "create", "record", "commit", "up"}
  /\ version \in 0..12 /\ crashes \in 0..MaxCrashes

\* The file is always a database of some version that still owes the same.
FileInv ==
  \E k \in 0..12 : stored.versions = 1..k /\ Owes(stored, k, owed, cut) /\ Has(stored, k)

\* The connection is ahead of it by the migrations done; only a transaction hides them.
ViewInv ==
  /\ ~open => view = stored
  /\ ~Upgrading => ~open
  /\ stage = "up" => stored.versions = Versions
  /\ Upgrading =>
       /\ Owes(view, Done, owed, cut) /\ Has(view, Recorded) /\ view.versions = 1..Recorded
       /\ applied = stored.versions /\ applied \subseteq 1..Recorded
       /\ stage # "commit" => version \in 1..12
       /\ stage = "create" => version = 4 /\ open /\ Unique(view)
       /\ stage \in {"create", "record"} => ColumnSet(version) \subseteq view.columns
       /\ stage = "record" /\ version = 4 => view.unique

\* Unless a crash has cut migration 12, its column comes and is filled in one start-up.
VpusInv ==
  ~cut =>
    /\ stage = "off" => (Vpus \in stored.columns => 12 \in stored.versions)
    /\ stage \in {"columns", "create", "record"} =>
         /\ version < 12 => Vpus \notin view.columns
         /\ version = 12 => ~had

UpgradeInv == Types /\ FileInv /\ ViewInv /\ VpusInv

-----------------------------------------------------------------------------
\* Rows are the same if their attributes are.
LEMMA SameRow ==
  ASSUME NEW a \in Row, NEW b \in Row,
         a.time = b.time, a.paused = b.paused, a.numbers = b.numbers, a.status = b.status,
         a.interval_max = b.interval_max, a.initial = b.initial
  PROVE  ButVpus(a) = ButVpus(b) /\ (a.vpus = b.vpus => a = b)
  BY DEF ButVpus, Row

\* Only the rows and the token owe anything.
LEMMA OwesTasks ==
  ASSUME NEW a, NEW b, NEW m, NEW due, NEW split,
         a.tasks = b.tasks, a.token = b.token, Owes(a, m, due, split)
  PROVE  Owes(b, m, due, split)
<1>1. Owed(a, m).tasks = Owed(b, m).tasks
  BY DEF Owed
<1> QED BY <1>1 DEF Owes

\* A database at the last version shows what it owes.
LEMMA OwedAtTheEnd ==
  ASSUME NEW db, IsDatabase(db), NEW t \in Task
  PROVE  Owed(db, 12).tasks[t] = db.tasks[t]
<1>1. Owed(db, 12).tasks[t] =
        [time |-> db.tasks[t].time, paused |-> db.tasks[t].paused,
         numbers |-> db.tasks[t].numbers, status |-> db.tasks[t].status,
         interval_max |-> db.tasks[t].interval_max, initial |-> db.tasks[t].initial,
         vpus |-> db.tasks[t].vpus]
  <2>1. /\ 12 \in 0..12 /\ ~(12 < 4) /\ ~(12 < 7) /\ ~(12 < 10) /\ ~(12 < 12)
        /\ StatusAt(db, 12, t) = db.tasks[t].status
    BY DEF StatusAt
  <2> QED BY <2>1, OwedRows
<1>2. db.tasks[t] \in Row
  BY DEF IsDatabase
<1> QED BY <1>1, <1>2 DEF Row

\* The migrations are applied in the order of their numbers.
LEMMA AdvanceGoesOn ==
  ASSUME NEW n \in 0..12, NEW after, NEW known, Advance(after, known),
         {v \in Versions \ known : v > after} = (n + 1)..12
  PROVE  IF n = 12 THEN stage' = "commit" /\ version' = version /\ had' = had
         ELSE stage' = "columns" /\ version' = n + 1 /\ had' = (Vpus \in view'.columns)
<1> DEFINE todo == {v \in Versions \ known : v > after}
<1>1. CASE n = 12
  <2>1. todo = {}
    BY <1>1
  <2> QED BY <1>1, <2>1 DEF Advance
<1>2. CASE n # 12
  <2>1. n + 1 \in todo /\ \A w \in todo : n + 1 <= w
    BY <1>2
  <2>2. todo \subseteq Int
    OBVIOUS
  <2>3. stage' = "columns" /\ had' = (Vpus \in view'.columns)
          /\ version' = CHOOSE v \in todo : \A w \in todo : v <= w
    BY <2>1 DEF Advance
  <2> HIDE DEF todo
  <2>4. version' \in todo /\ \A w \in todo : version' <= w
    BY <2>1, <2>3
  <2>5. version' = n + 1
    BY <2>1, <2>2, <2>4
  <2> QED BY <1>2, <2>3, <2>5
<1> QED BY <1>1, <1>2

LEMMA StartUpKeeps == UpgradeInv /\ StartUp => UpgradeInv'
<1> SUFFICES ASSUME UpgradeInv, StartUp PROVE UpgradeInv'
  OBVIOUS
<1>1. stage = "off" /\ view' = stored /\ open' = FALSE /\ applied' = stored.versions
        /\ stored' = stored /\ owed' = owed /\ cut' = cut /\ crashes' = crashes
  BY DEF StartUp
<1>2. PICK k \in 0..12 : stored.versions = 1..k /\ Owes(stored, k, owed, cut) /\ Has(stored, k)
  BY DEF UpgradeInv, FileInv
<1>3. IF k = 12 THEN stage' = "commit" /\ version' = version /\ had' = had
      ELSE stage' = "columns" /\ version' = k + 1 /\ had' = (Vpus \in view'.columns)
  <2>1. {v \in Versions \ stored.versions : v > 0} = (k + 1)..12
    BY <1>2 DEF Versions
  <2> QED BY <2>1, AdvanceGoesOn DEF StartUp
<1>4. Types'
  <2>1. had' \in BOOLEAN
    <3>1. had \in BOOLEAN
      BY DEF UpgradeInv, Types
    <3>2. had' = had \/ had' = (Vpus \in view'.columns)
      BY <1>3
    <3>3. (Vpus \in view'.columns) \in BOOLEAN
      OBVIOUS
    <3> QED BY <3>1, <3>2, <3>3
  <2>2. version' \in 0..12 /\ stage' \in {"columns", "commit"}
    BY <1>3 DEF UpgradeInv, Types
  <2>3. open' \in BOOLEAN /\ cut' \in BOOLEAN
    BY <1>1 DEF UpgradeInv, Types
  <2>4. IsDatabase(stored') /\ IsDatabase(view')
    BY <1>1 DEF UpgradeInv, Types
  <2>5. owed' = [tasks |-> owed'.tasks, token |-> owed'.token] /\ owed'.tasks \in [Task -> Row]
    BY <1>1 DEF UpgradeInv, Types
  <2>6. crashes' \in 0..MaxCrashes
    BY <1>1 DEF UpgradeInv, Types
  <2> QED BY <2>1, <2>2, <2>3, <2>4, <2>5, <2>6 DEF Types
<1>5. FileInv'
  BY <1>1, <1>2 DEF FileInv, Owes, Has
<1>6. Done' = k /\ Recorded' = k /\ stage' \in {"columns", "commit"}
  BY <1>3 DEF Done, Recorded
<1>7. ViewInv'
  <2>1. Owes(view, Done, owed, cut)' /\ Has(view, Recorded)'
    BY <1>1, <1>2, <1>6 DEF Owes, Has
  <2>2. stage' # "commit" => version' \in 1..12
    BY <1>3
  <2> QED BY <1>1, <1>2, <1>6, <2>1, <2>2 DEF ViewInv, Upgrading
<1>8. VpusInv'
  <2>1. 12 \in 1..k <=> k = 12
    OBVIOUS
  <2> QED BY <1>1, <1>2, <1>3, <2>1 DEF VpusInv, UpgradeInv
<1> QED BY <1>4, <1>5, <1>7, <1>8 DEF UpgradeInv

LEMMA AddColumnKeeps == UpgradeInv /\ AddColumn => UpgradeInv'
<1> SUFFICES ASSUME UpgradeInv, AddColumn PROVE UpgradeInv'
  OBVIOUS
<1>1. stage = "columns" /\ version \in 1..12 /\ Upgrading
  BY DEF AddColumn, UpgradeInv, ViewInv, Upgrading
<1>2. PICK c \in ColumnSet(version) : Ddl([view EXCEPT !.columns = @ \cup {c}])
  BY DEF AddColumn, Missing, ColumnSet
<1>3. UNCHANGED <<applied, stage, version, had, owed, cut, crashes, open>>
  BY <1>2 DEF AddColumn, Ddl
<1> DEFINE Grown(old, new) ==
      /\ IsDatabase(new)
      /\ new.columns = old.columns \cup {c} \/ new = old
      /\ old.columns \subseteq new.columns
      /\ new.versions = old.versions /\ new.unique = old.unique
      /\ new.tasks = old.tasks /\ new.token = old.token
<1>4. Grown(view, view')
  <2>1. ColumnSet(version) \subseteq ColumnsUpTo(12)
    BY <1>1 DEF ColumnsUpTo
  <2>2. view' = [columns |-> view.columns \cup {c}, versions |-> view.versions,
                 unique |-> view.unique, tasks |-> view.tasks, token |-> view.token]
    BY <1>2 DEF Ddl, UpgradeInv, Types, IsDatabase
  <2> QED BY <2>1, <2>2 DEF UpgradeInv, Types, IsDatabase
<1>5. Grown(stored, stored') /\ (~open => view' = stored')
  <2>1. CASE open
    BY <1>2, <2>1 DEF Ddl, UpgradeInv, Types
  <2>2. CASE ~open
    BY <1>2, <1>4, <2>2 DEF Ddl, UpgradeInv, ViewInv
  <2> QED BY <2>1, <2>2
<1>6. FileInv'
  <2>1. PICK k \in 0..12 : stored.versions = 1..k /\ Owes(stored, k, owed, cut) /\ Has(stored, k)
    BY DEF UpgradeInv, FileInv
  <2>2. Owes(stored', k, owed, cut)
    BY <1>5, <2>1, OwesTasks
  <2>3. Has(stored', k)
    BY <1>5, <2>1 DEF Has
  <2>4. stored'.versions = 1..k /\ owed' = owed /\ cut' = cut
    BY <1>3, <1>5, <2>1
  <2> QED BY <2>2, <2>3, <2>4 DEF FileInv
<1>7. Types'
  BY <1>3, <1>4, <1>5 DEF UpgradeInv, Types
<1>8. ViewInv'
  <2>1. Owes(view', Done, owed, cut)
    BY <1>1, <1>4, OwesTasks DEF UpgradeInv, ViewInv
  <2>2. Has(view', Recorded) /\ view'.versions = 1..Recorded
    BY <1>1, <1>4 DEF UpgradeInv, ViewInv, Has
  <2>3. Done' = Done /\ Recorded' = Recorded
    BY <1>3 DEF Done, Recorded
  <2> QED BY <1>1, <1>3, <1>5, <2>1, <2>2, <2>3 DEF UpgradeInv, ViewInv, Upgrading
<1>9. VpusInv'
  <2>1. version < 12 => Vpus \notin ColumnSet(version)
    BY <1>1, OnlyTwelveAddsVpus
  <2>2. view'.columns = view.columns \cup {c} \/ view' = view
    BY <1>4
  <2> QED BY <1>1, <1>2, <1>3, <2>1, <2>2 DEF UpgradeInv, VpusInv
<1> QED BY <1>6, <1>7, <1>8, <1>9 DEF UpgradeInv

LEMMA RewriteKeeps == UpgradeInv /\ Rewrite => UpgradeInv'
<1> SUFFICES ASSUME UpgradeInv, Rewrite PROVE UpgradeInv'
  OBVIOUS
<1> DEFINE m == version - 1
<1>1. stage = "columns" /\ version \in 1..12 /\ Upgrading /\ Done = m
  BY DEF Rewrite, UpgradeInv, ViewInv, Upgrading, Done
<1>2. /\ m \in 0..11 /\ m + 1 = version /\ version \in Versions
      /\ version < 5 <=> m < 4
      /\ version = 5 <=> m = 4
  BY <1>1 DEF Versions
<1>3. /\ stage' = IF version = 4 THEN "create" ELSE "record"
      /\ UNCHANGED <<applied, version, had, owed, cut, crashes, stored>>
      /\ IF Updates(version) THEN view' = Rewritten(view, version) /\ open' = TRUE
         ELSE view' = view /\ open' = open
  BY DEF Rewrite, Dml
<1>4. /\ IsDatabase(view) /\ Owes(view, m, owed, cut) /\ view.versions = 1..m /\ Has(view, m)
  BY <1>1 DEF UpgradeInv, Types, ViewInv, Recorded
<1>5. m = 4 => view.token # 1
  BY <1>4 DEF Owes
<1>6. ColumnSet(version) \subseteq view.columns
  BY DEF Rewrite, Missing, ColumnSet
<1>7. IsDatabase(view') /\ view'.columns = view.columns /\ view'.unique = view.unique
        /\ view'.versions = view.versions
  BY <1>2, <1>3, <1>4, <1>5, RewrittenRows
<1>8. Owes(view', version, owed, cut)
  <2>1. view'.token \in {-1, IF version < 5 THEN 0 ELSE 1} /\ (view'.token = -1 <=> view.token = -1)
    <3>1. CASE version = 5 /\ view.token = 0
      <4>1. view' = Rewritten(view, version)
        BY <1>3, <3>1 DEF Updates
      <4>2. view'.token = view.token + 1
        BY <1>2, <1>4, <1>5, <3>1, <4>1, RewrittenRows
      <4> QED BY <3>1, <4>2
    <3>2. CASE ~(version = 5 /\ view.token = 0)
      <4>1. view.token \in {-1, IF m < 5 THEN 0 ELSE 1}
        BY <1>4 DEF Owes
      <4>2. version = 5 => view.token = -1
        BY <1>2, <3>2, <4>1
      <4>3. view'.token = view.token
        BY <1>2, <1>3, <1>4, <1>5, <4>2, RewrittenRows
      <4> QED BY <1>2, <4>1, <4>2, <4>3
    <3> QED BY <3>1, <3>2
  <2>2. ASSUME NEW t \in Task
        PROVE  /\ ButVpus(Owed(view', version).tasks[t]) = ButVpus(owed.tasks[t])
               /\ ~cut => Owed(view', version).tasks[t].vpus = owed.tasks[t].vpus
    <3>1. /\ ButVpus(Owed(view, m).tasks[t]) = ButVpus(owed.tasks[t])
          /\ ~cut => Owed(view, m).tasks[t].vpus = owed.tasks[t].vpus
      BY <1>4 DEF Owes
    <3>2. CASE view' = Rewritten(view, version)
      <4>1. Owed(Rewritten(view, m + 1), m + 1).tasks[t] = Owed(view, m).tasks[t]
        BY <1>2, <1>4, <1>5, OwedStep DEF Owes
      <4> QED BY <1>2, <3>1, <3>2, <4>1
    <3>3. CASE ~Updates(version)
      <4>1. view' = view /\ version \notin {1, 4, 7, 10}
        BY <1>3, <3>3 DEF Updates
      <4>2. version = 12 => cut
        BY <1>1, <3>3 DEF Updates, UpgradeInv, VpusInv
      <4>3. \A u \in Task : LET new == Rewritten(view, version).tasks[u] IN
              /\ new \in Row /\ view.tasks[u] \in Row
              /\ ButVpus(new) = ButVpus(view.tasks[u])
              /\ version # 12 => new = view.tasks[u]
        <5> SUFFICES ASSUME NEW u \in Task
                     PROVE  LET new == Rewritten(view, version).tasks[u] IN
                            /\ new \in Row /\ view.tasks[u] \in Row
                            /\ ButVpus(new) = ButVpus(view.tasks[u])
                            /\ version # 12 => new = view.tasks[u]
          OBVIOUS
        <5> DEFINE new == Rewritten(view, version).tasks[u]
        <5>1. new \in Row /\ view.tasks[u] \in Row
          BY <1>2, <1>4, <1>5, RewrittenRows DEF IsDatabase
        <5>2. /\ new.time = view.tasks[u].time /\ new.paused = view.tasks[u].paused
              /\ new.numbers = view.tasks[u].numbers /\ new.status = view.tasks[u].status
              /\ new.interval_max = view.tasks[u].interval_max
              /\ new.initial = view.tasks[u].initial
              /\ version # 12 => new.vpus = view.tasks[u].vpus
          BY <1>2, <1>4, <1>5, <4>1, RewrittenRows
        <5> HIDE DEF new
        <5> QED BY <5>1, <5>2, SameRow DEF new
      <4>4. Owed(Rewritten(view, m + 1), m + 1).tasks[t] = Owed(view, m).tasks[t]
        BY <1>2, <1>4, <1>5, OwedStep DEF Owes
      <4>5. CASE version # 12
        <5>1. Rewritten(view, version).tasks = view.tasks
          <6>1. Rewritten(view, version).tasks \in [Task -> Row] /\ view.tasks \in [Task -> Row]
            BY <1>2, <1>4, <1>5, RewrittenRows DEF IsDatabase
          <6> QED BY <4>3, <4>5, <6>1
        <5>2. Owed(Rewritten(view, version), version).tasks = Owed(view, version).tasks
          BY <5>1 DEF Owed
        <5> QED BY <1>2, <3>1, <4>1, <4>4, <5>2
      <4>6. CASE version = 12
        <5>1. Owed(view, 12).tasks[t] = view.tasks[t]
          BY <1>4, OwedAtTheEnd
        <5>2. Owed(Rewritten(view, 12), 12).tasks[t] = Rewritten(view, 12).tasks[t]
          BY <1>2, <1>4, <1>5, <4>6, RewrittenRows, OwedAtTheEnd
        <5> QED BY <1>2, <3>1, <4>1, <4>2, <4>3, <4>4, <4>6, <5>1, <5>2
      <4> QED BY <4>5, <4>6
    <3> QED BY <1>3, <3>2, <3>3
  <2>3. owed.token = IF view'.token = -1 THEN -1 ELSE 1
    BY <1>4, <2>1 DEF Owes
  <2>4. ~(version < 1)
    BY <1>1
  <2> QED BY <2>1, <2>2, <2>3, <2>4 DEF Owes
<1>9. Types' /\ Upgrading' /\ Done' = version /\ Recorded' = Recorded /\ Recorded = m
  <2>1. stage' \in {"create", "record"} /\ open' \in BOOLEAN
    BY <1>3 DEF UpgradeInv, Types
  <2>2. UNCHANGED <<version, had, owed, cut, crashes, stored>>
    BY <1>3
  <2>3. Types'
    BY <1>7, <2>1, <2>2 DEF UpgradeInv, Types
  <2> QED BY <1>1, <2>1, <2>2, <2>3 DEF Done, Recorded, Upgrading
<1>10. FileInv'
  BY <1>3 DEF UpgradeInv, FileInv
<1>11. ViewInv'
  <2>1. version = 4 => open' /\ Unique(view')
    BY <1>2, <1>3, <1>4, NoDuplicates DEF Updates
  <2>2. ~open' => view' = stored'
    BY <1>3 DEF UpgradeInv, ViewInv
  <2>3. applied' = stored'.versions /\ applied' \subseteq 1..m
    BY <1>1, <1>3, <1>9 DEF UpgradeInv, ViewInv
  <2>4. view'.versions = 1..m /\ Has(view', m)
    BY <1>4, <1>7 DEF Has
  <2>5. /\ stage' = IF version = 4 THEN "create" ELSE "record"
        /\ version' = version /\ owed' = owed /\ cut' = cut
    BY <1>3
  <2> QED BY <1>1, <1>6, <1>7, <1>8, <1>9, <2>1, <2>2, <2>3, <2>4, <2>5 DEF ViewInv
<1>12. VpusInv'
  BY <1>1, <1>3, <1>7 DEF UpgradeInv, VpusInv
<1> QED BY <1>9, <1>10, <1>11, <1>12 DEF UpgradeInv

LEMMA CreateIndexesKeeps == UpgradeInv /\ CreateIndexes => UpgradeInv'
<1> SUFFICES ASSUME UpgradeInv, CreateIndexes PROVE UpgradeInv'
  OBVIOUS
<1>1. stage = "create" /\ version = 4 /\ open /\ Unique(view) /\ Upgrading
  BY DEF CreateIndexes, UpgradeInv, ViewInv, Upgrading
<1>2. /\ view' = [view EXCEPT !.unique = TRUE] /\ stage' = "record"
      /\ UNCHANGED <<applied, version, had, owed, cut, crashes, stored, open>>
  BY <1>1 DEF CreateIndexes, Ddl
<1>3. /\ IsDatabase(view') /\ view'.unique
      /\ view'.columns = view.columns /\ view'.versions = view.versions
      /\ view'.tasks = view.tasks /\ view'.token = view.token
  <2>1. view' = [columns |-> view.columns, versions |-> view.versions, unique |-> TRUE,
                 tasks |-> view.tasks, token |-> view.token]
    BY <1>2 DEF UpgradeInv, Types, IsDatabase
  <2> QED BY <2>1 DEF UpgradeInv, Types, IsDatabase
<1>4. Types' /\ FileInv'
  BY <1>2, <1>3 DEF UpgradeInv, Types, FileInv
<1>5. ViewInv'
  <2>1. Done = version /\ Done' = version /\ Recorded' = Recorded /\ Upgrading'
    BY <1>1, <1>2 DEF Done, Recorded, Upgrading
  <2>2. Owes(view', Done, owed, cut)
    BY <1>1, <1>3, OwesTasks DEF UpgradeInv, ViewInv
  <2>3. Has(view', Recorded)
    BY <1>1, <1>3 DEF UpgradeInv, ViewInv, Has
  <2> QED BY <1>1, <1>2, <1>3, <2>1, <2>2, <2>3 DEF UpgradeInv, ViewInv
<1>6. VpusInv'
  BY <1>1, <1>2, <1>3 DEF UpgradeInv, VpusInv
<1> QED BY <1>4, <1>5, <1>6 DEF UpgradeInv

LEMMA RecordKeeps == UpgradeInv /\ Record => UpgradeInv'
<1> SUFFICES ASSUME UpgradeInv, Record PROVE UpgradeInv'
  OBVIOUS
<1>1. stage = "record" /\ Upgrading /\ version \in 1..12
  BY DEF Record, UpgradeInv, ViewInv, Upgrading
<1>2. /\ view' = [view EXCEPT !.versions = @ \cup {version}] /\ open' = TRUE
      /\ UNCHANGED <<applied, owed, cut, crashes, stored>>
  BY DEF Record, Dml
<1>3. Recorded = version - 1 /\ Done = version
  BY <1>1 DEF Recorded, Done
<1>4. /\ IsDatabase(view') /\ view'.versions = 1..version
      /\ view'.columns = view.columns /\ view'.unique = view.unique
      /\ view'.tasks = view.tasks /\ view'.token = view.token
  <2>1. view' = [columns |-> view.columns, versions |-> view.versions \cup {version},
                 unique |-> view.unique, tasks |-> view.tasks, token |-> view.token]
    BY <1>2 DEF UpgradeInv, Types, IsDatabase
  <2>2. view.versions = 1..(version - 1)
    BY <1>1, <1>3 DEF UpgradeInv, ViewInv
  <2>3. view.versions \cup {version} = 1..version /\ 1..version \subseteq Versions
    BY <1>1, <2>2 DEF Versions
  <2> QED BY <2>1, <2>3 DEF UpgradeInv, Types, IsDatabase
<1>5. applied \subseteq 1..(version - 1) /\ applied = stored.versions
  BY <1>1, <1>3 DEF UpgradeInv, ViewInv
<1>6. IF version = 12 THEN stage' = "commit" /\ version' = version /\ had' = had
      ELSE stage' = "columns" /\ version' = version + 1 /\ had' = (Vpus \in view'.columns)
  <2>1. {v \in Versions \ applied : v > version} = (version + 1)..12
    BY <1>1, <1>5 DEF Versions
  <2>2. Advance(version, applied) /\ version \in 0..12
    BY <1>1 DEF Record
  <2> QED BY <2>1, <2>2, AdvanceGoesOn
<1>7. Types'
  <2>1. had' \in BOOLEAN
    <3>1. had \in BOOLEAN
      BY DEF UpgradeInv, Types
    <3>2. had' = had \/ had' = (Vpus \in view'.columns)
      BY <1>6
    <3>3. (Vpus \in view'.columns) \in BOOLEAN
      OBVIOUS
    <3> QED BY <3>1, <3>2, <3>3
  <2>2. version' \in 0..12 /\ stage' \in {"columns", "commit"}
    BY <1>1, <1>6
  <2> QED BY <1>2, <1>4, <2>1, <2>2 DEF UpgradeInv, Types
<1>8. FileInv'
  BY <1>2 DEF UpgradeInv, FileInv
<1>9. ViewInv'
  <2>1. Done' = version /\ Recorded' = version /\ stage' \in {"columns", "commit"} /\ Upgrading'
    BY <1>1, <1>6 DEF Done, Recorded, Upgrading
  <2>2. Owes(view', version, owed, cut)
    BY <1>1, <1>3, <1>4, OwesTasks DEF UpgradeInv, ViewInv
  <2>3. Has(view', version)
    <3>1. Has(view, version - 1) /\ ColumnSet(version) \subseteq view.columns
            /\ (version = 4 => view.unique)
      BY <1>1, <1>3 DEF UpgradeInv, ViewInv
    <3>2. version > 4 => view.unique
      BY <1>1, <3>1 DEF Has
    <3> QED BY <1>1, <1>4, <3>1, <3>2 DEF Has
  <2>4. stage' # "commit" => version' \in 1..12
    BY <1>1, <1>6
  <2>5. applied' = stored'.versions /\ applied' \subseteq 1..version
    BY <1>1, <1>2, <1>5
  <2>6. open' /\ owed' = owed /\ cut' = cut
    BY <1>2
  <2> QED BY <1>4, <2>1, <2>2, <2>3, <2>4, <2>5, <2>6 DEF ViewInv
<1>10. VpusInv'
  <2>1. CASE version = 12
    BY <1>6, <2>1 DEF VpusInv
  <2>2. CASE version # 12
    <3>1. ~cut => Vpus \notin view'.columns
      BY <1>1, <1>4, <2>2 DEF UpgradeInv, VpusInv
    <3>2. stage' = "columns" /\ had' = (Vpus \in view'.columns) /\ cut' = cut
      BY <1>2, <1>6, <2>2
    <3> QED BY <3>1, <3>2 DEF VpusInv
  <2> QED BY <2>1, <2>2
<1> QED BY <1>7, <1>8, <1>9, <1>10 DEF UpgradeInv

LEMMA CommitKeeps == UpgradeInv /\ Commit => UpgradeInv'
<1> SUFFICES ASSUME UpgradeInv, Commit PROVE UpgradeInv'
  OBVIOUS
<1>1. /\ stage = "commit" /\ stored' = view /\ open' = FALSE /\ stage' = "up"
      /\ UNCHANGED <<view, applied, version, had, owed, cut, crashes>>
  BY DEF Commit
<1>2. /\ Owes(view, 12, owed, cut) /\ Has(view, 12) /\ view.versions = 1..12
  BY <1>1 DEF UpgradeInv, ViewInv, Upgrading, Done, Recorded
<1>3. Types'
  BY <1>1 DEF UpgradeInv, Types
<1>4. FileInv'
  BY <1>1, <1>2 DEF FileInv
<1>5. ViewInv' /\ VpusInv'
  BY <1>1, <1>2 DEF ViewInv, VpusInv, Upgrading, Versions
<1> QED BY <1>3, <1>4, <1>5 DEF UpgradeInv

LEMMA WorkKeeps == UpgradeInv /\ Work => UpgradeInv'
<1> SUFFICES ASSUME UpgradeInv, Work PROVE UpgradeInv'
  OBVIOUS
<1>0. PICK t \in Task :
        \E r \in {[owed.tasks[t] EXCEPT !.interval_max = "other"],
                 [owed.tasks[t] EXCEPT !.status = "succeeded", !.numbers = 0]} :
          /\ stored' = [stored EXCEPT !.tasks[t] = [r EXCEPT !.vpus = stored.tasks[t].vpus]]
          /\ owed' = [owed EXCEPT !.tasks[t] = r]
  BY DEF Work
<1>1. PICK r \in {[owed.tasks[t] EXCEPT !.interval_max = "other"],
                 [owed.tasks[t] EXCEPT !.status = "succeeded", !.numbers = 0]} :
        /\ stored' = [stored EXCEPT !.tasks[t] = [r EXCEPT !.vpus = stored.tasks[t].vpus]]
        /\ owed' = [owed EXCEPT !.tasks[t] = r]
  BY <1>0
<1>2. /\ stage = "up" /\ view' = stored' /\ ~open
      /\ UNCHANGED <<open, applied, stage, version, had, cut, crashes>>
      /\ stored.versions = Versions
  BY DEF Work, UpgradeInv, ViewInv, Upgrading
<1> DEFINE row == [r EXCEPT !.vpus = stored.tasks[t].vpus]
<1>3. r \in Row /\ row \in Row /\ r.vpus = owed.tasks[t].vpus
        /\ row.vpus = stored.tasks[t].vpus /\ ButVpus(row) = ButVpus(r)
  <2>1. owed.tasks[t] \in Row /\ stored.tasks[t] \in Row
    BY DEF UpgradeInv, Types, IsDatabase
  <2>2. r \in Row /\ r.vpus = owed.tasks[t].vpus
    BY <2>1 DEF Row, Numbers, Status
  <2>3. row \in Row /\ row.vpus = stored.tasks[t].vpus
    BY <2>1, <2>2 DEF Row
  <2>4. ButVpus(row) = ButVpus(r)
    BY <2>2, <2>3, SameRow DEF Row
  <2> QED BY <2>2, <2>3, <2>4
<1>4. /\ stored' = [columns |-> stored.columns, versions |-> stored.versions,
                    unique |-> stored.unique,
                    tasks |-> [stored.tasks EXCEPT ![t] = row], token |-> stored.token]
      /\ owed' = [tasks |-> [owed.tasks EXCEPT ![t] = r], token |-> owed.token]
  BY <1>1 DEF UpgradeInv, Types, IsDatabase
<1> HIDE DEF row
<1>5. IsDatabase(stored') /\ owed'.tasks \in [Task -> Row]
        /\ owed' = [tasks |-> owed'.tasks, token |-> owed'.token]
  BY <1>3, <1>4 DEF UpgradeInv, Types, IsDatabase
<1>6. Types'
  BY <1>2, <1>5 DEF UpgradeInv, Types
<1>7. PICK k \in 0..12 : stored.versions = 1..k /\ Owes(stored, k, owed, cut) /\ Has(stored, k)
  BY DEF UpgradeInv, FileInv
<1>8. k = 12
  <2>1. 12 \in stored.versions
    BY <1>2 DEF Versions
  <2> QED BY <1>7, <2>1
<1>9. Owes(stored', 12, owed', cut)
  <2>1. ASSUME NEW u \in Task
        PROVE  /\ ButVpus(stored'.tasks[u]) = ButVpus(owed'.tasks[u])
               /\ ~cut => stored'.tasks[u].vpus = owed'.tasks[u].vpus
    <3>1. /\ ButVpus(stored.tasks[u]) = ButVpus(owed.tasks[u])
          /\ ~cut => stored.tasks[u].vpus = owed.tasks[u].vpus
      <4>1. Owed(stored, 12).tasks[u] = stored.tasks[u]
        BY OwedAtTheEnd DEF UpgradeInv, Types
      <4> QED BY <1>7, <1>8, <4>1 DEF Owes
    <3>2. CASE u = t
      <4>1. stored'.tasks[t] = row /\ owed'.tasks[t] = r
        BY <1>4 DEF UpgradeInv, Types, IsDatabase
      <4> QED BY <1>3, <3>1, <3>2, <4>1
    <3>3. CASE u # t
      <4>1. stored'.tasks[u] = stored.tasks[u] /\ owed'.tasks[u] = owed.tasks[u]
        BY <1>4, <3>3 DEF UpgradeInv, Types, IsDatabase
      <4> QED BY <3>1, <4>1
    <3> QED BY <3>2, <3>3
  <2>2. ASSUME NEW u \in Task
        PROVE  Owed(stored', 12).tasks[u] = stored'.tasks[u]
    BY <1>5, OwedAtTheEnd
  <2>3. stored'.token = stored.token /\ owed'.token = owed.token
    BY <1>4
  <2>4. stored.token \in {-1, 1} /\ owed.token = IF stored.token = -1 THEN -1 ELSE 1
    BY <1>7, <1>8 DEF Owes
  <2> QED BY <2>1, <2>2, <2>3, <2>4 DEF Owes
<1>10. Has(stored', 12) /\ stored'.versions = stored.versions /\ stored'.columns = stored.columns
  BY <1>4, <1>7, <1>8 DEF Has
<1>11. FileInv'
  BY <1>2, <1>7, <1>8, <1>9, <1>10 DEF FileInv
<1>12. ViewInv' /\ VpusInv'
  BY <1>2, <1>10 DEF UpgradeInv, ViewInv, VpusInv, Upgrading
<1> QED BY <1>6, <1>11, <1>12 DEF UpgradeInv

LEMMA CrashKeeps == UpgradeInv /\ Crash => UpgradeInv'
<1> SUFFICES ASSUME UpgradeInv, Crash PROVE UpgradeInv'
  OBVIOUS
<1>1. /\ crashes < MaxCrashes /\ crashes' = crashes + 1
      /\ stage' = "off" /\ view' = stored /\ open' = FALSE /\ version' = 0 /\ had' = FALSE
      /\ cut' = (cut \/ (Vpus \in stored.columns /\ 12 \notin stored.versions))
      /\ stored' = stored /\ owed' = owed
  BY DEF Crash
<1>2. cut' \in BOOLEAN /\ (~cut' => ~cut)
  <2>1. cut \in BOOLEAN
    BY DEF UpgradeInv, Types
  <2> QED BY <1>1, <2>1, Zenon
<1>3. crashes' \in 0..MaxCrashes
  BY <1>1, MigrationsAssumption DEF UpgradeInv, Types
<1>4. Types'
  <2>1. open' \in BOOLEAN /\ had' \in BOOLEAN /\ stage' = "off"
    BY <1>1, Zenon
  <2>3. version' \in 0..12
    BY <1>1
  <2>2. IsDatabase(stored') /\ IsDatabase(view')
          /\ owed' = [tasks |-> owed'.tasks, token |-> owed'.token]
          /\ owed'.tasks \in [Task -> Row]
    BY <1>1 DEF UpgradeInv, Types
  <2> QED BY <1>2, <1>3, <2>1, <2>2, <2>3 DEF Types
<1>5. FileInv'
  BY <1>1, <1>2 DEF UpgradeInv, FileInv, Owes
<1>6. ViewInv' /\ VpusInv'
  BY <1>1 DEF ViewInv, VpusInv, Upgrading
<1> QED BY <1>4, <1>5, <1>6 DEF UpgradeInv

LEMMA UpgradeInit == Init => UpgradeInv
<1> SUFFICES ASSUME Init PROVE UpgradeInv
  OBVIOUS
<1>1. PICK k \in Legacy : \E db \in Database(k) :
        /\ stored = db /\ view = db /\ owed = Owed(db, k)
        /\ open = FALSE /\ stage = "off" /\ version = 0 /\ had = FALSE
        /\ cut = FALSE /\ crashes = 0
  BY DEF Init
<1>2. /\ stored \in Database(k) /\ view = stored /\ owed = Owed(stored, k)
      /\ open = FALSE /\ stage = "off" /\ version = 0 /\ had = FALSE
      /\ cut = FALSE /\ crashes = 0
  BY <1>1
<1>3. k \in 0..12 /\ k \in Int
  BY MigrationsAssumption
<1> DEFINE Old == [Task -> [time : 1..2, paused : BOOLEAN, numbers : Numbers,
                            status : {"pending", "paused", "succeeded"},
                            interval_max : {"interval"}, initial : {2}, vpus : {10}]]
<1>4. PICK old \in Old, token \in {-1, IF k < 5 THEN 0 ELSE 1} :
        stored = [columns |-> ColumnsUpTo(k), versions |-> 1..k, unique |-> k >= 4,
                  tasks |-> [t \in Task |-> Defaults(old[t], k)], token |-> token]
  BY <1>2 DEF Database
<1>5. ASSUME NEW t \in Task
      PROVE  /\ Defaults(old[t], k) \in Row
             /\ k < 1 => Defaults(old[t], k).status = "pending"
  <2> DEFINE r == old[t]
  <2>1. r \in [time : 1..2, paused : BOOLEAN, numbers : Numbers,
               status : {"pending", "paused", "succeeded"},
               interval_max : {"interval"}, initial : {2}, vpus : {10}]
    OBVIOUS
  <2>2. (r.status = "paused") \in BOOLEAN
    OBVIOUS
  <2> HIDE DEF r
  <2>3. r \in Row
    BY <2>1 DEF Row, Status, Active
  <2>4. Defaults(r, k) \in Row
    <3> DEFINE s == IF k < 1 THEN "pending" ELSE r.status
               q == IF k < 1 THEN r.paused ELSE r.status = "paused"
               i == IF k < 7 THEN "other" ELSE r.interval_max
               n == IF k < 10 THEN 1 ELSE r.initial
               w == IF k < 12 THEN 20 ELSE r.vpus
    <3>1. s \in Status /\ i \in {"interval", "other"} /\ n \in 1..2 /\ w \in {10, 20}
      BY <2>3 DEF Row, Status, Active
    <3>2. q \in BOOLEAN
      BY <2>2, <2>3 DEF Row
    <3>3. Defaults(r, k) = [r EXCEPT !.status = s, !.paused = q, !.interval_max = i,
                                     !.initial = n, !.vpus = w]
      BY DEF Defaults
    <3> HIDE DEF s, q, i, n, w
    <3> QED BY <2>3, <3>1, <3>2, <3>3 DEF Row
  <2>5. k < 1 => Defaults(r, k).status = "pending"
    BY <2>3 DEF Defaults, Row
  <2> QED BY <2>4, <2>5 DEF r
<1>6. ColumnsUpTo(k) \subseteq ColumnsUpTo(12) /\ \A v \in 1..k : ColumnSet(v) \subseteq ColumnsUpTo(k)
  BY <1>3 DEF ColumnsUpTo
<1>7. IsDatabase(stored)
  <2>1. stored.tasks \in [Task -> Row] /\ stored.token \in {-1, 0, 1} /\ stored.unique \in BOOLEAN
    BY <1>4, <1>5
  <2>2. stored.columns \subseteq ColumnsUpTo(12) /\ stored.versions \subseteq Versions
    BY <1>3, <1>4, <1>6 DEF Versions
  <2> QED BY <1>4, <2>1, <2>2 DEF IsDatabase
<1>8. /\ owed = [tasks |-> owed.tasks, token |-> owed.token] /\ owed.tasks \in [Task -> Row]
      /\ owed.token = IF stored.token = -1 THEN -1 ELSE 1
  <2>1. ASSUME NEW t \in Task
        PROVE  owed.tasks[t] \in Row
    BY <1>2, <1>3, <1>7, OwedRows
  <2>2. /\ owed = [tasks |-> owed.tasks, token |-> owed.token]
        /\ owed.token = IF stored.token = -1 THEN -1 ELSE 1
        /\ owed.tasks = [t \in Task |-> owed.tasks[t]]
    BY <1>2 DEF Owed
  <2> QED BY <2>1, <2>2
<1>9. Types
  <2>1. open \in BOOLEAN /\ had \in BOOLEAN /\ cut \in BOOLEAN
    BY <1>2, Zenon
  <2>2. IsDatabase(view) /\ stage = "off" /\ version \in 0..12 /\ crashes \in 0..MaxCrashes
    BY <1>2, <1>7, MigrationsAssumption
  <2> QED BY <1>7, <1>8, <2>1, <2>2 DEF Types
<1>10. FileInv
  <2>1. Owes(stored, k, owed, cut)
    BY <1>2, <1>4, <1>5, <1>8 DEF Owes
  <2>2. Has(stored, k)
    <3>1. stored.columns = ColumnsUpTo(k) /\ (k >= 4 => stored.unique)
      BY <1>4
    <3>2. \A v \in 1..k : v >= 4 => k >= 4
      BY <1>3
    <3> QED BY <1>6, <3>1, <3>2 DEF Has
  <2> QED BY <1>3, <1>4, <2>1, <2>2 DEF FileInv
<1>11. ViewInv
  BY <1>2 DEF ViewInv, Upgrading
<1>12. VpusInv
  <2>1. ASSUME Vpus \in ColumnsUpTo(k)
        PROVE  k = 12
    <3>1. PICK v \in 1..k : Vpus \in ColumnSet(v)
      BY <2>1 DEF ColumnsUpTo
    <3>2. v \notin 1..11
      BY <3>1, OnlyTwelveAddsVpus
    <3> QED BY <1>3, <3>2
  <2>2. k = 12 => 12 \in stored.versions
    BY <1>4
  <2> QED BY <1>2, <1>4, <2>1, <2>2 DEF VpusInv
<1> QED BY <1>9, <1>10, <1>11, <1>12 DEF UpgradeInv

LEMMA UpgradeStep == UpgradeInv /\ [StartNext]_allVars => UpgradeInv'
<1> SUFFICES ASSUME UpgradeInv, [StartNext]_allVars PROVE UpgradeInv'
  OBVIOUS
<1>1. CASE Encrypt
  BY <1>1, RewriteKeeps DEF Encrypt
<1>2. CASE Continue
  BY <1>2, StartUpKeeps, AddColumnKeeps, CreateIndexesKeeps, RecordKeeps, CommitKeeps, WorkKeeps
     DEF Continue
<1>3. CASE UNCHANGED vars
  BY <1>3 DEF vars, UpgradeInv, Types, FileInv, ViewInv, VpusInv, Upgrading, Done, Recorded
<1>4. ASSUME NEW p \in Process, Die(p)
      PROVE  UpgradeInv'
  <2>1. CASE p = Own
    BY <1>4, <2>1, CrashKeeps DEF Die
  <2>2. CASE p # Own
    <3>1. crashes' \in 0..MaxCrashes
      BY <1>4, MigrationsAssumption DEF Die, Key!Crash, UpgradeInv, Types
    <3>2. UNCHANGED <<stored, view, open, applied, stage, version, had, owed, cut>>
      BY <1>4, <2>2 DEF Die
    <3> QED BY <3>1, <3>2
            DEF UpgradeInv, Types, FileInv, ViewInv, VpusInv, Upgrading, Done, Recorded
  <2> QED BY <2>1, <2>2
<1> QED BY <1>1, <1>2, <1>3, <1>4 DEF StartNext, Ask, allVars

LEMMA UpgradeAlways == StartSpec => []UpgradeInv
<1>1. StartInit => UpgradeInv
  BY UpgradeInit DEF StartInit
<1> QED BY <1>1, UpgradeStep, PTL DEF StartSpec

\* A recorded version has its columns and its index, whatever start-up was cut off.
THEOREM VersionsAreTruthful == StartSpec => []VersionsTruthful
<1>1. UpgradeInv => VersionsTruthful
  <2> SUFFICES ASSUME UpgradeInv PROVE VersionsTruthful
    OBVIOUS
  <2>1. TypeOK
    BY DEF UpgradeInv, Types, IsDatabase, TypeOK
  <2>2. \A v \in stored.versions : ColumnSet(v) \subseteq stored.columns /\ (v = 4 => stored.unique)
    BY DEF UpgradeInv, FileInv, Has
  <2> QED BY <2>1, <2>2 DEF VersionsTruthful
<1> QED BY <1>1, UpgradeAlways, PTL

\* At the last version the file shows what was owed to it.
LEMMA UpShowsOwed ==
  ASSUME UpgradeInv, stage = "up"
  PROVE  /\ stored.versions = Versions /\ Has(stored, 12) /\ stored.token = owed.token
         /\ \A t \in Task : /\ ButVpus(stored.tasks[t]) = ButVpus(owed.tasks[t])
                            /\ ~cut => stored.tasks[t].vpus = owed.tasks[t].vpus
<1>1. stored.versions = Versions /\ IsDatabase(stored)
  BY DEF UpgradeInv, ViewInv, Types
<1>2. PICK k \in 0..12 : stored.versions = 1..k /\ Owes(stored, k, owed, cut) /\ Has(stored, k)
  BY DEF UpgradeInv, FileInv
<1>3. k = 12
  <2>1. 12 \in stored.versions
    BY <1>1 DEF Versions
  <2> QED BY <1>2, <2>1
<1>4. \A t \in Task : Owed(stored, 12).tasks[t] = stored.tasks[t]
  BY <1>1, OwedAtTheEnd
<1>5. stored.token = owed.token
  BY <1>2, <1>3 DEF Owes
<1> QED BY <1>1, <1>2, <1>3, <1>4, <1>5 DEF Owes

(* An interrupted upgrade ends like an uninterrupted one: whatever statement a crash      *)
(* follows, however often, the application that comes up shows the rows and the token     *)
(* owed to the database it started from, and no start-up is refused.                      *)
THEOREM UpgradeCompletes == StartSpec => []Upgraded
<1>1. UpgradeInv => Upgraded
  <2> SUFFICES ASSUME UpgradeInv PROVE Upgraded
    OBVIOUS
  <2>1. stage # "failed"
    BY DEF UpgradeInv, Types
  <2>2. CASE stage = "up"
    <3>1. stored.unique
      BY <2>2, UpShowsOwed DEF Has
    <3>2. WithoutVpus(stored.tasks) = WithoutVpus(owed.tasks)
      BY <2>2, UpShowsOwed DEF WithoutVpus, ButVpus
    <3> QED BY <2>1, <2>2, <3>1, <3>2, UpShowsOwed DEF Upgraded
  <2> QED BY <2>1, <2>2 DEF Upgraded
<1> QED BY <1>1, UpgradeAlways, PTL

\* Unless a crash cuts migration 12, every task keeps the volume performance owed to it.
THEOREM VolumesAreKept == StartSpec => []VolumesKept
<1>1. UpgradeInv => VolumesKept
  BY UpShowsOwed DEF VolumesKept
<1> QED BY <1>1, UpgradeAlways, PTL

-----------------------------------------------------------------------------
(* Configurations and their key files *)

ConfigTypes ==
  /\ created \in Nat
  /\ astep \in [Adder -> {"idle", "importing", "reading", "validating"}]
  /\ key \in [Adder -> 0..created]
  /\ rstep \in [Remover -> {"idle", "deleting", "unlinking"}]
  /\ doomed \in [Remover -> SUBSET (1..created)]
  /\ rows \subseteq 1..created
  /\ queue \in [Adder -> SUBSET (Supplied \cup KeyNumber)]

(* The file of an import that is being validated is there and nobody else's. *)
OwnFile ==
  \A a \in Adder : astep[a] = "validating" =>
    /\ key[a] \in files \ rows /\ key[a] # 0
    /\ \A r \in Remover : key[a] \notin doomed[r]
    /\ \A b \in Adder : astep[b] = "validating" /\ key[a] = key[b] => a = b

(* Only files of rows that are gone are unlinked. *)
UnlinksUnowned == \A r \in Remover : rstep[r] = "unlinking" => doomed[r] \cap rows = {}

ConfigInv == ConfigTypes /\ OwnFile /\ UnlinksUnowned /\ RowHasItsKey

LEMMA ConfigInvInit == ConfigInit => ConfigInv
  BY KeysAssumption DEF ConfigInit, ConfigInv, ConfigTypes, OwnFile, UnlinksUnowned, RowHasItsKey

LEMMA ConfigInvStep == ConfigInv /\ [ConfigNext]_configVars => ConfigInv'
<1> SUFFICES ASSUME ConfigInv, [ConfigNext]_configVars PROVE ConfigInv'
  OBVIOUS
<1> USE DEF ConfigInv, ConfigTypes, OwnFile, UnlinksUnowned, RowHasItsKey
<1>1. ASSUME NEW a \in Adder, NEW references \in SUBSET (Supplied \cup KeyNumber), Upload(a, references)
      PROVE  ConfigInv'
  BY <1>1 DEF Upload, MoveAdd, removing
<1>2. ASSUME NEW a \in Adder, NEW reference \in Supplied \cup KeyNumber, ImportNext(a, reference)
      PROVE  ConfigInv'
  BY <1>2 DEF ImportNext, MoveAdd, removing
<1>3. ASSUME NEW a \in Adder, UploadEnds(a) PROVE ConfigInv'
  BY <1>3 DEF UploadEnds, MoveAdd, removing
<1>4. ASSUME NEW a \in Adder, WriteKey(a) PROVE ConfigInv'
  <2>1. created' = created + 1 /\ created' \notin 0..created /\ 0..created \subseteq 0..created'
        /\ 1..created \subseteq 1..created' /\ created' \in 0..created'
    BY <1>4 DEF WriteKey
  <2>2. ConfigTypes'
    BY <1>4, <2>1 DEF WriteKey, MoveAdd, removing
  <2>3. \A b \in Adder : key'[b] = IF b = a THEN created' ELSE key[b]
    BY <1>4, <2>1 DEF WriteKey
  <2>4. OwnFile'
    BY <1>4, <2>1, <2>3 DEF WriteKey, MoveAdd, removing
  <2> QED BY <1>4, <2>2, <2>4 DEF WriteKey, removing
<1>5. ASSUME NEW a \in Adder, ImportFails(a) PROVE ConfigInv'
  BY <1>5 DEF ImportFails, MoveAdd, removing
<1>6. ASSUME NEW a \in Adder, CommitRow(a) PROVE ConfigInv'
  <2>1. key[a] \in 1..created
    BY <1>6 DEF CommitRow
  <2>2. \A b \in Adder : astep'[b] = "validating" => astep[b] = "validating" /\ b # a
    BY <1>6 DEF CommitRow, MoveAdd
  <2>3. ConfigTypes'
    BY <1>6, <2>1 DEF CommitRow, MoveAdd, removing
  <2>4. astep[a] = "validating" /\ rows' = rows \cup {key[a]}
        /\ UNCHANGED <<files, key, removing, severed>>
    BY <1>6 DEF CommitRow
  <2>5. OwnFile'
    BY <2>2, <2>4 DEF removing
  <2>6. UnlinksUnowned'
    BY <2>4 DEF removing
  <2>7. RowHasItsKey'
    BY <2>4
  <2> QED BY <2>3, <2>5, <2>6, <2>7
<1>7. ASSUME NEW a \in Adder, Refuse(a) PROVE ConfigInv'
  <2>1. UNCHANGED <<rows, removing, created, key, severed>> /\ files \ {key[a]} \subseteq files'
        /\ files' \subseteq files
    BY <1>7 DEF Refuse, Discard
  <2>2. \A b \in Adder : astep'[b] = "validating" => astep[b] = "validating" /\ b # a
    BY <1>7 DEF Refuse, MoveAdd
  <2>3. ConfigTypes'
    BY <1>7, <2>1 DEF Refuse, MoveAdd, removing
  <2>4. OwnFile' /\ UnlinksUnowned' /\ RowHasItsKey'
    BY <1>7, <2>1, <2>2 DEF Refuse, removing
  <2> QED BY <2>3, <2>4
<1>8. ASSUME NEW r \in Remover, NEW ids \in SUBSET KeyNumber, Select(r, ids) PROVE ConfigInv'
  BY <1>8 DEF Select, adding
<1>9. ASSUME NEW r \in Remover, CommitDeletion(r) PROVE ConfigInv'
  BY <1>9 DEF CommitDeletion, adding
<1>10. ASSUME NEW r \in Remover, NEW k \in KeyNumber, Unlink(r, k) PROVE ConfigInv'
  BY <1>10 DEF Unlink, Discard, adding
<1>11. ASSUME NEW r \in Remover, RemoveEnds(r) PROVE ConfigInv'
  BY <1>11 DEF RemoveEnds, adding
<1>12. CASE ProcessDies
  BY <1>12 DEF ProcessDies
<1>13. CASE UNCHANGED configVars
  BY <1>13 DEF configVars, adding, removing
<1>14. ASSUME NEW a \in Adder, CancelImport(a) PROVE ConfigInv'
  <2>1. /\ UNCHANGED <<removing, created, key>>
        /\ queue' \in [Adder -> SUBSET (Supplied \cup KeyNumber)]
        /\ \A b \in Adder : astep'[b] = IF b = a THEN "idle" ELSE astep[b]
        /\ astep' \in [Adder -> {"idle", "importing", "reading", "validating"}]
    BY <1>14 DEF CancelImport
  <2>2. CASE astep[a] # "validating"
    <3>1. UNCHANGED <<files, rows, severed>>
      BY <1>14, <2>2 DEF CancelImport
    <3> QED BY <2>1, <3>1 DEF removing
  <2>3. CASE astep[a] = "validating"
    <3>1. /\ files \ {key[a]} \subseteq files' /\ files' \subseteq files
          /\ \/ rows' = rows \cup {key[a]} /\ severed' = severed \cup {key[a]}
             \/ UNCHANGED <<rows, severed>>
      BY <1>14, <2>3 DEF CancelImport, Discard
    <3>2. key[a] \in 1..created /\ key[a] \notin rows
      BY <2>3
    <3>3. ConfigTypes'
      BY <2>1, <3>1, <3>2 DEF removing
    <3>4. OwnFile'
      BY <2>1, <2>3, <3>1 DEF removing
    <3>5. UnlinksUnowned'
      BY <2>1, <2>3, <3>1 DEF removing
    <3>6. RowHasItsKey'
      BY <3>1, <3>2
    <3> QED BY <3>3, <3>4, <3>5, <3>6
  <2> QED BY <2>2, <2>3
<1>15. ASSUME NEW r \in Remover, CancelRemoval(r) PROVE ConfigInv'
  BY <1>15 DEF CancelRemoval, adding
<1> QED
  BY <1>1, <1>2, <1>3, <1>4, <1>5, <1>6, <1>7, <1>8, <1>9, <1>10, <1>11, <1>12, <1>13, <1>14, <1>15
     DEF ConfigNext

LEMMA ConfigInvariance == ConfigSpec => []ConfigInv
  BY ConfigInvInit, ConfigInvStep, PTL DEF ConfigSpec

(* add_cfg, remove_cfg: for any number of requests, keys, failures and crashes, no       *)
(* configuration loses its key file, unless its import was cancelled at its commit.      *)
THEOREM RowsHaveTheirKeys == ConfigSpec => []RowHasItsKey
<1>1. ConfigInv => RowHasItsKey
  BY DEF ConfigInv
<1> QED BY <1>1, ConfigInvariance, PTL

(* What explains a file without a row, before and after a step. *)
Explained(k) ==
  \/ k \in lost
  \/ \E a \in Adder : astep[a] = "validating" /\ key[a] = k
  \/ \E r \in Remover : rstep[r] = "unlinking" /\ k \in doomed[r]

LEMMA Explanation == NoOrphanedKey <=> \A k \in Unowned : Explained(k)
  BY DEF NoOrphanedKey, Explained

LEMMA OrphanStep == ConfigInv /\ NoOrphanedKey /\ [ConfigNext]_configVars => NoOrphanedKey'
<1> SUFFICES ASSUME ConfigInv, \A k \in Unowned : Explained(k), [ConfigNext]_configVars,
                    NEW k, k \in Unowned'
             PROVE  Explained(k)'
  BY Explanation DEF NoOrphanedKey, Explained
<1> USE DEF ConfigInv, ConfigTypes, Unowned, Explained
<1>1. ASSUME NEW a \in Adder, astep[a] # "validating", astep'[a] # "validating",
             \A b \in Adder \ {a} : astep'[b] = astep[b],
             UNCHANGED <<files, rows, key, removing, lost>>
      PROVE  Explained(k)'
  BY <1>1 DEF removing
<1>2. ASSUME NEW a \in Adder, WriteKey(a) PROVE Explained(k)'
  <2>1. CASE k = created'
    BY <1>2, <2>1 DEF WriteKey, MoveAdd
  <2>2. CASE k # created'
    BY <1>2, <2>2 DEF WriteKey, MoveAdd, removing
  <2> QED BY <2>1, <2>2
<1>3. ASSUME NEW a \in Adder, CommitRow(a) PROVE Explained(k)'
  BY <1>3 DEF CommitRow, MoveAdd, removing
<1>4. ASSUME NEW a \in Adder, Refuse(a) PROVE Explained(k)'
  BY <1>4 DEF Refuse, Discard, MoveAdd, removing
<1>5. ASSUME NEW r \in Remover, NEW ids \in SUBSET KeyNumber, Select(r, ids) PROVE Explained(k)'
  BY <1>5 DEF Select, adding
<1>6. ASSUME NEW r \in Remover, CommitDeletion(r) PROVE Explained(k)'
  BY <1>6 DEF CommitDeletion, adding
<1>7. ASSUME NEW r \in Remover, NEW d \in KeyNumber, Unlink(r, d) PROVE Explained(k)'
  BY <1>7 DEF Unlink, Discard, adding
<1>8. ASSUME NEW r \in Remover, RemoveEnds(r) PROVE Explained(k)'
  BY <1>8 DEF RemoveEnds, adding
<1>9. CASE ProcessDies
  BY <1>9 DEF ProcessDies
<1>10. CASE UNCHANGED configVars
  BY <1>10 DEF configVars, adding, removing
<1>11. ASSUME NEW a \in Adder, NEW references \in SUBSET (Supplied \cup KeyNumber), Upload(a, references)
       PROVE  Explained(k)'
  BY <1>1, <1>11 DEF Upload, MoveAdd
<1>12. ASSUME NEW a \in Adder, NEW reference \in Supplied \cup KeyNumber, ImportNext(a, reference)
       PROVE  Explained(k)'
  <2>1. astep[a] = "importing" /\ astep'[a] \in {"reading", "importing"}
    BY <1>12 DEF ImportNext, MoveAdd
  <2> QED BY <1>1, <1>12, <2>1 DEF ImportNext, MoveAdd
<1>13. ASSUME NEW a \in Adder, UploadEnds(a) \/ ImportFails(a) PROVE Explained(k)'
  BY <1>1, <1>13 DEF UploadEnds, ImportFails, MoveAdd
<1>14. ASSUME NEW a \in Adder, CancelImport(a) PROVE Explained(k)'
  <2>1. /\ UNCHANGED <<removing, key>> /\ rows \subseteq rows'
        /\ \A b \in Adder : b # a => astep'[b] = astep[b]
    BY <1>14 DEF CancelImport
  <2>2. CASE astep[a] # "validating"
    BY <1>14, <2>1, <2>2 DEF CancelImport, removing
  <2>3. CASE astep[a] = "validating"
    <3>1. \/ files' = files \ {key[a]} /\ lost' = lost
          \/ files' = files /\ lost' = lost \cup {key[a]}
      BY <1>14, <2>3 DEF CancelImport, Discard
    <3> QED BY <2>1, <3>1 DEF removing
  <2> QED BY <2>2, <2>3
<1>15. ASSUME NEW r \in Remover, CancelRemoval(r) PROVE Explained(k)'
  BY <1>15 DEF CancelRemoval, adding
<1> QED
  BY <1>2, <1>3, <1>4, <1>5, <1>6, <1>7, <1>8, <1>9, <1>10, <1>11, <1>12, <1>13, <1>14, <1>15
     DEF ConfigNext

(* What leaves a key file behind is a crash, a write or an unlink that fails, or a       *)
(* removal cancelled at its commit, and nothing else: a failing or cancelled validation  *)
(* or commit removes its own file, and a removal unlinks what it has deleted.            *)
THEOREM KeysAreOwned == ConfigSpec => []NoOrphanedKey
<1>1. ConfigInit => NoOrphanedKey
  BY DEF ConfigInit, NoOrphanedKey, Unowned
<1> QED BY <1>1, OrphanStep, ConfigInvariance, PTL DEF ConfigSpec
=============================================================================
