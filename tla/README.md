# OCI Helper: specifications and proofs

TLA+ models of the parts of OCI Helper whose correctness depends on the order of
things: background tasks that outlive requests and restarts, a worker pool, rows
of SQLite that several actors write, cloud calls with uncertain outcomes, a
notification outbox, and what its other services do concurrently: settings, credentials,
key files, caches, networks and start-up. Paths below are relative to `src/oci_helper/`.

## The system

One process: a FastAPI event loop (API handlers, the notification dispatcher), the
scheduler's dispatcher thread and a pool of worker threads, each of which runs
`asyncio.run(execute_...)` for one attempt of a task. They share SQLite (no
connection pool, a session per operation), a few process-wide objects (scheduler,
caches, the Telegram notifier) and the OCI and Telegram services.

| Component | State it keeps | Operations | What makes it correct |
|---|---|---|---|
| Task scheduler, `core/task_scheduler.py` | registries of tasks, their flags and `next_run`, futures of the pool | start, submit, stop, pause, resume, shutdown; dispatching; execution and completion | pool bound; no registered task without a timer or a worker; a stopped task does not start; a replacement survives the old execution; nobody starves |
| Instance creation tasks, `services/instance_service.py`, `services/oci_service.py` | `oci_create_task` rows | create, stop, pause, resume, remove the configuration; an attempt in two sessions around the OCI call | no instance launched twice; counts, attempts and notifications agree; every active row is driven |
| Public IP rotation tasks, same files | `oci_change_ip_task` rows, the instance's address | change, stop; an attempt | the address is not lost; the active task of an instance is unique |
| Restoring, `main.py` | none | `_restore_tasks`, `lifespan` | every unfinished task is driven again |
| OCI launching, `core/oracle_fetcher.py` | instances, by launch identity | `create_instance_data` | at most one instance per identity |
| OCI networking, `core/oracle_fetcher.py`, `services/extra_service.py` | VCNs, subnets, routes, rules, addresses, cached pages | ensure network, IPv6, delete VCN, add, remove and release rules | reuse before creation, only own things deleted, others' rules and routes kept, caches not stale |
| OCI boot volumes and instance operations, same files | cached list | update and terminate volumes, instances | nothing that several requests share |
| Notification outbox, `services/notification_service.py` | `notification_outbox` rows | enqueue, dispatch, claim, complete, defer, requeue | every event is kept until sent or given up; one sender at a time; attempts bounded |
| Telegram notifier, `telegram_bot.py`, `services/sys_service.py` | `_bot_instance`, stored token and chat id | init, send, shutdown, save settings | what runs is what is stored |
| Captcha and cache, `core/cache.py` | expiring entries | put, get, remove | a code is used at most once and not lost to another request |
| Administrator authentication, `core/auth.py`, `core/admin_credentials.py` | credentials, failure counters, bans | login, update credentials, checks | old tokens are refused after a change; bans count each failure |
| Configurations, `services/oci_service.py`, `routers/oci_router.py` | `oci_user` rows, key files | add, import, upload, remove | a row has its key and a key its row |
| Database, `database.py` | schema versions, indexes, rows | migrations | a migration is applied once and entirely |
| Secrets, `config.py`, `core/secrets.py` | two secret files | create, read, encrypt | one secret for all processes; what is stored can be decrypted |
| Panel, `frontend/app.js` | page state, token | navigation, loading, API calls | a late answer does not replace a newer page |
| SSH keys, routers, schemas, translations | single rows, no state | single steps, validation | nothing that depends on order |

How they interact: API handlers write rows and call the scheduler; workers read and
write the same rows and enqueue notifications in the transaction that records their
result; the dispatcher reads the outbox on the main loop and sends through the
notifier, which the settings handler may replace; after a restart `_restore_tasks`
rebuilds the scheduler from the rows.

What is hard: read, decide and write as separate steps of sessions that do not check
a version; scheduler calls before commits; executions of stopped tasks that go on;
crashes between a cloud call and its record; cloud answers that are lost; leases and
timeouts; a bot replaced between the check and the send. `PROJECT.json` lists these
hazards at their lines with the properties that cover them.

## Modules

### `TaskScheduler` and `SchedulerPromise`

Each action is one critical section of the scheduler's lock, or a worker's step
between two of them. A `Job` is a `TaskInfo` object, so a task submitted again
after a stop is a second job under the same key. `registry`, `functions`, `paused`,
`running`, `stopped` are the attributes of the class; `future[j]` stands for the
job's future: queued, executing, finished in some way, or `none` when it is not in
`_futures`. `next_run` is reduced to what the dispatcher compares: a timer has
elapsed (`due`, with the set `ahead[j]` of jobs due earlier) or not (`sleeping`).
`phase` and `dispatcher` are `_running` and the dispatcher thread; `shutdown` does
not wait for executing workers, so they finish in the next phase.

`SchedulerPromise` is what the services may rely on, without threads, timers and futures:
tasks are registered, held and released; a registered task that is not held has one
execution at a time, and there are no more executions than workers; only unscheduling or
the end of its own execution takes a task off the registry; an execution whose task was
unscheduled goes on and its end touches nothing. `ActsAsPromised` maps the code to it: an
execution (`AtWork`) lasts from the beginning of the task's function to its return or, if
the task is done, to the completion that takes it off. The reduced schedulers of
`CreateTask` and `ChangeIp` are mapped to the same module (`KeepsToScheduler`), with crashes.

### `NotificationOutbox` and `OutboxPromise`

`OutboxPromise` is what the rest of the program may rely on: an event stays until
it is recorded as sent, which needs an acceptance by Telegram, or is given up; only
a settings change reopens it. `NotificationOutbox` is the code: deliveries select a
batch, claim a row with a lease timestamp, consult the bot, wait for the notifier's
lock, send, and complete or defer under the lease. Its actions follow the awaits of
`_deliver_notification`; the completing SELECT and UPDATE are one step because both
carry the lease condition and only its holder changes the row. Time is relative
(`wait`, `age`), so the state space is finite without a clock. `owner[n] = d`
stands for "`next_attempt_at` is the timestamp d wrote": timestamps of successive
claims of one row differ because a claim needs the earlier one to have passed.
A delivery's `age` may pass its deadline, for an event loop that stalls; what depends on
the deadline is claimed for deliveries that keep it (`InTime`). Settings are
modelled as they touch the bot: saving a token (the new bot is up before the commit
that requeues), and clearing it (commit, close under the notifier's lock, forget).

### `CreateTask`

The rows of one OCI configuration, the workers that execute them, the API coroutines and
restoring. A session reads a row in one action and writes it in another; `Merge` is
SQLAlchemy's UPDATE, which writes the attributes the session changed over whatever is
there, and `OneActive` the partial unique index, whose violation rolls the transaction
back. `execute_create_task` is Fetch, GiveUp or FindUser, Prepare (the attempt is counted
and committed), LaunchInstance, Refetch and Record (result and notification in one
transaction), then the scheduler's Complete. An API request is ReadRequest, ApplyRequest
(the scheduler call) and CommitRequest. The scheduler is reduced to registered tasks, held
(paused) ones and the worker running each; the full one is `TaskScheduler`, and
`SchedulerPromise` is what the two have in common. OCI is
modelled by what the code relies on: an instance is found by its launch identity, a
repeated token returns the same instance, a capacity error means none was created, and any
other error may hide a created one. Messages, images, networks and delays are abstracted.
Not in the model: a request of a client that timed out and takes effect at OCI only after
a later request was answered, and an instance list that misses an instance while OCI also
forgets the token.

### `ChangeIp`

The rotation tasks of one instance, in the style of `CreateTask`. `change_ip` is the
coroutine that reads, inserts under the unique index and schedules; `stop_change_ip` and
`remove_cfg` read, call the scheduler and commit. An attempt is the SELECT, the commit of
the counted attempt, the rotation at OCI and the commit of its result.
`reassign_ephemeral_public_ip` is modelled call by call: lookup, refusal of a reserved
address, DELETE, then create calls with one retry token, each with an answer that may be
an error though the call took effect, and reconciliation by reading the address back.
The scheduler is the job under the instance's key; a stopped job's worker goes on.
`revived` holds the tasks that had an end when the commit of a restart (`CommitRestored`)
made them pending again.

### `TelegramRuntime`

Which configuration is stored, which notifier is `_bot_instance`, and which notifiers are
open. A step is what runs between two awaits of the event loop. `update_sys_cfg` holds
`_TELEGRAM_CONFIG_LOCK` through validation, the start of the new bot, the commit (which
may fail and bring the old bot back, or fail to) and the shutdown of a cleared one;
`_try_restore_global_bot` of the dispatcher reads the stored configuration and installs a
bot without that lock. A shutdown waits for a send to end, so its completion is a step of
its own. `NotificationOutbox` keeps the sending side of the same notifier.

### `ExpireCache` and `Captcha`

`ExpireCache` gives `core/cache.py` as operators on the set of its entries, each with its
place in the order of use; every method of the class holds its lock. `Captcha` runs
`send_captcha` (the code is cached before the message is sent, and removed when sending
fails), `verify_captcha` (under the resource's key, then `*`) and the operations that ask
for a code, over such a cache that is full and expires.

### `SecurityRules`

The default security list of a VCN, replaced whole under its etag, the cached pages of
`SecurityRuleService` and `release_security_rule`. OCI calls run in threads, so a request
interleaves between reading the list and writing it and between OCI's answer and the
cache. Rule ids are positions with contents, as in `_rule_id`, and a list of rules is the
set of their ids, numbered again when rules go. A change whose answer
is lost leaves the cached pages, and releasing does not clear them; the model has both.

### `AdminAuth`

Login, `update_admin_credentials` under its lock, `require_auth` and
`IpSecurityManager`. Verifying and hashing run in threads, so logins and updates await
between what they read and what they do. A token is its claims and, as history, the
number of changes there had been when its login read the credentials. That a token expires
is left out: the model accepts a token for longer than the code does.

### `ConfigKeys`

The rows of `oci_user` and the files of the key directory, which no transaction joins:
`add_cfg` writes the file, validates, commits and removes the file when either fails;
imports copy a supplied file or one that another row owns; `remove_cfg` commits and then
unlinks. The write of a new file, commits and unlinks may fail, the process may die, and a
request may be cancelled at what it awaits (a forced end of the server), the commit included,
which may have taken effect all the same. `lost` and `severed` record what these leave
behind. Names, fingerprints and the comparison of configurations are abstracted.

### `Migrations`, `SecretFile`, `StartUp`

`Migrations` is `init_database`: every statement of every migration, over rows with the
attributes they write, with Python's sqlite3 rule that DDL outside a transaction is durable
at once while the first INSERT or UPDATE opens a transaction that lasts until the commit.
`SecretFile` is `_load_or_create_secret` with `O_EXCL`, polling readers and processes that
die between creating and writing the file. `StartUp` composes them: migration 5 encrypts
the stored token with the key one process gets while others use the same directory.

### `EnsureNetwork`

`_ensure_network` with its listing, choice of a VCN and a block, gateway, default route
and subnet; `create_ipv6` with prefix, block, route and address. Every OCI call is a step,
except that the subnets of all VCNs are listed at once and the gateways of a VCN are
read together with its route table. A VCN has its default route table and one that a subnet
of the owner's may use; `_ensure_ipv6_internet_route` works on the subnet's table, a launch
on the default one. Subnets are named by an abstract block; there is one availability domain. Any call may fail and end the attempt, and the owner may add gateways.

### `DeleteVcn`

`delete_vcn_by_id` as survey, subnets, routes, gateways and VCN, each a step that may fail,
against another deletion, launches that add subnets and gateways or use a subnet, and the
owner, who adds and deletes resources and edits the routes.

## Runs

Each run answers one component's questions on one instance; `MC<Module>.cfg` names its
constants. Times are those of two TLC workers.

| Run | Instance | Distinct states | Shows |
|---|---|---|---|
| `scheduler` | 2 workers; two create tasks, one submitted twice, and an IP task; submission may fail; fair | 201 thousand, 85 s | registries, timers and pool agree; a stop is final and leaves a replacement alone; `SchedulerPromise` is kept; nobody starves and slots come back |
| `outbox` | 1 event, 2 deliveries, 2 attempts, 2 cancellations or crashes, stalls, the bot closing; fair | 132 thousand, 11 s | leases exclude, the abstract promise is kept, only the lease holder records, every event is settled |
| `create` | 2 tasks of 1 instance, 2 attempts, 2 domains, 2 workers, one request at a time, 2 requests or crashes; fair | 640 thousand, 86 s | one execution, counted attempts, no place filled twice, successes and notifications agree, tasks end |
| `startup` | 2 processes, 6 earlier schema versions, 2 rows, 2 crashes | 1.7 million, 20 s | an interrupted upgrade ends as an uninterrupted one, versions tell the truth, one secret |
| `ip` | 2 tasks of one instance, 2 workers, 2 attempts of 2 create calls, 1 stop, removal, crash or attachment; fair | 1.1 million, 100 s | reports are true, the reserved address stays, a success stands, rotations end |
| `telegram` | 2 updates and the dispatcher, 2 configurations, 4 updates, 1 restart | 352 thousand, 4 s | stored and running configuration agree, nothing unsaved runs, no notifier leaks |
| `captcha` | 2 senders, 2 resources and `*`, a cache of 2, 3 codes, 3 units of time | 604 thousand, 8 s | a code does one thing, in time; the latest one works if no other send for its key overlaps |
| `security` | 2 requests, 2 rules, 2 changes from elsewhere or here | 6.3 million, 86 s | a write changes only what it is about; a page that nothing overtook shows own changes |
| `auth` | 2 updates, 2 logins, 2 changes, a ban after 1 failure, 1 restart | 3.1 million, 40 s | old tokens are refused, updates are checked again, bans hold |
| `config` | 2 imports and 2 removals, 2 keys, a supplied file, 1 restart; any write, commit or unlink may fail or be cancelled | 2.2 million, 30 s | rows have keys, keys have rows, but for the cases under Disagreements |
| `network` | 2 launches, 1 IPv6 request, 2 VCNs, 2 blocks, 2 gateways, 1 failing call or change by the owner | 5.8 million, 120 s | one VCN, reachable subnets, routes kept, IPv6 complete |
| `vcn` | 2 deletions, 2 subnets, 2 internet gateways, a NAT gateway, 1 change by others, 1 failure; fair | 299 thousand, 13 s | only own things go; repeating a deletion ends |

Why the bounds are enough. The scheduler's interesting cases are a task, its replacement
and competitors; more jobs repeat them. Two deliveries are what a lease excludes, and two
attempts reach the limit as well as twenty do; `Lease = 2`, `DeliveryTimeout = 1` keep the
code's order 60 < 120. Two tasks contend for the unique index, two attempts allow an
uncertain outcome, a rotation of the domain and the limit, two workers an execution of a
stopped task next to the following one. In `MCCreateTask.cfg` one request is in flight at
a time, and crossing requests were checked with one task, two requests and three requests
or crashes (1.4 million states). A finished task that a restart revives and another
restart runs again takes three attempts: checked with one task and three requests or
crashes (1.2 million states). `ChangeIp` was also checked with two disturbances and one
attempt (2.4 million) or one create call (10 million), and with one task, three attempts
and three disturbances (520 thousand); a revived success that is undone takes three
attempts, two crashes and two wanted addresses (26 thousand with one task and one worker).
`EnsureNetwork` was checked with two failing calls or changes by the owner (17 million),
`DeleteVcn` with two changes by others (2.8 million). Two overlapping requests
are what it takes for one to overwrite the other in `TelegramRuntime`, `SecurityRules`,
`AdminAuth` and `ConfigKeys`, and the cache of `Captcha` is full with two keys. The legacy
versions of `StartUp` are a database without recorded versions and the last ones before
each migration with a consequence for rows: superseded tasks (4), the token (5), columns
whose default is not what earlier rows mean (7, 10, 12). Crashes are bounded by one or two
because each is followed by a complete restart. Symmetry is used where requests, VCNs or
gateways are interchangeable, in runs without liveness.

`CHECK_DEADLOCK FALSE` everywhere: an idle panel, a stopped scheduler and bounded
requests and crashes are legitimate ends.

Fairness. `TaskScheduler`: the dispatcher thread loops, worker threads run, a task's
function returns (OCI calls and waits are bounded by the SDK's timeouts) and
monotonic time passes. `NotificationOutbox`: the dispatcher loop of the main event
loop is never left except by cancellation, and time passes. `CreateTask`, `ChangeIp`: the
pool serves registered tasks (what `Progress` shows of the scheduler) and coroutines
that started run on. `DeleteVcn`: the operator repeats a refused deletion. Nothing is
assumed of Telegram or of OCI. `NoStarvation` assumes that `resume` is not called for
the task for ever: each call sets `next_run` to now, behind the other due tasks.
`EventuallySettled` assumes a bot that stays up, settings that are not saved for ever (each
save reopens failed events) and a loop that does not always miss the deadline.

## Disagreements

Where the code allows what a doc, a test or a comment leads one to expect not to happen.
The properties hold with these cases as explicit exemptions, so a change of the code that
removes one shows as an exemption nobody needs.

- `README.md:125` of the repository gives the instance count as the number of instances
  the task must create. `pause_create_tasks` reads a running task, the worker records its
  last success, the pause overwrites "succeeded", and resuming launches an instance
  for a remaining count of zero (`revived` in `NoMoreThanRequested`). A stop, a pause
  and a resume in flight at once can even register a task again while its first worker is at
  work (`doubled` in `OneExecution`). With the roles changed, the worker's record
  overwrites a pause or a resume it has not seen (the exemption of `EventuallyEnds`).
- `README.md:15` promises that tasks resume after restarts. `_restore_tasks` schedules a
  running task before its "pending" is written, and so overwrites a "failed" or
  "succeeded" that a worker commits in between (`main.py:98`): the row stays pending, no
  job drives it, and another restart runs it again (`revived`). A finished creation task
  then launches an instance for a remaining count of zero, and another one in each domain it
  is led to (`remaining > 0` in `NoDuplicateLaunch`); a finished rotation changes the address
  again, and its second success is not reported (`revived` in `SuccessStands`).
  `EventuallyEnds` speaks of tasks the scheduler holds. The window is short, and nothing
  closes it.
- The same promise for rotations: a crash during the last attempt has counted it, and the
  restored task is failed without another one (`InterruptedResumed`). The
  instance may be without a public address then.
- `README.md:157` says retries are not consumed while Telegram is unconfigured. Between
  `get_bot()` and the notifier's lock the token can be cleared; the closed notifier
  answers False and an attempt is counted (step `CallSender`, answer "nobot").
- `test_concurrent_telegram_updates_keep_runtime_and_database_consistent` expects one
  configuration. The dispatcher's restore takes no lock: it can install a configuration
  that an update is replacing, which then stays, or is forgotten open (`crossed` in
  `RuntimeMatches` and `NoLeakedBot`).
- `send_captcha` tells the user that the code is valid for five minutes. If another
  request for the same key is under way and its message fails, it removes whichever code
  is cached (`contested` in `LatestUsable`).
- `clear_cache` is called after a change. A page read before and stored after it keeps
  the old rules for ten minutes (`overtaken` in `OwnChangesShown`).
- `add_cfg` says in its finally clause: "A committed row owns the key. Otherwise remove the
  temporary key" (`oci_service.py:117`). The file is created and written before the `try`
  (lines 74 to 76), so a write that fails (a full disk) leaves it; and a commit cancelled
  after it took effect leaves `committed` False, so the clause removes the key of a row that
  stays (`lost` in `NoOrphanedKey`, `severed` in `RowHasItsKey`). A removal cancelled like that
  leaves its files.
- A process that dies between creating a secret file and writing it leaves it empty, and
  every later start refuses it (step `failed` of `SecretFile`).
- `test_migration_preserves_legacy_task_boot_volume_performance`: a crash between the
  ALTER of migration 12, durable at once, and its UPDATE makes the next start-up take the
  default for a stored value (`cut` in `VolumesKept`).
- `test_internet_gateway_reuses_existing_resource_and_preserves_route`: a launch writes
  the default route with the rules it read and without `if_match`; a route written in
  between is lost (the exemption of `RoutesKept`; `overtaken` in `Ipv6IsOnline`).
- Two launches at once in a tenancy without a usable VCN each create one (`early` in
  `AtMostOneVcn`).

## Proofs

Eight modules hold proofs, each for every value of the constants that satisfies its
module's assumption: any numbers of tasks, workers, requests and resources, and no bound on
crashes but the parameter's.

- `TaskScheduler_proofs`. `SchedulerCorrect`: `Spec => []SchedulerInv`. `NoLostTask` and
  `WorkerBound` are not inductive alone: a completion must know that a job is
  registered under its own key only, that nothing is registered outside a running phase,
  that timers are armed for registered jobs only and that jobs not yet created have no
  future. `Consistent` says so. The pool bound follows from the batch being no larger
  than the free slots. `PoolIsBounded` is its corollary; `ReplacementIsSafe` and
  `StoppedStaysStopped` are action properties that follow from the invariant, and
  `StopsAreFinal` is both. `SchedulerActsAsPromised`: the beginning of an execution is a
  dispatch of the promise, since the job that begins is still queued and the pool bound
  counts queued jobs too (`BeginIsPromised`); a return or a completion is its end
  (`EndIsPromised`, `CompleteIsPromised`); every other step is a request or unseen.
- `Notification_proofs`, the outbox. `OutboxCorrect`: `Spec => []OutboxInv`. `Delivered` (only
  existing rows are worked on; a positive answer in hand implies acceptance) and
  `LeaseOutlivesDelivery` (a delivery within its deadline holds the lease, and
  `age + wait = Lease`) are the strengthening. A claim needs `wait = 0`, which the sum
  and `DeliveryTimeout < Lease` rule out while another delivery works on the row;
  `LeasesExclude` is its consequence, and `AttemptsAreTheHolders` that of the lease
  condition alone, stalls or not. `OutboxKeepsPromise`: every step maps to a step of
  `OutboxPromise` or leaves `Fate` and `accepted` unchanged.
- `Notification_proofs`, the bots. `RuntimeInv` adds to the types what the lock gives: an
  update past it is alone (`Locked`), so what it has read is still stored and what it goes
  back to was saved (`Known`); the instance has a saved configuration or that of the update in
  progress (`Running`); an open bot is the instance or the one whose shutdown somebody awaits
  (`Opened`). A restore takes no lock, so it has to be told apart from the moment it
  overlaps an update (`crossed`). `OnlySavedOnesRun`, `WhatRunsIsStored` and
  `NotifiersAreClosed` follow when all coroutines are quiet.
- `CreateTask_proofs`. `ExecutionsAreExclusive`: `Spec => []TaskInv`. A worker of a
  registered task is its `runner` (`Exclusive`), so a task is dispatched again only when
  nobody executes it or it is `doubled`. Therefore nobody else writes the count between
  the SELECT and the commit of an attempt (`Counted`): sessions that do not change an attribute
  do not write it (`MergeType`, `SessionKeeps`). A launch has a count of its own, hence
  `calls <= attempts <= max_attempts`. `NoInstanceTooMany` and `ResultsAreAccounted`: every
  instance is at a place that has been recorded, or at the place the row names, where the
  domain moves on only if nothing can be left in the old one (`Places`); a task whose last
  place is filled has an end until it is revived (`Ends`). So the instances of a task are as
  many as the places, by bijections between finite sets. `TasksKeepToScheduler`: only
  registered tasks are held or have a runner, and a worker has a task exactly from its
  dispatch to its completion (`SchedulerShape`), so every step is one of `SchedulerPromise`,
  a crash or a stutter.
- `ChangeIp_proofs`. One invariant for `AttemptsAreCounted`, `ReportsAreTrue`,
  `SuccessesStand` and `ReservedIsKept`: a task has one worker, the runner of its job, and a
  task not yet committed has no job (`Queue`); so the count a worker has read is the stored
  one, an address it finds was given during its task and one it deletes is not reserved
  (`Attempts`); every attempt is counted before it reaches OCI, and without a crash a counted
  one is at work or has an outcome (`Counts`); a report is of the address in hand, and from
  the moment the only task of an instance has its result the address is settled
  (`Outcomes`). `RotationsKeepToScheduler` maps the job and its runner to
  `SchedulerPromise` with the instance as the only key.
- `Storage_proofs`, the secrets. `SecretsAlwaysAgree`: whoever is between creating and writing
  the file is alone and nobody has a key yet (`KeysInv`); a key is only ever the file's
  content.
- `Storage_proofs`, the upgrade. `UpgradeInv`: the file is always a database of some version
  that still owes, attribute by attribute, what was owed at the first start (`FileInv`, with
  `Owes`), and the connection is ahead of it by the migrations it has executed (`ViewInv`).
  Each UPDATE pays its own part and no more, so nothing is left to pay at the last version:
  `VersionsAreTruthful`, `UpgradeCompletes`. `VolumesAreKept` also needs that
  migration 12's column comes and is filled in one start-up unless a crash cuts it
  (`VpusInv`).
- `Storage_proofs`, the key files. `RowsHaveTheirKeys` and `KeysAreOwned`: the file of an
  import is its own and in no removal's hands until it is committed (`OwnFile`), a removal
  unlinks only what it has deleted. Both hold with the exceptions that `lost` and `severed`
  name, each of them a step of the code.
- `Access_proofs`, the administrator. Whoever verifies or saves holds the lock and has read
  what is stored (`Exclusive`), and the stored version counts the changes (`Versions`):
  `TokensAreRevoked`, `OnlyTheOwnerReplaces`. `BansAreKept` needs that a ban is dropped only
  after its end (`BansKept`).
- `Access_proofs`, the captcha. The operations of `ExpireCache` keep one entry for a key and, when
  the live ones fit, all of them (`OrderedKeeps`, `PutKeeps` and their neighbours). An
  entry has the key and the time of its code (`EntriesAreTrue`), so `CodesDoOneThing`. A code
  requested while an earlier one for its key is being sent is contested (`LaterAreContested`).
  Live entries belong to keys among the `Rivals` of the latest code, so while these
  fit into the cache it stays there (`LatestIsCached`); `LatestCodeWorks`.
- `Vcn_proofs`, deletion. `OthersAreKept`: what a deletion works on is tagged (`WorksOnOwn`) and
  the table it rewrites is the one it has read, as the etag names its content (`TableRead`).
- `Vcn_proofs`, security rules. A page in hand is the list if its etag is the current one
  (`PagesAreTrue`), and one that will fill the cache has the changes made here or is marked
  (`FillsAreFresh`): `OwnChangesAreShown`. A write that OCI accepts replaces what
  its request has read (`WritesReplaceWhatWasRead`), the ids of a removal are in that list
  (`RequestsAreNamed`), and numbering rules again keeps their order and the number of each
  content (`RenumberedKeeps`): `OthersKeepTheirRules`.
- `EnsureNetwork_proofs`. `RoutesAreKept`: the same for its tables, and a worker on its way to
  write a route has read that there is none (`NothingReplaced`). For the other three,
  `NetworkInv`: a worker knows a gateway that is there and the route it has
  seen, and neither goes away (`Shapes`, `DefaultRoute`, `Ipv6Known`); a VCN the program has
  made has public subnets and a route a launch can use (`MadeVcns`), so a launch that is
  alone comes to it before it would make another (`Alone`): `OneVcnIsEnough`. It takes the
  assumption that a VCN has a block for a subnet (`Block # {}`), which its CIDR is.

The proofs changed what is claimed: that a success stands and that a place is filled once
were both false for revived tasks, with more attempts than the runs allow, and are now
stated with the exemptions that the disagreements above explain. TLC checked the inductive
invariants on small instances before they were proved.

Together the three scheduler theorems say that what `CreateTask` and `ChangeIp` do with the
scheduler and what `core/task_scheduler.py` does for them are behaviours of one module,
`SchedulerPromise`; that the services are also ready for every behaviour of it is read
off the actions (`Dispatch` and `Complete` have the promise's guards, and the number of
workers bounds executions on both sides) and not proved. That every behaviour of the
services keeps to it is proved and is not one of the runs' properties.

Model-checked only: `Progress`, `EventuallySettled`, `EventuallyEnds` of both kinds of tasks
and `RepeatedDeletionEnds`. They are liveness under fairness, which needs ENABLED and
is outside what the prover does.

## Not modelled, and the plan

- A request of a client that timed out and takes effect at OCI only after a later one was
  answered, and an instance list that misses an instance while OCI also forgets the token.
- The early end of an attempt whose row has no SSH key (`instance_service.py:67`): the API
  demands one, so only a row of other origin gets there, and it ends as in `GiveUp`.
- The answer "scheduler unavailable" (`oci_service.py:422`, `637`): `submit` refuses only before
  the start and after the shutdown of the scheduler, when no request is served.
- `SuccessStands` is not claimed for a rotation that was stopped and submitted again: both
  workers may rotate the address, which `ReportsTrue` covers.
- The cached lists of VCNs and boot volumes, which follow the pattern of `SecurityRules`,
  and operations that are one OCI call: updating and terminating instances and boot volumes.
- `frontend/app.js`: superseded page loads and a session that ends during a request.
- SSH keys (single rows), HTTP routing, field validation, translations, rendering, logging
  and read-only queries (traffic, limits, tenant, glance).

Next: a `Panel` module; one model of `CreateTask` and `ChangeIp` sharing a pool that refines
`SchedulerPromise`; the lemmas that the proofs of tasks have in common.
