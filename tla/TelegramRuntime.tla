--------------------------- MODULE TelegramRuntime ---------------------------
(***************************************************************************)
(* Which Telegram configuration is stored and which one is live:           *)
(* update_sys_cfg (services/sys_service.py) under _TELEGRAM_CONFIG_LOCK,   *)
(* the dispatcher's _try_restore_global_bot (services/                     *)
(* notification_service.py) outside it, init_telegram_bot and              *)
(* shutdown_telegram_bot (telegram_bot.py), and start-up (main.py).        *)
(*                                                                         *)
(* Everything runs on one event loop, so a step is what happens between    *)
(* two awaits.  A configuration is a token with its chat id, saved         *)
(* together.  Notifier objects are numbered in the order of their creation.*)
(***************************************************************************)
EXTENDS Integers, FiniteSets

CONSTANTS
  Config, NoConfig,   \* token and chat id; nothing stored
  Request, NoOne,     \* calls of update_sys_cfg in progress
  Dispatcher,         \* {} or the set of one dispatcher
  MaxBots, MaxUpdates, MaxStarts   \* bounds

ASSUME TelegramAssumption ==
  /\ NoConfig \notin Config /\ NoOne \notin Request \cup Dispatcher
  /\ Request \cap Dispatcher = {}
  /\ MaxBots \in Nat /\ MaxUpdates \in Nat /\ MaxStarts \in Nat

VARIABLES
  stored,        \* SYS_TG_BOT_TOKEN and SYS_TG_CHAT_ID
  lock,          \* _TELEGRAM_CONFIG_LOCK
  instance,      \* _bot_instance: a notifier, 0 for None
  config, open,  \* the notifiers: their configuration; _bot is not None
  at,          \* of each coroutine
  wanted,        \* the configuration it initialises and saves
  before,        \* old_token and old_chat_id
  victim,        \* the notifier whose shutdown it awaits
  saved,         \* history: configurations that were stored at some time
  unrepaired,    \* history: bringing the old bot back after a failed commit failed
  crossed,       \* history: a restore has overlapped an update in this process
  updates, starts

Coroutine == Request \cup Dispatcher
local == <<at, wanted, before, victim>>
runtimeVars == <<stored, lock, instance, config, open, local, saved, unrepaired, crossed, updates, starts>>

Bots == DOMAIN config
RuntimeInit ==
  /\ stored = NoConfig /\ lock = NoOne /\ instance = 0
  /\ config = <<>> /\ open = <<>>
  /\ at = [c \in Coroutine |-> "idle"]
  /\ wanted = [c \in Coroutine |-> NoConfig] /\ before = wanted
  /\ victim = [c \in Coroutine |-> 0]
  /\ saved = {} /\ unrepaired = FALSE /\ crossed = FALSE /\ updates = 0 /\ starts = 0

GoTo(c, s) == at' = [at EXCEPT ![c] = s]
Unlock(c) == lock' = IF lock = c THEN NoOne ELSE lock

-----------------------------------------------------------------------------
\* init_telegram_bot: a notifier that Telegram has accepted becomes the instance at
\* once; the previous one is shut down afterwards, which waits for a send to end.
Install(c, cfg) ==
  /\ Cardinality(Bots) < MaxBots
  /\ LET n == Cardinality(Bots) + 1
     IN /\ config' = [b \in 1..n |-> IF b = n THEN cfg ELSE config[b]]
        /\ open' = [b \in 1..n |-> IF b = n THEN TRUE ELSE open[b]]
        /\ instance' = n
  /\ victim' = [victim EXCEPT ![c] = instance]

\* TelegramNotifier.shutdown of the previous notifier.
Close(n) == open' = [b \in Bots |-> open[b] /\ b # n]

-----------------------------------------------------------------------------
\* update_sys_cfg.

Begin(r, cfg) ==
  /\ at[r] = "idle" /\ updates < MaxUpdates
  /\ updates' = updates + 1
  /\ GoTo(r, "waiting")
  /\ wanted' = [wanted EXCEPT ![r] = cfg]
  /\ UNCHANGED <<stored, lock, instance, config, open, before, victim, saved, unrepaired, crossed, starts>>

EnterUnlocked(r) ==  \* mutant: no lock
  /\ at[r] = "waiting"
  /\ before' = [before EXCEPT ![r] = stored]
  /\ crossed' = (crossed \/ \E d \in Dispatcher : at[d] # "idle")
  /\ GoTo(r, IF wanted[r] = NoConfig THEN "saving" ELSE "validating")
  /\ UNCHANGED <<stored, lock, instance, config, open, wanted, victim, saved, unrepaired, updates, starts>>
\* The lock, and the old values.
Enter(r) ==
  /\ at[r] = "waiting" /\ lock = NoOne
  /\ lock' = r
  /\ before' = [before EXCEPT ![r] = stored]
  /\ crossed' = (crossed \/ \E d \in Dispatcher : at[d] # "idle")
  /\ GoTo(r, IF wanted[r] = NoConfig THEN "saving" ELSE "validating")
  /\ UNCHANGED <<stored, instance, config, open, wanted, victim, saved, unrepaired, updates, starts>>

\* The new bot answers, or the request ends with the old configuration in place.
Validate(r) ==
  /\ at[r] = "validating"
  /\ \/ Install(r, wanted[r]) /\ GoTo(r, "replacing") /\ UNCHANGED lock
     \/ GoTo(r, "idle") /\ Unlock(r) /\ UNCHANGED <<instance, config, open, victim>>
  /\ UNCHANGED <<stored, wanted, before, saved, unrepaired, crossed, updates, starts>>

Replace(r) ==
  /\ at[r] = "replacing"
  /\ Close(victim[r])
  /\ GoTo(r, "saving")
  /\ UNCHANGED <<stored, lock, instance, config, wanted, before, victim, saved, unrepaired, crossed, updates, starts>>

\* Both rows and the requeueing, in one transaction.
Save(r) ==
  /\ at[r] = "saving"
  /\ stored' = wanted[r]
  /\ saved' = saved \cup ({wanted[r]} \ {NoConfig})
  /\ unrepaired' = IF wanted[r] = NoConfig THEN unrepaired ELSE FALSE
  /\ IF wanted[r] = NoConfig THEN GoTo(r, "shutting") /\ UNCHANGED lock
     ELSE GoTo(r, "idle") /\ Unlock(r)
  /\ UNCHANGED <<instance, config, open, wanted, before, victim, crossed, updates, starts>>

SaveFailsQuietly(r) ==  \* mutant: the exception is passed on, the new bot stays
  /\ at[r] = "saving"
  /\ GoTo(r, "idle") /\ Unlock(r)
  /\ UNCHANGED <<stored, instance, config, open, wanted, before, victim, saved, unrepaired, crossed, updates, starts>>
\* The transaction fails: the old bot is to come back.
SaveFails(r) ==
  /\ at[r] = "saving"
  /\ GoTo(r, IF before[r] = NoConfig THEN "shutting" ELSE "reverting")
  /\ UNCHANGED <<stored, lock, instance, config, open, wanted, before, victim, saved, unrepaired,
                 crossed, updates, starts>>

Revert(r) ==
  /\ at[r] = "reverting"
  /\ \/ Install(r, before[r]) /\ GoTo(r, "undoing") /\ UNCHANGED <<lock, unrepaired>>
     \/ /\ GoTo(r, "idle") /\ Unlock(r) /\ unrepaired' = TRUE
        /\ UNCHANGED <<instance, config, open, victim>>
  /\ UNCHANGED <<stored, wanted, before, saved, crossed, updates, starts>>

Undo(r) ==
  /\ at[r] = "undoing"
  /\ Close(victim[r])
  /\ GoTo(r, "idle") /\ Unlock(r)
  /\ UNCHANGED <<stored, instance, config, wanted, before, victim, saved, unrepaired, crossed, updates, starts>>

ShutDownForgetting(r) ==  \* mutant: the instance is only forgotten
  /\ at[r] = "shutting"
  /\ GoTo(r, "forgetting")
  /\ UNCHANGED <<stored, lock, instance, config, open, wanted, before, victim, saved, unrepaired, crossed, updates, starts>>
\* shutdown_telegram_bot: the instance is shut down, and then forgotten, whichever
\* it is by then.
ShutDown(r) ==
  /\ at[r] = "shutting"
  /\ Close(instance)
  /\ GoTo(r, "forgetting")
  /\ UNCHANGED <<stored, lock, instance, config, wanted, before, victim, saved, unrepaired, crossed, updates, starts>>

Forget(r) ==
  /\ at[r] = "forgetting"
  /\ instance' = 0 /\ unrepaired' = FALSE
  /\ GoTo(r, "idle") /\ Unlock(r)
  /\ UNCHANGED <<stored, config, open, wanted, before, victim, saved, crossed, updates, starts>>

-----------------------------------------------------------------------------
\* _try_restore_global_bot: no bot, the SELECT, init_telegram_bot.

ReadStored(d) ==
  /\ at[d] = "idle" /\ instance = 0 /\ stored # NoConfig
  /\ wanted' = [wanted EXCEPT ![d] = stored]
  /\ GoTo(d, "validating")
  /\ crossed' = (crossed \/ lock # NoOne)
  /\ UNCHANGED <<stored, lock, instance, config, open, before, victim, saved, unrepaired, updates, starts>>

TryRestore(d) ==
  /\ at[d] = "validating"
  /\ \/ Install(d, wanted[d]) /\ GoTo(d, "replacing")
     \/ GoTo(d, "idle") /\ UNCHANGED <<instance, config, open, victim>>
  /\ UNCHANGED <<stored, lock, wanted, before, saved, unrepaired, crossed, updates, starts>>

FinishRestore(d) ==
  /\ at[d] = "replacing"
  /\ Close(victim[d])
  /\ GoTo(d, "idle")
  /\ UNCHANGED <<stored, lock, instance, config, wanted, before, victim, saved, unrepaired, crossed, updates, starts>>

-----------------------------------------------------------------------------
\* The process ends and starts again: lifespan initialises the stored configuration.
Restart ==
  /\ starts < MaxStarts /\ starts' = starts + 1
  /\ lock' = NoOne
  /\ at' = [c \in Coroutine |-> "idle"]
  /\ wanted' = [c \in Coroutine |-> NoConfig] /\ before' = wanted'
  /\ victim' = [c \in Coroutine |-> 0]
  /\ unrepaired' = FALSE /\ crossed' = FALSE
  /\ \/ stored # NoConfig /\ config' = <<stored>> /\ open' = <<TRUE>> /\ instance' = 1
     \/ config' = <<>> /\ open' = <<>> /\ instance' = 0
  /\ UNCHANGED <<stored, saved, updates>>

RuntimeNext ==
  \/ \E r \in Request : \/ \E cfg \in Config \cup {NoConfig} : Begin(r, cfg)
                        \/ Enter(r) \/ Validate(r) \/ Replace(r) \/ Save(r) \/ SaveFails(r)
                        \/ Revert(r) \/ Undo(r) \/ ShutDown(r) \/ Forget(r)
  \/ \E d \in Dispatcher : ReadStored(d) \/ TryRestore(d) \/ FinishRestore(d)
  \/ Restart

RuntimeSpec == RuntimeInit /\ [][RuntimeNext]_runtimeVars

-----------------------------------------------------------------------------
Quiet == \A c \in Coroutine : at[c] \in {"idle", "waiting"}

\* test_concurrent_telegram_updates_keep_runtime_and_database_consistent: when no
\* update is in progress, a bot that runs has the stored configuration and is usable,
\* unless Telegram refused to take the old bot back after a failed commit, or the
\* dispatcher, which takes no lock, restored a bot during an update.
RuntimeMatches ==
  Quiet /\ ~unrepaired /\ ~crossed /\ instance # 0 =>
    config[instance] = stored /\ open[instance]

\* Every notifier that was replaced or given up has been closed, but for one that an
\* overlapping restore has put in the place of the instance that is being forgotten.
NoLeakedBot == Quiet /\ ~crossed => \A b \in Bots : open[b] => b = instance

\* test_telegram_database_failure_restores_previous_configuration: outside of an
\* update, no bot runs with a configuration that was never saved, with the dispatcher
\* restoring bots at any time.
OnlySavedConfigurations ==
  Quiet /\ ~unrepaired /\ instance # 0 => config[instance] \in saved
=============================================================================
