------------------------ MODULE Notification_proofs -------------------------
(***************************************************************************)
(* Proofs about notifications: TelegramRuntime, the bots that send them,   *)
(* for any configurations and requests; and NotificationOutbox, the rows   *)
(* they come from, for any rows, deliveries, batch size, delays and        *)
(* attempt limit, also when the event loop stalls.                         *)
(***************************************************************************)
EXTENDS NotificationOutbox, TelegramRuntime, FiniteSetTheorems, TLAPS

-----------------------------------------------------------------------------
(* TelegramRuntime. *)

Steps == {"idle", "waiting", "validating", "replacing", "saving", "reverting", "undoing",
          "shutting", "forgetting"}

RuntimeTypeOK ==
  /\ stored \in Config \cup {NoConfig} /\ saved \subseteq Config
  /\ lock \in Request \cup {NoOne}
  /\ Cardinality(Bots) \in Nat /\ Bots = 1..Cardinality(Bots)
  /\ config \in [Bots -> Config] /\ open \in [Bots -> BOOLEAN]
  /\ instance \in Bots \cup {0}
  /\ at \in [Coroutine -> Steps] /\ victim \in [Coroutine -> Bots \cup {0}]
  /\ wanted \in [Coroutine -> Config \cup {NoConfig}]
  /\ before \in [Coroutine -> Config \cup {NoConfig}]
  /\ unrepaired \in BOOLEAN /\ crossed \in BOOLEAN
  /\ updates \in Nat /\ starts \in Nat

(* An update past the lock holds it; a restore meanwhile is marked.                      *)
Locked ==
  /\ \A r \in Request : at[r] \notin {"idle", "waiting"} <=> lock = r
  /\ \A d \in Dispatcher : at[d] \in {"idle", "validating", "replacing"}
  /\ ~crossed /\ lock # NoOne => \A d \in Dispatcher : at[d] = "idle"

(* What a coroutine has read is what is stored, as far as the lock reaches.              *)
Known ==
  /\ stored \in saved \cup {NoConfig}
  /\ \A d \in Dispatcher : at[d] = "validating" =>
       wanted[d] \in saved /\ (~crossed => wanted[d] = stored)
  /\ \A r \in Request :
       /\ at[r] \in {"validating", "replacing", "saving", "reverting", "undoing"} => before[r] = stored
       /\ at[r] \in {"validating", "replacing"} => wanted[r] # NoConfig
       /\ at[r] = "reverting" => before[r] # NoConfig

Starting(r) == at[r] \in {"replacing", "saving"} /\ wanted[r] # NoConfig
Stopping(r) == at[r] \in {"reverting", "shutting", "forgetting"}
Clearing(r) == at[r] = "saving" /\ wanted[r] = NoConfig

(* The bot that runs: of a saved configuration or of the update under way.               *)
Running ==
  instance # 0 =>
    /\ \/ config[instance] \in saved \/ unrepaired
       \/ \E r \in Request : Starting(r) \/ Stopping(r) \/ Clearing(r)
    /\ \A r \in Request : Starting(r) => config[instance] \in saved \cup {wanted[r]}
    /\ \A r \in Request : Starting(r) /\ ~crossed => config[instance] = wanted[r]
    /\ ~crossed /\ ~unrepaired /\ ~(\E r \in Request : Starting(r) \/ Stopping(r)) =>
         config[instance] = stored

(* The notifiers that are open: the instance and those whose shutdown is awaited.        *)
Closing(c) == at[c] \in {"replacing", "undoing"}
Opened ==
  /\ instance # 0 => /\ open[instance] \/ \E r \in Request : at[r] = "forgetting"
                     /\ \A c \in Coroutine : victim[c] < instance
  /\ ~crossed => \A b \in Bots : open[b] =>
       \/ b = instance /\ ~(\E r \in Request : at[r] = "forgetting")
       \/ \E c \in Coroutine : Closing(c) /\ victim[c] = b

RuntimeInv == RuntimeTypeOK /\ Locked /\ Known /\ Running /\ Opened

-----------------------------------------------------------------------------
\* A new notifier gets the next number and is the instance.
LEMMA InstallAdds ==
  ASSUME RuntimeTypeOK, NEW c \in Coroutine, NEW cfg \in Config, Install(c, cfg)
  PROVE  /\ Cardinality(Bots') \in Nat /\ Bots' = 1..Cardinality(Bots')
         /\ config' \in [Bots' -> Config] /\ open' \in [Bots' -> BOOLEAN]
         /\ instance' \in Bots' /\ instance' \in Nat \ {0} /\ Bots' = Bots \cup {instance'}
         /\ \A b \in Bots \cup {0} : b \in Nat /\ b < instance'
         /\ config'[instance'] = cfg /\ open'[instance']
         /\ \A b \in Bots : config'[b] = config[b] /\ (open'[b] <=> open[b])
         /\ victim' = [victim EXCEPT ![c] = instance]
<1> DEFINE n == Cardinality(Bots) + 1
<1>1. n \in Nat \ {0} /\ Bots = 1..n - 1
  BY DEF RuntimeTypeOK
<1>2. /\ config' = [b \in 1..n |-> IF b = n THEN cfg ELSE config[b]]
      /\ open' = [b \in 1..n |-> IF b = n THEN TRUE ELSE open[b]]
      /\ instance' = n /\ victim' = [victim EXCEPT ![c] = instance]
  BY DEF Install
<1> HIDE DEF n
<1>3. Bots' = 1..n
  BY <1>2 DEF Bots
<1>4. Cardinality(Bots') = n
  BY <1>1, <1>3, FS_Interval
<1>5. config \in [1..n - 1 -> Config] /\ open \in [1..n - 1 -> BOOLEAN]
  BY <1>1 DEF RuntimeTypeOK
<1>6. config' \in [1..n -> Config] /\ open' \in [1..n -> BOOLEAN]
  <2>1. \A b \in 1..n : b # n => b \in 1..n - 1
    BY <1>1
  <2>2. \A b \in 1..n : b # n => config[b] \in Config
    BY <1>5, <2>1
  <2>3. \A b \in 1..n : b # n => open[b] \in BOOLEAN
    BY <1>5, <2>1, Zenon
  <2>4. config' \in [1..n -> Config]
    BY <1>2, <2>2
  <2>5. open' \in [1..n -> BOOLEAN]
    BY <1>2, <2>3, Zenon
  <2> QED BY <2>4, <2>5
<1>7. config'[n] = cfg /\ open'[n]
  BY <1>1, <1>2
<1>8. \A b \in Bots : config'[b] = config[b] /\ (open'[b] <=> open[b])
  BY <1>1, <1>2
<1>9. Bots' = Bots \cup {n} /\ \A b \in Bots \cup {0} : b \in Nat /\ b < n
  BY <1>1, <1>3
<1> QED BY <1>1, <1>2, <1>3, <1>4, <1>6, <1>7, <1>8, <1>9

LEMMA CloseCloses ==
  ASSUME RuntimeTypeOK, UNCHANGED config, NEW n, Close(n)
  PROVE  /\ Bots' = Bots /\ open' \in [Bots -> BOOLEAN]
         /\ \A b \in Bots : open'[b] <=> open[b] /\ b # n
  BY DEF RuntimeTypeOK, Close, Bots

LEMMA BotsKept == UNCHANGED config => Bots' = Bots
  BY DEF Bots

\* After a restart there is the one notifier of the stored configuration, or none.
LEMMA RestartBots ==
  ASSUME RuntimeTypeOK, Restart
  PROVE  /\ Cardinality(Bots') \in Nat /\ Bots' = 1..Cardinality(Bots')
         /\ config' \in [Bots' -> Config] /\ open' \in [Bots' -> BOOLEAN]
         /\ instance' \in Bots' \cup {0} /\ instance' \in Nat
         /\ instance' # 0 => config'[instance'] = stored /\ stored # NoConfig /\ open'[instance']
         /\ \A b \in Bots' : b = instance'
<1>1. CASE stored # NoConfig /\ config' = <<stored>> /\ open' = <<TRUE>> /\ instance' = 1
  <2>1. Bots' = 1..1
    BY <1>1 DEF Bots
  <2>2. Cardinality(Bots') = 1
    <3>1. Bots' = {1}
      BY <2>1
    <3> QED BY <3>1, FS_Singleton, Zenon
  <2>3. config' \in [1..1 -> Config]
    <3>1. stored \in Config
      BY <1>1 DEF RuntimeTypeOK
    <3> QED BY <1>1, <3>1
  <2>4. open' \in [1..1 -> BOOLEAN]
    <3>1. \A S, x : x \in S => <<x>> \in [1..1 -> S]
      OBVIOUS
    <3>2. TRUE \in BOOLEAN
      BY Zenon
    <3> QED BY <1>1, <3>1, <3>2, Zenon
  <2>5. config'[1] = stored /\ open'[1]
    BY <1>1
  <2> QED BY <1>1, <2>1, <2>2, <2>3, <2>4, <2>5
<1>2. CASE config' = <<>> /\ open' = <<>> /\ instance' = 0
  <2>1. Bots' = 1..0
    BY <1>2 DEF Bots
  <2>2. Cardinality(Bots') = 0
    BY <2>1, FS_Interval
  <2>3. config' \in [1..0 -> Config] /\ open' \in [1..0 -> BOOLEAN]
    BY <1>2
  <2> QED BY <1>2, <2>1, <2>2, <2>3
<1> QED BY <1>1, <1>2 DEF Restart

LEMMA RuntimeTypeInit == RuntimeInit => RuntimeTypeOK
<1> SUFFICES ASSUME RuntimeInit PROVE RuntimeTypeOK
  OBVIOUS
<1>1. Bots = 1..0
  BY DEF RuntimeInit, Bots
<1>2. Cardinality(Bots) = 0
  BY <1>1, FS_Interval
<1>3. config \in [1..0 -> Config] /\ open \in [1..0 -> BOOLEAN]
  BY DEF RuntimeInit
<1>4. unrepaired \in BOOLEAN /\ crossed \in BOOLEAN
  BY Zenon DEF RuntimeInit
<1>5. at \in [Coroutine -> Steps] /\ victim \in [Coroutine -> Bots \cup {0}]
  BY DEF RuntimeInit, Steps
<1>6. /\ wanted \in [Coroutine -> Config \cup {NoConfig}]
      /\ before \in [Coroutine -> Config \cup {NoConfig}]
  BY DEF RuntimeInit
<1> QED BY <1>1, <1>2, <1>3, <1>4, <1>5, <1>6 DEF RuntimeInit, RuntimeTypeOK

LEMMA RuntimeTypeStep == RuntimeTypeOK /\ Locked /\ Known /\ [RuntimeNext]_runtimeVars => RuntimeTypeOK'
<1> SUFFICES ASSUME RuntimeTypeOK, Locked, Known, [RuntimeNext]_runtimeVars PROVE RuntimeTypeOK'
  OBVIOUS
<1> USE DEF GoTo, Unlock, Steps, local
<1>1. ASSUME NEW r \in Request, NEW cfg \in Config \cup {NoConfig}, Begin(r, cfg) PROVE RuntimeTypeOK'
  BY <1>1, BotsKept DEF RuntimeTypeOK, Begin, Coroutine
<1>2. ASSUME NEW r \in Request, Enter(r) PROVE RuntimeTypeOK'
  <2>1. crossed' \in BOOLEAN
    BY <1>2, Zenon DEF Enter
  <2> QED BY <1>2, <2>1, BotsKept DEF RuntimeTypeOK, Enter, Coroutine
<1>3. ASSUME NEW r \in Request, Validate(r) PROVE RuntimeTypeOK'
  <2>1. CASE Install(r, wanted[r]) /\ GoTo(r, "replacing") /\ UNCHANGED lock
    <3>1. r \in Coroutine /\ wanted[r] \in Config
      BY <1>3 DEF RuntimeTypeOK, Known, Validate, Coroutine
    <3>2. /\ at' = [at EXCEPT ![r] = "replacing"] /\ lock' \in Request \cup {NoOne}
          /\ UNCHANGED <<stored, wanted, before, saved, unrepaired, crossed, updates, starts>>
      BY <1>3, <2>1 DEF RuntimeTypeOK, Validate
    <3>3. victim' \in [Coroutine -> Bots' \cup {0}]
      BY <2>1, <3>1, InstallAdds DEF RuntimeTypeOK
    <3> QED BY <2>1, <3>1, <3>2, <3>3, InstallAdds DEF RuntimeTypeOK
  <2>2. CASE UNCHANGED <<instance, config, open, victim>>
    BY <1>3, <2>2, BotsKept DEF RuntimeTypeOK, Validate, Coroutine
  <2> QED BY <1>3, <2>1, <2>2 DEF Validate
<1>4. ASSUME NEW r \in Request, Replace(r) PROVE RuntimeTypeOK'
  BY <1>4, CloseCloses DEF RuntimeTypeOK, Replace, Coroutine
<1>5. ASSUME NEW r \in Request, Save(r) PROVE RuntimeTypeOK'
  BY <1>5, BotsKept DEF RuntimeTypeOK, Save, Coroutine
<1>6. ASSUME NEW r \in Request, SaveFails(r) PROVE RuntimeTypeOK'
  BY <1>6, BotsKept DEF RuntimeTypeOK, SaveFails, Coroutine
<1>7. ASSUME NEW r \in Request, Revert(r) PROVE RuntimeTypeOK'
  <2>1. CASE Install(r, before[r]) /\ GoTo(r, "undoing") /\ UNCHANGED <<lock, unrepaired>>
    <3>1. r \in Coroutine /\ before[r] \in Config
      BY <1>7 DEF RuntimeTypeOK, Known, Revert, Coroutine
    <3>2. /\ at' \in [Coroutine -> Steps] /\ lock' \in Request \cup {NoOne}
          /\ unrepaired' \in BOOLEAN
          /\ UNCHANGED <<stored, wanted, before, saved, crossed, updates, starts>>
      BY <1>7, <2>1 DEF RuntimeTypeOK, Revert
    <3>3. victim' \in [Coroutine -> Bots' \cup {0}]
      BY <2>1, <3>1, InstallAdds DEF RuntimeTypeOK
    <3> QED BY <2>1, <3>1, <3>2, <3>3, InstallAdds DEF RuntimeTypeOK
  <2>2. CASE UNCHANGED <<instance, config, open, victim>>
    BY <1>7, <2>2, BotsKept DEF RuntimeTypeOK, Revert, Coroutine
  <2> QED BY <1>7, <2>1, <2>2 DEF Revert
<1>8. ASSUME NEW r \in Request, Undo(r) PROVE RuntimeTypeOK'
  BY <1>8, CloseCloses DEF RuntimeTypeOK, Undo, Coroutine
<1>9. ASSUME NEW r \in Request, ShutDown(r) PROVE RuntimeTypeOK'
  BY <1>9, CloseCloses DEF RuntimeTypeOK, ShutDown, Coroutine
<1>10. ASSUME NEW r \in Request, Forget(r) PROVE RuntimeTypeOK'
  BY <1>10, BotsKept DEF RuntimeTypeOK, Forget, Coroutine
<1>11. ASSUME NEW d \in Dispatcher, ReadStored(d) PROVE RuntimeTypeOK'
  <2>1. crossed' \in BOOLEAN
    BY <1>11, Zenon DEF ReadStored
  <2> QED BY <1>11, <2>1, BotsKept DEF RuntimeTypeOK, ReadStored, Coroutine
<1>12. ASSUME NEW d \in Dispatcher, TryRestore(d) PROVE RuntimeTypeOK'
  <2>1. CASE Install(d, wanted[d]) /\ GoTo(d, "replacing")
    <3>1. d \in Coroutine /\ wanted[d] \in Config
      BY <1>12 DEF RuntimeTypeOK, Known, TryRestore, Coroutine
    <3>2. /\ at' = [at EXCEPT ![d] = "replacing"]
          /\ UNCHANGED <<stored, lock, wanted, before, saved, unrepaired, crossed, updates, starts>>
      BY <1>12, <2>1 DEF RuntimeTypeOK, TryRestore
    <3>3. victim' \in [Coroutine -> Bots' \cup {0}]
      BY <2>1, <3>1, InstallAdds DEF RuntimeTypeOK
    <3> QED BY <2>1, <3>1, <3>2, <3>3, InstallAdds DEF RuntimeTypeOK
  <2>2. CASE UNCHANGED <<instance, config, open, victim>>
    BY <1>12, <2>2, BotsKept DEF RuntimeTypeOK, TryRestore, Coroutine
  <2> QED BY <1>12, <2>1, <2>2 DEF TryRestore
<1>13. ASSUME NEW d \in Dispatcher, FinishRestore(d) PROVE RuntimeTypeOK'
  BY <1>13, CloseCloses DEF RuntimeTypeOK, FinishRestore, Coroutine
<1>14. CASE Restart
  <2>1. /\ at' = [c \in Coroutine |-> "idle"] /\ victim' = [c \in Coroutine |-> 0]
        /\ wanted' = [c \in Coroutine |-> NoConfig] /\ before' = wanted'
        /\ lock' = NoOne /\ unrepaired' = FALSE /\ crossed' = FALSE
        /\ starts' = starts + 1 /\ UNCHANGED <<stored, saved, updates>>
    BY <1>14 DEF Restart
  <2>2. at' \in [Coroutine -> Steps] /\ victim' \in [Coroutine -> Bots' \cup {0}]
    BY <2>1
  <2>3. /\ wanted' \in [Coroutine -> Config \cup {NoConfig}]
        /\ before' \in [Coroutine -> Config \cup {NoConfig}]
    BY <2>1
  <2>4. unrepaired' \in BOOLEAN /\ crossed' \in BOOLEAN
    BY <2>1, Zenon
  <2>5. starts' \in Nat
    BY <2>1 DEF RuntimeTypeOK
  <2> QED BY <1>14, <2>1, <2>2, <2>3, <2>4, <2>5, RestartBots DEF RuntimeTypeOK
<1>15. CASE UNCHANGED runtimeVars
  BY <1>15, BotsKept DEF RuntimeTypeOK, runtimeVars
<1> QED
  BY <1>1, <1>2, <1>3, <1>4, <1>5, <1>6, <1>7, <1>8, <1>9, <1>10, <1>11, <1>12, <1>13, <1>14, <1>15
  DEF RuntimeNext

-----------------------------------------------------------------------------
LEMMA LockedStep ==
  RuntimeTypeOK /\ Locked /\ [RuntimeNext]_runtimeVars => Locked'
<1> SUFFICES ASSUME RuntimeTypeOK, Locked, [RuntimeNext]_runtimeVars PROVE Locked'
  OBVIOUS
<1> USE TelegramAssumption DEF Locked, RuntimeTypeOK, GoTo, Unlock, local, Coroutine
<1>1. ASSUME NEW r \in Request, NEW cfg \in Config \cup {NoConfig}, Begin(r, cfg) PROVE Locked'
  BY <1>1 DEF Begin
<1>2. ASSUME NEW r \in Request, Enter(r) PROVE Locked'
  BY <1>2 DEF Enter
<1>3. ASSUME NEW r \in Request, Validate(r) PROVE Locked'
  BY <1>3 DEF Validate
<1>4. ASSUME NEW r \in Request, Replace(r) PROVE Locked'
  BY <1>4 DEF Replace
<1>5. ASSUME NEW r \in Request, Save(r) PROVE Locked'
  BY <1>5 DEF Save
<1>6. ASSUME NEW r \in Request, SaveFails(r) PROVE Locked'
  BY <1>6 DEF SaveFails
<1>7. ASSUME NEW r \in Request, Revert(r) PROVE Locked'
  BY <1>7 DEF Revert
<1>8. ASSUME NEW r \in Request, Undo(r) PROVE Locked'
  BY <1>8 DEF Undo
<1>9. ASSUME NEW r \in Request, ShutDown(r) PROVE Locked'
  BY <1>9 DEF ShutDown
<1>10. ASSUME NEW r \in Request, Forget(r) PROVE Locked'
  BY <1>10 DEF Forget
<1>11. ASSUME NEW d \in Dispatcher, ReadStored(d) PROVE Locked'
  BY <1>11 DEF ReadStored
<1>12. ASSUME NEW d \in Dispatcher, TryRestore(d) PROVE Locked'
  BY <1>12 DEF TryRestore
<1>13. ASSUME NEW d \in Dispatcher, FinishRestore(d) PROVE Locked'
  BY <1>13 DEF FinishRestore
<1>14. CASE Restart
  BY <1>14 DEF Restart
<1>15. CASE UNCHANGED runtimeVars
  BY <1>15 DEF runtimeVars
<1> QED
  BY <1>1, <1>2, <1>3, <1>4, <1>5, <1>6, <1>7, <1>8, <1>9, <1>10, <1>11, <1>12, <1>13, <1>14, <1>15
  DEF RuntimeNext

LEMMA KnownStep ==
  RuntimeTypeOK /\ Locked /\ Known /\ [RuntimeNext]_runtimeVars => Known'
<1> SUFFICES ASSUME RuntimeTypeOK, Locked, Known, [RuntimeNext]_runtimeVars PROVE Known'
  OBVIOUS
<1> USE TelegramAssumption DEF Locked, Known, RuntimeTypeOK, GoTo, Unlock, local, Coroutine
<1>1. ASSUME NEW r \in Request, NEW cfg \in Config \cup {NoConfig}, Begin(r, cfg) PROVE Known'
  BY <1>1 DEF Begin
<1>2. ASSUME NEW r \in Request, Enter(r) PROVE Known'
  BY <1>2 DEF Enter
<1>3. ASSUME NEW r \in Request, Validate(r) PROVE Known'
  BY <1>3 DEF Validate
<1>4. ASSUME NEW r \in Request, Replace(r) PROVE Known'
  BY <1>4 DEF Replace
<1>5. ASSUME NEW r \in Request, Save(r) PROVE Known'
  BY <1>5 DEF Save
<1>6. ASSUME NEW r \in Request, SaveFails(r) PROVE Known'
  BY <1>6 DEF SaveFails
<1>7. ASSUME NEW r \in Request, Revert(r) PROVE Known'
  BY <1>7 DEF Revert
<1>8. ASSUME NEW r \in Request, Undo(r) PROVE Known'
  BY <1>8 DEF Undo
<1>9. ASSUME NEW r \in Request, ShutDown(r) PROVE Known'
  BY <1>9 DEF ShutDown
<1>10. ASSUME NEW r \in Request, Forget(r) PROVE Known'
  BY <1>10 DEF Forget
<1>11. ASSUME NEW d \in Dispatcher, ReadStored(d) PROVE Known'
  BY <1>11 DEF ReadStored
<1>12. ASSUME NEW d \in Dispatcher, TryRestore(d) PROVE Known'
  BY <1>12 DEF TryRestore
<1>13. ASSUME NEW d \in Dispatcher, FinishRestore(d) PROVE Known'
  BY <1>13 DEF FinishRestore
<1>14. CASE Restart
  BY <1>14 DEF Restart
<1>15. CASE UNCHANGED runtimeVars
  BY <1>15 DEF runtimeVars
<1> QED
  BY <1>1, <1>2, <1>3, <1>4, <1>5, <1>6, <1>7, <1>8, <1>9, <1>10, <1>11, <1>12, <1>13, <1>14, <1>15
  DEF RuntimeNext

-----------------------------------------------------------------------------
LEMMA RunningStep ==
  RuntimeTypeOK /\ Locked /\ Known /\ Running /\ [RuntimeNext]_runtimeVars => Running'
<1> SUFFICES ASSUME RuntimeTypeOK, Locked, Known, Running, [RuntimeNext]_runtimeVars
             PROVE  Running'
  OBVIOUS
<1> USE TelegramAssumption DEF Locked, Known, RuntimeTypeOK, GoTo, Unlock, local, Coroutine,
           Running, Starting, Stopping, Clearing
<1>1. ASSUME NEW r \in Request, NEW cfg \in Config \cup {NoConfig}, Begin(r, cfg) PROVE Running'
  BY <1>1, BotsKept DEF Begin
<1>2. ASSUME NEW r \in Request, Enter(r) PROVE Running'
  BY <1>2, BotsKept DEF Enter
<1>3. ASSUME NEW r \in Request, Validate(r) PROVE Running'
  <2>1. CASE Install(r, wanted[r]) /\ GoTo(r, "replacing") /\ UNCHANGED lock
    <3>1. r \in Coroutine /\ wanted[r] \in Config
      BY <1>3 DEF Validate
    <3>2. /\ config'[instance'] = wanted[r]
          /\ at' = [at EXCEPT ![r] = "replacing"] /\ UNCHANGED <<wanted, saved, crossed>>
      BY <1>3, <2>1, <3>1, InstallAdds DEF Validate
    <3>3. \A q \in Request : q # r => at[q] \in {"idle", "waiting"}
      BY <1>3 DEF Validate
    <3>4. Starting(r)' /\ \A q \in Request : q # r => ~Starting(q)'
      BY <3>1, <3>2, <3>3
    <3> QED BY <3>2, <3>4
  <2>2. CASE GoTo(r, "idle") /\ Unlock(r) /\ UNCHANGED <<instance, config, open, victim>>
    BY <1>3, <2>2, BotsKept DEF Validate
  <2> QED BY <1>3, <2>1, <2>2 DEF Validate
<1>4. ASSUME NEW r \in Request, Replace(r) PROVE Running'
  BY <1>4, CloseCloses DEF Replace
<1>5. ASSUME NEW r \in Request, Save(r) PROVE Running'
  BY <1>5, BotsKept DEF Save
<1>6. ASSUME NEW r \in Request, SaveFails(r) PROVE Running'
  BY <1>6, BotsKept DEF SaveFails
<1>7. ASSUME NEW r \in Request, Revert(r) PROVE Running'
  <2>1. CASE Install(r, before[r]) /\ GoTo(r, "undoing") /\ UNCHANGED <<lock, unrepaired>>
    <3>1. r \in Coroutine /\ before[r] \in Config
      BY <1>7 DEF Revert
    <3> QED BY <1>7, <2>1, <3>1, InstallAdds DEF Revert
  <2>2. CASE GoTo(r, "idle") /\ Unlock(r) /\ unrepaired' /\ UNCHANGED <<instance, config, open, victim>>
    BY <1>7, <2>2, BotsKept DEF Revert
  <2> QED BY <1>7, <2>1, <2>2 DEF Revert
<1>8. ASSUME NEW r \in Request, Undo(r) PROVE Running'
  BY <1>8, CloseCloses DEF Undo
<1>9. ASSUME NEW r \in Request, ShutDown(r) PROVE Running'
  BY <1>9, CloseCloses DEF ShutDown
<1>10. ASSUME NEW r \in Request, Forget(r) PROVE Running'
  BY <1>10, BotsKept DEF Forget
<1>11. ASSUME NEW d \in Dispatcher, ReadStored(d) PROVE Running'
  BY <1>11, BotsKept DEF ReadStored
<1>12. ASSUME NEW d \in Dispatcher, TryRestore(d) PROVE Running'
  <2>1. CASE Install(d, wanted[d]) /\ GoTo(d, "replacing")
    <3>1. d \in Coroutine /\ wanted[d] \in Config
      BY <1>12 DEF TryRestore
    <3>2. /\ config'[instance'] = wanted[d]
          /\ at' = [at EXCEPT ![d] = "replacing"] /\ UNCHANGED <<wanted, saved, crossed, stored, unrepaired>>
      BY <1>12, <2>1, <3>1, InstallAdds DEF TryRestore
    <3>3. at[d] = "validating" /\ d \notin Request
      BY <1>12 DEF TryRestore
    <3>4. \A q \in Request : at'[q] = at[q]
      BY <3>2, <3>3
    <3> QED BY <3>1, <3>2, <3>3, <3>4
  <2>2. CASE GoTo(d, "idle") /\ UNCHANGED <<instance, config, open, victim>>
    BY <1>12, <2>2, BotsKept DEF TryRestore
  <2> QED BY <1>12, <2>1, <2>2 DEF TryRestore
<1>13. ASSUME NEW d \in Dispatcher, FinishRestore(d) PROVE Running'
  BY <1>13, CloseCloses DEF FinishRestore
<1>14. CASE Restart
  BY <1>14, RestartBots DEF Restart
<1>15. CASE UNCHANGED runtimeVars
  BY <1>15, BotsKept DEF runtimeVars
<1> QED
  BY <1>1, <1>2, <1>3, <1>4, <1>5, <1>6, <1>7, <1>8, <1>9, <1>10, <1>11, <1>12, <1>13, <1>14, <1>15
  DEF RuntimeNext

-----------------------------------------------------------------------------
LEMMA InstallIsOpen ==
  ASSUME RuntimeTypeOK, Locked, Opened, NEW c \in Coroutine, NEW cfg \in Config, Install(c, cfg),
         at' \in {[at EXCEPT ![c] = "replacing"], [at EXCEPT ![c] = "undoing"]},
         at[c] \notin {"replacing", "undoing", "forgetting"}, UNCHANGED crossed,
         ~crossed => \A r \in Request : at[r] # "forgetting"
  PROVE  Opened'
<1> USE DEF Coroutine
<1>1. /\ instance' # 0 /\ open'[instance'] /\ Bots' = Bots \cup {instance'}
      /\ victim' = [victim EXCEPT ![c] = instance]
      /\ \A b \in Bots \cup {0} : b < instance'
      /\ \A b \in Bots : open'[b] <=> open[b]
  BY InstallAdds
<1>2. /\ at \in [Coroutine -> Steps] /\ victim \in [Coroutine -> Bots \cup {0}]
      /\ instance \in Bots \cup {0}
  BY DEF RuntimeTypeOK
<1>3. \A q \in Coroutine : victim'[q] < instance'
  BY <1>1, <1>2
<1>4. \A q \in Coroutine : q # c => at'[q] = at[q] /\ victim'[q] = victim[q]
  BY <1>1, <1>2
<1>5. Closing(c)' /\ victim'[c] = instance /\ ~Closing(c)
  BY <1>1, <1>2 DEF Closing
<1>6. ASSUME ~crossed', NEW b \in Bots', open'[b]
      PROVE  \/ b = instance' /\ ~(\E r \in Request : at'[r] = "forgetting")
             \/ \E q \in Coroutine : Closing(q)' /\ victim'[q] = b
  <2>1. CASE b = instance'
    <3>1. \A r \in Request : at'[r] # "forgetting"
      BY <1>2, <1>4, <1>6, <1>5 DEF Closing
    <3> QED BY <2>1, <3>1
  <2>2. CASE b \in Bots /\ b = instance
    BY <1>5, <2>2
  <2>3. CASE b \in Bots /\ b # instance
    <3>1. PICK q \in Coroutine : Closing(q) /\ victim[q] = b
      BY <1>1, <1>6, <2>3 DEF Opened
    <3>2. q # c
      BY <1>5, <3>1
    <3> QED BY <1>4, <3>1, <3>2 DEF Closing
  <2> QED BY <1>1, <1>6, <2>1, <2>2, <2>3
<1> QED BY <1>1, <1>3, <1>6 DEF Opened

LEMMA OpenedStep ==
  RuntimeTypeOK /\ Locked /\ Known /\ Opened /\ [RuntimeNext]_runtimeVars => Opened'
<1> SUFFICES ASSUME RuntimeTypeOK, Locked, Known, Opened, [RuntimeNext]_runtimeVars
             PROVE  Opened'
  OBVIOUS
<1> USE TelegramAssumption DEF Locked, Known, RuntimeTypeOK, GoTo, Unlock, local, Coroutine, Opened, Closing
<1>1. ASSUME NEW r \in Request, NEW cfg \in Config \cup {NoConfig}, Begin(r, cfg) PROVE Opened'
  BY <1>1, BotsKept DEF Begin
<1>2. ASSUME NEW r \in Request, Enter(r) PROVE Opened'
  BY <1>2, BotsKept DEF Enter
<1>3. ASSUME NEW r \in Request, Validate(r) PROVE Opened'
  <2>1. CASE Install(r, wanted[r]) /\ GoTo(r, "replacing") /\ UNCHANGED lock
    <3>1. r \in Coroutine /\ wanted[r] \in Config
      BY <1>3 DEF Validate
    <3>2. at' = [at EXCEPT ![r] = "replacing"] /\ at[r] \notin {"replacing", "undoing", "forgetting"}
          /\ UNCHANGED crossed
      BY <1>3, <2>1 DEF Validate
    <3>3. ~crossed => \A q \in Request : at[q] # "forgetting"
      BY <1>3 DEF Validate
    <3> HIDE DEF Locked, RuntimeTypeOK, Opened, Coroutine
    <3> QED BY <2>1, <3>1, <3>2, <3>3, InstallIsOpen
  <2>2. CASE GoTo(r, "idle") /\ Unlock(r) /\ UNCHANGED <<instance, config, open, victim>>
    BY <1>3, <2>2, BotsKept DEF Validate
  <2> QED BY <1>3, <2>1, <2>2 DEF Validate
<1>4. ASSUME NEW r \in Request, Replace(r) PROVE Opened'
  BY <1>4, CloseCloses DEF Replace
<1>5. ASSUME NEW r \in Request, Save(r) PROVE Opened'
  <2>1. /\ at' \in {[at EXCEPT ![r] = "shutting"], [at EXCEPT ![r] = "idle"]}
        /\ at[r] = "saving" /\ UNCHANGED <<instance, open, victim, crossed>> /\ Bots' = Bots
    BY <1>5, BotsKept DEF Save
  <2>2. \A c \in Coroutine : Closing(c)' <=> Closing(c)
    BY <2>1
  <2>3. (\E q \in Request : at[q] = "forgetting")' <=> \E q \in Request : at[q] = "forgetting"
    BY <2>1
  <2> QED BY <2>1, <2>2, <2>3
<1>6. ASSUME NEW r \in Request, SaveFails(r) PROVE Opened'
  BY <1>6, BotsKept DEF SaveFails
<1>7. ASSUME NEW r \in Request, Revert(r) PROVE Opened'
  <2>1. CASE Install(r, before[r]) /\ GoTo(r, "undoing") /\ UNCHANGED <<lock, unrepaired>>
    <3>1. r \in Coroutine /\ before[r] \in Config
      BY <1>7 DEF Revert
    <3>2. at' = [at EXCEPT ![r] = "undoing"] /\ at[r] \notin {"replacing", "undoing", "forgetting"}
          /\ UNCHANGED crossed
      BY <1>7, <2>1 DEF Revert
    <3>3. ~crossed => \A q \in Request : at[q] # "forgetting"
      BY <1>7 DEF Revert
    <3> HIDE DEF Locked, RuntimeTypeOK, Opened, Coroutine
    <3> QED BY <2>1, <3>1, <3>2, <3>3, InstallIsOpen
  <2>2. CASE GoTo(r, "idle") /\ Unlock(r) /\ unrepaired' /\ UNCHANGED <<instance, config, open, victim>>
    BY <1>7, <2>2, BotsKept DEF Revert
  <2> QED BY <1>7, <2>1, <2>2 DEF Revert
<1>8. ASSUME NEW r \in Request, Undo(r) PROVE Opened'
  BY <1>8, CloseCloses DEF Undo
<1>9. ASSUME NEW r \in Request, ShutDown(r) PROVE Opened'
  BY <1>9, CloseCloses DEF ShutDown
<1>10. ASSUME NEW r \in Request, Forget(r) PROVE Opened'
  BY <1>10, BotsKept DEF Forget
<1>11. ASSUME NEW d \in Dispatcher, ReadStored(d) PROVE Opened'
  BY <1>11, BotsKept DEF ReadStored
<1>12. ASSUME NEW d \in Dispatcher, TryRestore(d) PROVE Opened'
  <2>1. CASE Install(d, wanted[d]) /\ GoTo(d, "replacing")
    <3>1. d \in Coroutine /\ wanted[d] \in Config
      BY <1>12 DEF TryRestore
    <3>2. at' = [at EXCEPT ![d] = "replacing"] /\ at[d] \notin {"replacing", "undoing", "forgetting"}
          /\ UNCHANGED crossed
      BY <1>12, <2>1 DEF TryRestore
    <3>3. ~crossed => \A q \in Request : at[q] # "forgetting"
      BY <1>12 DEF TryRestore
    <3> HIDE DEF Locked, RuntimeTypeOK, Opened, Coroutine
    <3> QED BY <2>1, <3>1, <3>2, <3>3, InstallIsOpen
  <2>2. CASE GoTo(d, "idle") /\ UNCHANGED <<instance, config, open, victim>>
    BY <1>12, <2>2, BotsKept DEF TryRestore
  <2> QED BY <1>12, <2>1, <2>2 DEF TryRestore
<1>13. ASSUME NEW d \in Dispatcher, FinishRestore(d) PROVE Opened'
  BY <1>13, CloseCloses DEF FinishRestore
<1>14. CASE Restart
  <2>1. /\ at' = [c \in Coroutine |-> "idle"] /\ victim' = [c \in Coroutine |-> 0]
        /\ instance' \in Nat /\ (instance' # 0 => open'[instance'])
        /\ \A b \in Bots' : b = instance'
    BY <1>14, RestartBots DEF Restart
  <2>2. instance' # 0 => \A c \in Coroutine : victim'[c] < instance'
    BY <2>1
  <2> QED BY <2>1, <2>2
<1>15. CASE UNCHANGED runtimeVars
  BY <1>15, BotsKept DEF runtimeVars
<1> QED
  BY <1>1, <1>2, <1>3, <1>4, <1>5, <1>6, <1>7, <1>8, <1>9, <1>10, <1>11, <1>12, <1>13, <1>14, <1>15
  DEF RuntimeNext

-----------------------------------------------------------------------------
LEMMA RuntimeInvariance == RuntimeSpec => []RuntimeInv
<1>1. RuntimeInit => RuntimeInv
  <2> SUFFICES ASSUME RuntimeInit PROVE RuntimeInv
    OBVIOUS
  <2>1. Locked /\ Known
    BY TelegramAssumption DEF RuntimeInit, Locked, Known, Coroutine
  <2>2. Running /\ Opened
    BY DEF RuntimeInit, Running, Opened, Bots
  <2> QED BY <2>1, <2>2, RuntimeTypeInit DEF RuntimeInv
<1>2. RuntimeInv /\ [RuntimeNext]_runtimeVars => RuntimeInv'
  BY RuntimeTypeStep, LockedStep, KnownStep, RunningStep, OpenedStep DEF RuntimeInv
<1> QED BY <1>1, <1>2, PTL DEF RuntimeSpec

LEMMA NobodyHolds == RuntimeInv /\ Quiet => \A r \in Request : at[r] \in {"idle", "waiting"}
  BY DEF Quiet, Coroutine

(* update_sys_cfg, _try_restore_global_bot: for any numbers of updates, dispatchers and  *)
(* notifiers, no bot runs outside of an update with a configuration never saved.         *)
THEOREM OnlySavedOnesRun == RuntimeSpec => []OnlySavedConfigurations
<1>1. RuntimeInv => OnlySavedConfigurations
  BY NobodyHolds DEF RuntimeInv, OnlySavedConfigurations, Running, Starting, Stopping, Clearing
<1> QED BY <1>1, RuntimeInvariance, PTL

(* update_sys_cfg: between updates a bot that runs has the stored configuration and is   *)
(* open, unless a restore overlapped an update or the old bot could not be brought back. *)
THEOREM WhatRunsIsStored == RuntimeSpec => []RuntimeMatches
<1>1. RuntimeInv => RuntimeMatches
  BY NobodyHolds DEF RuntimeInv, RuntimeMatches, Running, Opened, Starting, Stopping, Clearing
<1> QED BY <1>1, RuntimeInvariance, PTL

(* init_telegram_bot, shutdown_telegram_bot: a notifier that was replaced or given up    *)
(* has been closed when nobody works on the bot any more.                                *)
THEOREM NotifiersAreClosed == RuntimeSpec => []NoLeakedBot
<1>1. RuntimeInv => NoLeakedBot
  BY DEF RuntimeInv, NoLeakedBot, Opened, Closing, Quiet
<1> QED BY <1>1, RuntimeInvariance, PTL

-----------------------------------------------------------------------------
(* NotificationOutbox. *)

USE OutboxAssumption

LEMMA InitInv == Init => OutboxInv
<1> SUFFICES ASSUME Init PROVE OutboxInv
  OBVIOUS
<1>1. TypeOK
  <2>1. (CHOOSE n \in Note : TRUE) \in Note
    <3>1. \E n \in Note : TRUE
      OBVIOUS
    <3>2. QED
      BY <3>1, Zenon
  <2>2. note \in [Delivery -> Note]
    BY <2>1 DEF Init
  <2>3. /\ status \in [Note -> Status] /\ attempts \in [Note -> 0..MaxAttempts]
        /\ wait \in [Note -> Nat] /\ owner \in [Note -> Delivery \cup {Nobody}]
    BY DEF Init, Status
  <2>4. /\ step \in [Delivery -> Step] /\ batch \in [Delivery -> SUBSET Note]
        /\ age \in [Delivery -> Nat] /\ answer \in [Delivery -> Answer]
    BY DEF Init, Step, Answer
  <2>5. configured \in BOOLEAN /\ clearing \in BOOLEAN
    BY Zenon DEF Init
  <2>6. bot \in {"none", "up", "closing"}
    BY DEF Init
  <2>7. accepted \in SUBSET Note /\ restarts \in 0..MaxRestarts
    BY DEF Init
  <2>8. QED
    BY <2>2, <2>3, <2>4, <2>5, <2>6, <2>7 DEF TypeOK
<1>2. AttemptsBudget /\ Delivered /\ LeaseOutlivesDelivery
  BY DEF Init, AttemptsBudget, Delivered, LeaseOutlivesDelivery, InTime
<1>3. QED
  BY <1>1, <1>2 DEF OutboxInv

-----------------------------------------------------------------------------
\* Enqueueing makes a row that no delivery works on.
LEMMA EnqueueKeepsInv ==
  ASSUME OutboxInv, NEW n \in Note, Enqueue(n)
  PROVE  OutboxInv'
<1> USE DEF OutboxInv, TypeOK, Enqueue, Status, deliveries, runtime
<1>1. TypeOK'
  OBVIOUS
<1>2. AttemptsBudget'
  BY DEF AttemptsBudget, Delivered
<1>3. Delivered'
  BY DEF Delivered
<1>4. LeaseOutlivesDelivery'
  BY DEF LeaseOutlivesDelivery, InTime, HoldsLease
<1>5. QED
  BY <1>1, <1>2, <1>3, <1>4

\* A claim hands a due row to an idle delivery; whoever held it before was at least a
\* lease ago, so is out of its time.
LEMMA ClaimKeepsInv ==
  ASSUME OutboxInv, NEW d \in Delivery, Claim(d)
  PROVE  OutboxInv'
<1> USE DEF OutboxInv, TypeOK, Status, Step, runtime
<1>1. PICK n \in Note : TakeNext(d, n)
                      /\ IF Due(n) THEN WriteClaim(d, n)
                         ELSE UNCHANGED <<status, wait, owner, step, note, age>>
  BY DEF Claim
<1> USE DEF TakeNext
<1>2. CASE ~Due(n)
  BY <1>1, <1>2 DEF AttemptsBudget, Delivered, LeaseOutlivesDelivery, InTime, HoldsLease
<1>3. CASE Due(n)
  <2> USE <1>1, <1>3 DEF WriteClaim, Due
  <2>1. TypeOK'
    OBVIOUS
  <2>2. AttemptsBudget'
    BY DEF AttemptsBudget
  <2>3. Delivered'
    <3>1. \A m \in Note : status'[m] # "absent" <=> status[m] # "absent"
      OBVIOUS
    <3>2. \A m \in Note : status'[m] = "sent" => status[m] = "sent"
      OBVIOUS
    <3>3. ASSUME NEW e \in Delivery, step'[e] # "idle"
          PROVE  status[note'[e]] # "absent" /\ note'[e] \in Note
      BY <3>3 DEF Delivered
    <3>4. ASSUME NEW e \in Delivery, step'[e] = "result", answer[e] = "yes"
          PROVE  note'[e] \in accepted
      BY <3>4 DEF Delivered
    <3>5. QED
      BY <3>1, <3>2, <3>3, <3>4 DEF Delivered
  <2>4. LeaseOutlivesDelivery'
    <3> SUFFICES ASSUME NEW e \in Delivery, step'[e] # "idle", age'[e] <= DeliveryTimeout
                 PROVE  HoldsLease(e)' /\ age'[e] + wait'[note'[e]] = Lease
      BY DEF LeaseOutlivesDelivery, InTime
    <3>1. CASE e = d
      BY <3>1 DEF HoldsLease
    <3>2. CASE e # d
      <4>1. HoldsLease(e) /\ age[e] + wait[note[e]] = Lease /\ age[e] <= DeliveryTimeout
        BY <3>2 DEF LeaseOutlivesDelivery, InTime
      <4>2. note[e] # n
        BY <4>1
      <4>3. note'[e] = note[e] /\ age'[e] = age[e] /\ note[e] \in Note
        BY <3>2
      <4>4. wait'[note[e]] = wait[note[e]] /\ status'[note[e]] = status[note[e]]
              /\ owner'[note[e]] = owner[note[e]]
        BY <4>2, <4>3
      <4>5. QED
        BY <4>1, <4>3, <4>4 DEF HoldsLease
    <3>3. QED
      BY <3>1, <3>2
  <2>5. QED
    BY <2>1, <2>2, <2>3, <2>4
<1>4. QED
  BY <1>2, <1>3

\* Between claim and completion a delivery touches no row.
LEMMA SendingKeepsInv ==
  ASSUME OutboxInv, NEW d \in Delivery,
         Select(d) \/ CheckBot(d) \/ RestoreBot(d) \/ CallSender(d) \/ Send(d) \/ TimedOut(d)
  PROVE  OutboxInv'
<1> USE DEF OutboxInv, TypeOK, Status, Step, InTimeout, Answer, rows, runtime, MoveTo, SenderStep
<1>1. CASE Select(d)
  BY <1>1 DEF Select, AttemptsBudget, Delivered, LeaseOutlivesDelivery, InTime, HoldsLease
<1>2. CASE CheckBot(d)
  BY <1>2 DEF CheckBot, AttemptsBudget, Delivered, LeaseOutlivesDelivery, InTime, HoldsLease
<1>3. CASE RestoreBot(d)
  BY <1>3 DEF RestoreBot, AttemptsBudget, Delivered, LeaseOutlivesDelivery, InTime, HoldsLease
<1>4. CASE CallSender(d)
  <2> USE <1>4 DEF CallSender
  <2>1. TypeOK' /\ AttemptsBudget'
    BY DEF AttemptsBudget
  <2>2. Delivered'
    BY DEF Delivered
  <2>3. LeaseOutlivesDelivery'
    BY DEF LeaseOutlivesDelivery, InTime, HoldsLease
  <2>4. QED
    BY <2>1, <2>2, <2>3
<1>5. CASE Send(d)
  <2>1. PICK taken \in BOOLEAN, ok \in BOOLEAN :
          /\ ok => taken
          /\ accepted' = IF taken THEN accepted \cup {note[d]} ELSE accepted
          /\ answer' = [answer EXCEPT ![d] = IF ok THEN "yes" ELSE "no"]
    BY <1>5 DEF Send
  <2>2. step[d] = "sending" /\ step' = [step EXCEPT ![d] = "result"]
          /\ UNCHANGED <<status, attempts, wait, owner, batch, note, age, restarts,
                        bot, configured, clearing>>
    BY <1>5 DEF Send
  <2>3. accepted \subseteq accepted' /\ accepted' \subseteq Note
    BY <2>1
  <2>4. answer' \in [Delivery -> {"yes", "no", "nobot"}]
    BY <2>1
  <2>5. TypeOK'
    BY <2>2, <2>3, <2>4
  <2>6. ASSUME NEW e \in Delivery, step'[e] = "result", answer'[e] = "yes"
        PROVE  note[e] \in accepted'
    <3>1. CASE e = d
      BY <2>1, <2>6, <3>1
    <3>2. CASE e # d
      BY <2>1, <2>2, <2>3, <2>6, <3>2 DEF Delivered
    <3>3. QED
      BY <3>1, <3>2
  <2>7. Delivered'
    BY <2>2, <2>3, <2>6 DEF Delivered
  <2>8. AttemptsBudget' /\ LeaseOutlivesDelivery'
    BY <2>2 DEF AttemptsBudget, LeaseOutlivesDelivery, InTime, HoldsLease
  <2>9. QED
    BY <2>5, <2>7, <2>8
<1>6. CASE TimedOut(d)
  BY <1>6 DEF TimedOut, AttemptsBudget, Delivered, LeaseOutlivesDelivery, InTime, HoldsLease
<1>7. QED
  BY <1>1, <1>2, <1>3, <1>4, <1>5, <1>6

\* A deferral or completion writes the row only under the lease, so no other delivery
\* that is in time can be at work on it.
LEMMA FinishKeepsInv ==
  ASSUME OutboxInv, NEW d \in Delivery, Defer(d) \/ Complete(d)
  PROVE  OutboxInv'
<1> USE DEF OutboxInv, TypeOK, Status, Step, InTimeout, Answer, rows, runtime
<1>1. Finish(d) /\ step[d] # "idle"
  BY DEF Defer, Complete
<1>2. CASE UNCHANGED rows
  BY <1>1, <1>2 DEF Finish, AttemptsBudget, Delivered, LeaseOutlivesDelivery, InTime, HoldsLease
<1>3. CASE ~UNCHANGED rows
  <2>1. HoldsLease(d)
    BY <1>3 DEF Defer, Complete
  <2>2. PICK s \in Status, a \in 0..MaxAttempts, w \in Nat :
          /\ WriteRow(d, s, a, w)
          /\ s \in {"pending", "sent", "failed"}
          /\ s = "failed" => a = MaxAttempts
          /\ s = "pending" => a < MaxAttempts
          /\ s = "sent" => note[d] \in accepted
    <3> DEFINE b == attempts[note[d]]
    <3>1. b \in 0..MaxAttempts /\ b < MaxAttempts
      BY <2>1 DEF HoldsLease, AttemptsBudget
    <3>2. CASE Defer(d)
      <4>1. WriteRow(d, "pending", b, DeferDelay)
        BY <2>1, <3>2 DEF Defer
      <4>2. QED
        BY <3>1, <4>1
    <3>3. CASE Complete(d)
      <4>1. Outcome(d)
        BY <2>1, <3>3 DEF Complete
      <4>2. CASE answer[d] = "yes" /\ WriteRow(d, "sent", b + 1, 0)
        <5>1. note[d] \in accepted
          BY <4>2, <3>3 DEF Complete, Delivered
        <5>2. b + 1 \in 0..MaxAttempts /\ 0 \in Nat
          BY <3>1
        <5>3. QED
          BY <4>2, <5>1, <5>2
      <4>3. CASE b + 1 >= MaxAttempts /\ WriteRow(d, "failed", b + 1, 0)
        <5>1. b + 1 = MaxAttempts /\ b + 1 \in 0..MaxAttempts /\ 0 \in Nat
          BY <3>1, <4>3
        <5>2. QED
          BY <4>3, <5>1
      <4>4. CASE b + 1 < MaxAttempts /\ WriteRow(d, "pending", b + 1, RetryDelay[b + 1])
        <5>1. b + 1 \in 0..MaxAttempts /\ RetryDelay[b + 1] \in Nat
          BY <3>1, <4>4
        <5>2. QED
          BY <4>4, <5>1
      <4>5. QED
        BY <4>1, <4>2, <4>3, <4>4 DEF Outcome
    <3>4. QED
      BY <3>2, <3>3
  <2> USE <1>1, <2>2 DEF WriteRow, Finish
  <2>3. TypeOK'
    OBVIOUS
  <2>4. AttemptsBudget'
    BY DEF AttemptsBudget
  <2>5. Delivered'
    BY DEF Delivered
  <2>6. LeaseOutlivesDelivery'
    <3> SUFFICES ASSUME NEW e \in Delivery, step'[e] # "idle", age'[e] <= DeliveryTimeout
                 PROVE  HoldsLease(e)' /\ age'[e] + wait'[note'[e]] = Lease
      BY DEF LeaseOutlivesDelivery, InTime
    <3>1. e # d /\ step[e] # "idle"
      OBVIOUS
    <3>2. HoldsLease(e) /\ age[e] + wait[note[e]] = Lease /\ age[e] <= DeliveryTimeout
      BY <3>1 DEF LeaseOutlivesDelivery, InTime
    <3>3. note[e] # note[d]
      BY <2>1, <3>1, <3>2 DEF HoldsLease
    <3>4. QED
      BY <3>1, <3>2, <3>3 DEF HoldsLease
  <2>7. QED
    BY <2>3, <2>4, <2>5, <2>6
<1>4. QED
  BY <1>2, <1>3

\* Saving the settings, closing the bot, cancelling and crashing.
LEMMA EnvironmentKeepsInv ==
  ASSUME OutboxInv,
         Configure \/ Unconfigure \/ CloseBot \/ ForgetBot \/ Crash
           \/ \E d \in Delivery : Cancel(d)
  PROVE  OutboxInv'
<1> USE DEF OutboxInv, TypeOK, Status, Step, rows, deliveries, runtime
<1>1. CASE Configure
  <2> USE <1>1 DEF Configure, Requeue
  <2>1. TypeOK'
    OBVIOUS
  <2>2. AttemptsBudget' /\ Delivered'
    BY DEF AttemptsBudget, Delivered
  <2>3. LeaseOutlivesDelivery'
    BY DEF LeaseOutlivesDelivery, InTime, HoldsLease
  <2>4. QED
    BY <2>1, <2>2, <2>3
<1>2. CASE Unconfigure \/ CloseBot \/ ForgetBot
  <2> USE <1>2 DEF Unconfigure, CloseBot, ForgetBot
  <2>1. TypeOK' /\ AttemptsBudget'
    BY DEF AttemptsBudget
  <2>2. Delivered'
    BY DEF Delivered
  <2>3. LeaseOutlivesDelivery'
    BY DEF LeaseOutlivesDelivery, InTime, HoldsLease
  <2>4. QED
    BY <2>1, <2>2, <2>3
<1>3. CASE Crash
  <2> USE <1>3 DEF Crash
  <2>1. TypeOK'
    <3>1. bot' \in {"none", "up", "closing"} /\ restarts' \in 0..MaxRestarts
      OBVIOUS
    <3>2. QED
      BY <3>1
  <2>2. \A d \in Delivery : step'[d] = "idle"
    OBVIOUS
  <2>3. AttemptsBudget' /\ Delivered' /\ LeaseOutlivesDelivery'
    BY <2>2 DEF AttemptsBudget, Delivered, LeaseOutlivesDelivery, InTime
  <2>4. QED
    BY <2>1, <2>3
<1>4. CASE \E d \in Delivery : Cancel(d)
  BY <1>4 DEF Cancel, AttemptsBudget, Delivered, LeaseOutlivesDelivery, InTime, HoldsLease
<1>5. QED
  BY <1>1, <1>2, <1>3, <1>4

\* Time passes for leases and deliveries alike.
LEMMA TickKeepsInv ==
  ASSUME OutboxInv, Tick
  PROVE  OutboxInv'
<1> USE DEF OutboxInv, TypeOK, Status, Step, runtime, Tick
<1>1. TypeOK'
  OBVIOUS
<1>2. AttemptsBudget' /\ Delivered'
  BY DEF AttemptsBudget, Delivered
<1>3. LeaseOutlivesDelivery'
  <2> SUFFICES ASSUME NEW d \in Delivery, step[d] # "idle", age'[d] <= DeliveryTimeout
               PROVE  HoldsLease(d)' /\ age'[d] + wait'[note[d]] = Lease
    BY DEF LeaseOutlivesDelivery, InTime
  <2>0. age[d] \in Nat /\ age[d] <= DeliveryTimeout
    OBVIOUS
  <2>1. HoldsLease(d) /\ age[d] + wait[note[d]] = Lease /\ age[d] <= DeliveryTimeout
    BY <2>0 DEF LeaseOutlivesDelivery, InTime
  <2>2. note[d] \in Note /\ age[d] \in Nat /\ wait[note[d]] \in Nat
    OBVIOUS
  <2>3. wait[note[d]] > 0 /\ ~(age[d] >= Lease)
    BY <2>1, <2>2
  <2>4. age'[d] = age[d] + 1 /\ wait'[note[d]] = wait[note[d]] - 1
    BY <2>2, <2>3
  <2>5. HoldsLease(d)'
    BY <2>1 DEF HoldsLease
  <2>6. QED
    BY <2>1, <2>2, <2>4, <2>5
<1>4. QED
  BY <1>1, <1>2, <1>3

LEMMA NextInv == OutboxInv /\ [Next]_vars => OutboxInv'
<1> SUFFICES ASSUME OutboxInv, [Next]_vars PROVE OutboxInv'
  OBVIOUS
<1>1. CASE UNCHANGED vars
  BY <1>1 DEF OutboxInv, TypeOK, AttemptsBudget, Delivered, LeaseOutlivesDelivery, InTime, HoldsLease,
              vars, rows, deliveries, runtime
<1>2. CASE Next
  BY <1>2, EnqueueKeepsInv, ClaimKeepsInv, SendingKeepsInv, FinishKeepsInv,
     EnvironmentKeepsInv, TickKeepsInv DEF Next
<1>3. QED
  BY <1>1, <1>2

-----------------------------------------------------------------------------
(* The rows keep their attempt budget, and every delivery at work within    *)
(* its timeout holds a lease that outlives it.                              *)
THEOREM OutboxCorrect == Spec => []OutboxInv
  BY InitInv, NextInv, PTL DEF Spec

\* Leases are exclusive as long as the event loop honours the delivery timeout.
THEOREM LeasesExclude == Spec => []LeaseExclusive
<1>1. OutboxInv => LeaseExclusive
  BY DEF OutboxInv, TypeOK, LeaseOutlivesDelivery, InTime, LeaseExclusive, HoldsLease
<1>2. QED
  BY <1>1, OutboxCorrect, PTL

\* A step of the outbox is a step of its promise or leaves it as it is.
LEMMA StepKeepsPromise ==
  ASSUME OutboxInv, [Next]_vars
  PROVE  [Promise!Next]_(Promise!vars)
<1> USE DEF Promise!Next, Promise!vars, Fate, OutboxInv, TypeOK, Status
<1>1. CASE UNCHANGED <<status, accepted>>
  BY <1>1
<1>2. ASSUME NEW n \in Note, Enqueue(n)
      PROVE  Promise!Enqueue(n)
  BY <1>2 DEF Enqueue, Promise!Enqueue, Promise!Become
<1>3. ASSUME NEW d \in Delivery, Claim(d)
      PROVE  UNCHANGED <<Fate, accepted>>
  BY <1>3 DEF Claim, TakeNext, WriteClaim, Due
<1>4. ASSUME NEW d \in Delivery, Send(d)
      PROVE  Promise!Accept(note[d]) \/ UNCHANGED <<status, accepted>>
  BY <1>4 DEF Send, MoveTo, rows, Delivered, Promise!Accept
<1>5. ASSUME NEW d \in Delivery, Defer(d)
      PROVE  UNCHANGED <<Fate, accepted>>
  BY <1>5 DEF Defer, Finish, WriteRow, HoldsLease, rows
<1>6. ASSUME NEW d \in Delivery, Complete(d)
      PROVE  \/ Promise!RecordSent(note[d]) \/ Promise!GiveUp(note[d])
             \/ UNCHANGED <<Fate, accepted>>
  <2>1. UNCHANGED accepted
    BY <1>6 DEF Complete, Finish
  <2>2. CASE ~HoldsLease(d)
    BY <1>6, <2>1, <2>2 DEF Complete, rows
  <2>3. CASE HoldsLease(d) /\ answer[d] = "yes"
    <3>1. status' = [status EXCEPT ![note[d]] = "sent"] /\ note[d] \in accepted
      BY <1>6, <2>3 DEF Complete, Outcome, WriteRow, Delivered
    <3>2. QED
      BY <2>1, <2>3, <3>1 DEF HoldsLease, Promise!RecordSent, Promise!Become
  <2>4. CASE HoldsLease(d) /\ status' = [status EXCEPT ![note[d]] = "failed"]
    BY <2>1, <2>4 DEF HoldsLease, Promise!GiveUp, Promise!Become
  <2>5. CASE HoldsLease(d) /\ status' = [status EXCEPT ![note[d]] = "pending"]
    BY <2>1, <2>5 DEF HoldsLease
  <2>6. QED
    BY <1>6, <2>2, <2>3, <2>4, <2>5 DEF Complete, Outcome, WriteRow
<1>7. ASSUME Configure
      PROVE  Promise!Reopen
  BY <1>7 DEF Configure, Requeue, Promise!Reopen
<1>8. ASSUME NEW d \in Delivery,
             Select(d) \/ CheckBot(d) \/ RestoreBot(d) \/ CallSender(d) \/ TimedOut(d) \/ Cancel(d)
      PROVE  UNCHANGED <<status, accepted>>
  BY <1>8 DEF Select, CheckBot, RestoreBot, CallSender, TimedOut, Cancel, MoveTo, rows
<1>9. ASSUME Unconfigure \/ CloseBot \/ ForgetBot \/ Crash \/ Tick
      PROVE  UNCHANGED <<status, accepted>>
  BY <1>9 DEF Unconfigure, CloseBot, ForgetBot, Crash, Tick, rows
<1>10. ASSUME NEW d \in Delivery PROVE note[d] \in Note
  OBVIOUS
<1>11. UNCHANGED <<Fate, accepted>> \/ Promise!Next \/ UNCHANGED <<status, accepted>>
  <2>1. CASE \E n \in Note : Enqueue(n)
    BY <2>1, <1>2
  <2>2. CASE \E d \in Delivery : Defer(d) \/ Claim(d)
    BY <2>2, <1>3, <1>5
  <2>3. CASE \E d \in Delivery : Complete(d) \/ Send(d)
    <3>1. PICK d \in Delivery : Complete(d) \/ Send(d)
      BY <2>3
    <3>2. note[d] \in Note
      BY <1>10
    <3>3. CASE Complete(d)
      <4>1. \/ Promise!RecordSent(note[d]) \/ Promise!GiveUp(note[d])
            \/ UNCHANGED <<Fate, accepted>>
        BY <1>6, <3>3
      <4>2. CASE Promise!RecordSent(note[d])
        BY <4>2, <3>2 DEF Promise!RecordSent, Promise!Become
      <4>3. CASE Promise!GiveUp(note[d])
        BY <4>3, <3>2 DEF Promise!GiveUp, Promise!Become
      <4>4. QED
        BY <4>1, <4>2, <4>3
    <3>4. CASE Send(d)
      <4>1. Promise!Accept(note[d]) \/ UNCHANGED <<status, accepted>>
        BY <1>4, <3>4
      <4>2. QED
        BY <4>1, <3>2
    <3>5. QED
      BY <3>1, <3>3, <3>4
  <2>4. CASE \E d \in Delivery : Select(d) \/ CheckBot(d) \/ RestoreBot(d) \/ CallSender(d)
                                \/ TimedOut(d) \/ Cancel(d)
    BY <2>4, <1>8
  <2>5. CASE Configure
    BY <2>5, <1>7
  <2>6. CASE Unconfigure \/ CloseBot \/ ForgetBot \/ Crash \/ Tick
    BY <2>6, <1>9
  <2>7. CASE UNCHANGED vars
    BY <2>7 DEF vars, rows
  <2>8. QED
    BY <2>1, <2>2, <2>3, <2>4, <2>5, <2>6, <2>7 DEF Next
<1>12. QED
  BY <1>11, <1>1

(* The outbox implements OutboxPromise: no event vanishes, "sent" is final  *)
(* and is recorded only after Telegram accepted the message.                *)
THEOREM OutboxKeepsPromise == Spec => KeepsPromise
<1>1. Init => Promise!Init
  BY DEF Init, Promise!Init, Fate
<1>2. QED
  BY <1>1, OutboxCorrect, StepKeepsPromise, PTL DEF Spec, KeepsPromise, Promise!Spec

\* Only the holder of a row's lease records an attempt: a deferral leaves the count, a
\* save of the settings resets it, and every other step keeps away from it.
THEOREM AttemptsAreTheHolders == Spec => OnlyLeaseHolderRecords
<1> DEFINE Recorded ==
      \A n \in Note : attempts'[n] > attempts[n] =>
        /\ status[n] = "sending"
        /\ \E d \in Delivery : note[d] = n /\ owner[n] = d /\ step[d] = "result"
                              /\ step'[d] = "idle"
<1>1. OutboxInv /\ [Next]_vars => [Recorded]_vars
  <2> SUFFICES ASSUME OutboxInv, Next, NEW n \in Note, attempts'[n] > attempts[n]
               PROVE  /\ status[n] = "sending"
                      /\ \E d \in Delivery : note[d] = n /\ owner[n] = d /\ step[d] = "result"
                                            /\ step'[d] = "idle"
    OBVIOUS
  <2> USE DEF OutboxInv, TypeOK, rows
  <2>1. attempts' # attempts /\ attempts[n] \in Nat
    BY Z3
  <2>2. ASSUME NEW d \in Delivery, Defer(d)
        PROVE  FALSE
    BY <2>1, <2>2 DEF Defer, WriteRow
  <2>3. ASSUME NEW d \in Delivery, Complete(d)
        PROVE  /\ status[n] = "sending"
               /\ note[d] = n /\ owner[n] = d /\ step[d] = "result" /\ step'[d] = "idle"
    <3>1. HoldsLease(d) /\ Outcome(d) /\ step[d] = "result" /\ Finish(d)
      BY <2>1, <2>3 DEF Complete
    <3>2. PICK a : attempts' = [attempts EXCEPT ![note[d]] = a]
      BY <3>1 DEF Outcome, WriteRow
    <3>3. note[d] = n
      BY <2>1, <3>2
    <3>4. QED
      BY <3>1, <3>3 DEF HoldsLease, Finish
  <2>4. CASE Configure
    BY <2>1, <2>4 DEF Configure, Requeue
  <2>5. CASE \E m \in Note : Enqueue(m)
    BY <2>1, <2>5 DEF Enqueue
  <2>6. CASE \E d \in Delivery : Select(d) \/ Claim(d) \/ CheckBot(d) \/ RestoreBot(d)
                                \/ CallSender(d) \/ Send(d) \/ TimedOut(d) \/ Cancel(d)
    BY <2>1, <2>6 DEF Select, Claim, TakeNext, CheckBot, RestoreBot, CallSender, Send, TimedOut,
                      Cancel, MoveTo
  <2>7. CASE Unconfigure \/ CloseBot \/ ForgetBot \/ Crash \/ Tick
    BY <2>1, <2>7 DEF Unconfigure, CloseBot, ForgetBot, Crash, Tick
  <2>8. QED
    BY <2>2, <2>3, <2>4, <2>5, <2>6, <2>7 DEF Next
<1>2. QED
  BY <1>1, OutboxCorrect, PTL DEF Spec, OnlyLeaseHolderRecords
=============================================================================
