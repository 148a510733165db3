--------------------------- MODULE Access_proofs ----------------------------
(***************************************************************************)
(* Proofs about what lets a user in: AdminAuth, the tokens, credentials    *)
(* and bans of the administrator; and Captcha, the codes that confirm what *)
(* he asks for, over the cache they are kept in.                           *)
(***************************************************************************)
EXTENDS AdminAuth, Captcha, FunctionTheorems, FiniteSetTheorems, TLAPS

-----------------------------------------------------------------------------
(* AdminAuth. *)

(* The version counts the updates, and a token has the one its login has verified. *)
Versions ==
  /\ stored.version = changes
  /\ \A t \in tokens : t.at = IF t.av = None THEN 0 ELSE t.av

(* Whoever is past the lock has read what is stored, and has been checked against it. *)
Exclusive ==
  \A u \in Update :
    /\ ustep[u] \in {"verifying", "saving"} => lock = u /\ found[u] = stored
    /\ ustep[u] = "saving" => asked[u].current = found[u].password

(* A ban is forgotten only after its end. *)
BansKept ==
  \A i \in Ip : lastBan[i] # None =>
    IF until[i] = None THEN now > lastBan[i] + BanDuration
    ELSE until[i] = lastBan[i] + BanDuration

IInv == TypeOK /\ Versions /\ Exclusive /\ BansKept

LEMMA Defaults ==
  /\ Environment \in Credentials /\ NoRequest \in Parameters /\ NoClaim \in Claim
  BY AdminAssumption DEF Environment, Credentials, NoRequest, Parameters, NoClaim, Claim

LEMMA TypeInit == Init => TypeOK
<1> SUFFICES ASSUME Init PROVE TypeOK
  OBVIOUS
<1>1. tokens \subseteq [account : Account, av : Nat \cup {None}, at : Nat]
  BY AdminAssumption DEF Init
<1>2. 0 \in 0..MaxFailures - 1
  BY AdminAssumption
<1> QED BY <1>1, <1>2, Defaults DEF Init, TypeOK

LEMMA TypeStep == TypeOK /\ [Next]_vars => TypeOK'
<1> SUFFICES ASSUME TypeOK, [Next]_vars PROVE TypeOK'
  OBVIOUS
<1> USE Defaults
<1>1. ASSUME NEW u \in Update, NEW p \in Parameters, Request(u, p) PROVE TypeOK'
  <2>1. until' \in [Ip -> Nat \cup {None}]
    BY <1>1 DEF TypeOK, Request, Passes
  <2>2. /\ ustep' \in [Update -> {"idle", "waiting", "verifying", "saving"}]
        /\ asked' \in [Update -> Parameters]
    BY <1>1 DEF TypeOK, Request, MoveUpdate
  <2> QED BY <1>1, <2>1, <2>2 DEF TypeOK, Request
<1>2. ASSUME NEW u \in Update, Enter(u) PROVE TypeOK'
  BY <1>2 DEF TypeOK, Enter, MoveUpdate, login
<1>3. ASSUME NEW u \in Update, CheckUpdate(u) PROVE TypeOK'
  BY <1>3 DEF TypeOK, CheckUpdate, MoveUpdate, Leave, login
<1>4. ASSUME NEW u \in Update, Save(u) PROVE TypeOK'
  <2>1. asked[u] \in Parameters /\ found[u] \in Credentials /\ changes + 1 \in Nat
    BY DEF TypeOK
  <2>2. stored' \in Credentials
    BY <1>4, <2>1 DEF Save, Parameters, Credentials
  <2> QED BY <1>4, <2>1, <2>2 DEF TypeOK, Save, MoveUpdate, Leave, login
<1>5. ASSUME NEW u \in Update, SaveFails(u) PROVE TypeOK'
  BY <1>5 DEF TypeOK, SaveFails, MoveUpdate, Leave, login
<1>6. ASSUME NEW l \in Login, NEW claim \in Claim, Admit(l, claim) PROVE TypeOK'
  <2>1. claim.ip \in Ip
    BY DEF Claim
  <2>2. until' \in [Ip -> Nat \cup {None}]
    BY <1>6, <2>1 DEF TypeOK, Admit, Passes
  <2>3. lstep' \in [Login -> {"idle", "loading", "verifying"}] /\ given' \in [Login -> Claim]
    BY <1>6 DEF TypeOK, Admit, MoveLogin
  <2> QED BY <1>6, <2>2, <2>3 DEF TypeOK, Admit, update
<1>7. ASSUME NEW l \in Login, Load(l) PROVE TypeOK'
  BY <1>7 DEF TypeOK, Load, MoveLogin, update
<1>8. ASSUME NEW l \in Login, Succeed(l) PROVE TypeOK'
  <2>1. given[l] \in Claim /\ verified[l] \in Credentials
    BY DEF TypeOK
  <2>2. Token(l) \in [account : Account, av : Nat \cup {None}, at : Nat]
    BY <2>1 DEF Token, Claim, Credentials
  <2>3. 0 \in 0..MaxFailures - 1
    BY AdminAssumption
  <2> QED BY <1>8, <2>2, <2>3 DEF TypeOK, Succeed, Finish, MoveLogin, update
<1>9. ASSUME NEW l \in Login, Fail(l) PROVE TypeOK'
  <2>1. given[l].ip \in Ip
    BY DEF TypeOK, Claim
  <2>2. fails' \in [Ip -> 0..MaxFailures - 1]
    BY <1>9, <2>1, AdminAssumption DEF TypeOK, Fail
  <2>3. until' \in [Ip -> Nat \cup {None}] /\ lastBan' \in [Ip -> Nat \cup {None}]
    BY <1>9, <2>1, AdminAssumption DEF TypeOK, Fail
  <2> QED BY <1>9, <2>2, <2>3 DEF TypeOK, Fail, Finish, MoveLogin, update
<1>10. CASE Tick
  BY <1>10 DEF TypeOK, Tick, login, update
<1>11. CASE Restart
  <2>1. 0 \in 0..MaxFailures - 1
    BY AdminAssumption
  <2> QED BY <1>11, <2>1 DEF TypeOK, Restart
<1>12. CASE UNCHANGED vars
  BY <1>12 DEF TypeOK, vars, login, update
<1> QED
  BY <1>1, <1>2, <1>3, <1>4, <1>5, <1>6, <1>7, <1>8, <1>9, <1>10, <1>11, <1>12 DEF Next

LEMMA VersionsStep == TypeOK /\ Versions /\ [Next]_vars => Versions'
<1> SUFFICES ASSUME TypeOK, Versions, [Next]_vars PROVE Versions'
  OBVIOUS
<1>1. ASSUME UNCHANGED <<stored, tokens, changes>> PROVE Versions'
  BY <1>1 DEF Versions
<1>2. ASSUME NEW u \in Update, Save(u) PROVE Versions'
  BY <1>2 DEF Versions, Save
<1>3. ASSUME NEW l \in Login, Succeed(l) PROVE Versions'
  <2>1. verified[l].version # None
    BY AdminAssumption DEF TypeOK, Credentials
  <2> QED BY <1>3, <2>1 DEF Versions, Succeed, Token
<1> QED
  BY <1>1, <1>2, <1>3
  DEF Next, vars, Request, Enter, CheckUpdate, SaveFails, Admit, Load, Fail, Tick, Restart

LEMMA ExclusiveStep == TypeOK /\ Exclusive /\ [Next]_vars => Exclusive'
<1> SUFFICES ASSUME TypeOK, Exclusive, [Next]_vars PROVE Exclusive'
  OBVIOUS
<1>1. ASSUME NEW u \in Update, NEW p \in Parameters, Request(u, p) PROVE Exclusive'
  BY <1>1 DEF TypeOK, Exclusive, Request, MoveUpdate
<1>2. ASSUME NEW u \in Update, Enter(u) PROVE Exclusive'
  BY <1>2, AdminAssumption DEF TypeOK, Exclusive, Enter, MoveUpdate
<1>3. ASSUME NEW u \in Update, CheckUpdate(u) PROVE Exclusive'
  BY <1>3, AdminAssumption DEF TypeOK, Exclusive, CheckUpdate, Changes, MoveUpdate, Leave
<1>4. ASSUME NEW u \in Update, Save(u) PROVE Exclusive'
  BY <1>4, AdminAssumption DEF TypeOK, Exclusive, Save, MoveUpdate, Leave
<1>5. ASSUME NEW u \in Update, SaveFails(u) PROVE Exclusive'
  BY <1>5, AdminAssumption DEF TypeOK, Exclusive, SaveFails, MoveUpdate, Leave
<1>6. CASE Restart
  BY <1>6 DEF Exclusive, Restart
<1>7. ASSUME UNCHANGED <<stored, update>> PROVE Exclusive'
  BY <1>7 DEF Exclusive, update
<1> QED
  BY <1>1, <1>2, <1>3, <1>4, <1>5, <1>6, <1>7
  DEF Next, vars, Admit, Load, Succeed, Fail, Tick

(* is_banned forgets a ban only when it is over.                                         *)
LEMMA Passing ==
  ASSUME TypeOK, BansKept, NEW ip \in Ip, Passes(ip), UNCHANGED <<lastBan, now>>
  PROVE  BansKept'
  BY AdminAssumption DEF TypeOK, BansKept, Passes, Banned

LEMMA BansStep == TypeOK /\ BansKept /\ [Next]_vars => BansKept'
<1> SUFFICES ASSUME TypeOK, BansKept, [Next]_vars PROVE BansKept'
  OBVIOUS
<1> USE AdminAssumption
<1>1. ASSUME NEW l \in Login, NEW claim \in Claim, Admit(l, claim) PROVE BansKept'
  <2>1. PICK ip \in Ip : Passes(ip) /\ UNCHANGED <<lastBan, now>>
    BY <1>1 DEF Admit, Claim
  <2> QED BY <2>1, Passing
<1>2. ASSUME NEW l \in Login, Fail(l) PROVE BansKept'
  BY <1>2 DEF TypeOK, BansKept, Fail, Claim
<1>3. CASE Tick
  BY <1>3 DEF TypeOK, BansKept, Tick, login
<1>4. CASE Restart
  BY <1>4 DEF BansKept, Restart
<1>5. ASSUME UNCHANGED <<until, lastBan, now>> PROVE BansKept'
  BY <1>5 DEF BansKept
<1>6. ASSUME NEW u \in Update, NEW p \in Parameters, Request(u, p) PROVE BansKept'
  <2>1. PICK ip \in Ip : Passes(ip) /\ UNCHANGED <<lastBan, now>>
    BY <1>6 DEF Request
  <2> QED BY <2>1, Passing
<1> QED
  BY <1>1, <1>2, <1>3, <1>4, <1>5, <1>6
  DEF Next, vars, login, Enter, CheckUpdate, Save, SaveFails, Load, Succeed

LEMMA Invariance == Spec => []IInv
<1>1. Init => IInv
  BY TypeInit DEF IInv, Init, Versions, Exclusive, BansKept, Environment
<1>2. IInv /\ [Next]_vars => IInv'
  BY TypeStep, VersionsStep, ExclusiveStep, BansStep DEF IInv
<1> QED BY <1>1, <1>2, PTL DEF Spec

(* create_jwt_token, require_auth: for any accounts, passwords and numbers of requests,  *)
(* an accepted token is of a login that verified the credentials in force.               *)
THEOREM TokensAreRevoked == Spec => []AuthInv
<1>1. IInv => AuthInv
  BY AdminAssumption DEF IInv, TypeOK, Versions, AuthInv, TokensRevoked, Accepts, Credentials
<1> QED BY <1>1, Invariance, PTL

(* update_admin_credentials: the lock makes the check and the save one step.             *)
THEOREM OnlyTheOwnerReplaces == Spec => ReplacedByOwner
<1> DEFINE Step ==
      stored' # stored =>
        \E u \in Update : /\ ustep[u] = "saving" /\ asked[u].current = stored.password
                          /\ stored'.account = asked[u].account
                          /\ stored'.password \in {stored.password, asked[u].new}
<1>1. IInv /\ [Next]_vars => Step
  <2> SUFFICES ASSUME IInv, Next, stored' # stored PROVE Step
    BY DEF vars
  <2>1. PICK u \in Update : Save(u)
    BY DEF Next, Request, Enter, CheckUpdate, SaveFails, Admit, Load, Succeed, Fail, Tick, Restart
  <2> QED BY <2>1 DEF IInv, Exclusive, Save
<1> QED BY <1>1, Invariance, PTL DEF ReplacedByOwner, Spec

(* IpSecurityManager: no login is admitted before a ban is over.                         *)
THEOREM BansAreKept == Spec => BanHolds
<1> DEFINE Step ==
      \A l \in Login :
        lstep[l] = "idle" /\ lstep'[l] = "loading" =>
          LET ban == lastBan[given'[l].ip]
          IN ban # None => now > ban + BanDuration
<1>1. IInv /\ [Next]_vars => Step
  <2> SUFFICES ASSUME IInv, [Next]_vars,
                      NEW l \in Login, lstep[l] = "idle", lstep'[l] = "loading",
                      lastBan[given'[l].ip] # None
               PROVE  now > lastBan[given'[l].ip] + BanDuration
    OBVIOUS
  <2>1. PICK claim \in Claim : Admit(l, claim)
    BY DEF IInv, TypeOK, Next, vars, login, Request, Enter, CheckUpdate, Save, SaveFails, Admit, Load,
           Succeed, Fail, Tick, Restart, MoveLogin, Finish
  <2>2. given'[l].ip = claim.ip /\ claim.ip \in Ip /\ ~Banned(claim.ip)
    BY <2>1 DEF Admit, Passes, IInv, TypeOK, Claim
  <2> QED BY <2>2, AdminAssumption DEF IInv, TypeOK, BansKept, Banned
<1> QED BY <1>1, Invariance, PTL DEF BanHolds, Spec

-----------------------------------------------------------------------------
(* ExpireCache and Captcha. *)

(* The entries of a cache: one for a key.  Operations move them in the order of use.     *)
Entries(V) == [key : Key, value : V, deadline : Nat, place : Nat \ {0}]
Like(e, f) == e.key = f.key /\ e.value = f.value /\ e.deadline = f.deadline
IsCache(S, V) ==
  /\ S \subseteq Entries(V) /\ IsFiniteSet(S)
  /\ \A e, f \in S : e.key = f.key => e = f

\* What an operation leaves: old entries only, and all those it does not take out.
Leaves(T, S, V) == IsCache(T, V) /\ \A e \in T : \E f \in S : Like(e, f)

LEMMA OrderedKeeps ==
  ASSUME NEW V, NEW S, IsCache(S, V)
  PROVE  /\ Leaves(Ordered(S), S, V) /\ Cardinality(Ordered(S)) <= Cardinality(S)
         /\ \A f \in S : \E e \in Ordered(S) : Like(e, f)
<1> DEFINE At(e) == Cardinality({f \in S : f.place <= e.place})
           Moved(e) == [e EXCEPT !.place = At(e)]
           move == [e \in S |-> Moved(e)]
<1>1. \A e \in S : At(e) \in Nat \ {0}
  <2> SUFFICES ASSUME NEW e \in S PROVE At(e) \in Nat \ {0}
    OBVIOUS
  <2> DEFINE P == {f \in S : f.place <= e.place}
  <2>1. e \in P /\ P \subseteq S
    BY DEF IsCache, Entries
  <2>2. IsFiniteSet(P) /\ Cardinality(P) \in Nat
    BY <2>1, FS_Subset, FS_CardinalityType DEF IsCache
  <2>3. Cardinality(P) # 0
    BY <2>1, <2>2, FS_EmptySet
  <2> QED BY <2>2, <2>3
<1>2. Ordered(S) = {Moved(e) : e \in S}
  BY DEF Ordered
<1> HIDE DEF At
<1>3. \A e \in S : Moved(e) \in Entries(V) /\ Like(Moved(e), e)
  BY <1>1 DEF IsCache, Entries, Like
<1>4. \A e, f \in S : Moved(e).key = Moved(f).key => Moved(e) = Moved(f)
  BY <1>3 DEF IsCache, Like
<1> HIDE DEF Moved
<1>5. move \in Surjection(S, Ordered(S))
  BY <1>2 DEF Surjection
<1> HIDE DEF move
<1>6. IsFiniteSet(Ordered(S)) /\ Cardinality(Ordered(S)) <= Cardinality(S)
  BY <1>5, FS_Surjection DEF IsCache
<1>7. IsCache(Ordered(S), V)
  BY <1>2, <1>3, <1>4, <1>6 DEF IsCache
<1> QED BY <1>2, <1>3, <1>6, <1>7 DEF Leaves

LEMMA PartIsCache ==
  ASSUME NEW V, NEW S, IsCache(S, V), NEW T, T \subseteq S
  PROVE  IsCache(T, V)
  BY FS_Subset DEF IsCache

LEMMA ExceptKeeps ==
  ASSUME NEW V, NEW S, IsCache(S, V), NEW key
  PROVE  /\ Leaves(Except(S, key), S, V)
         /\ \A e \in Except(S, key) : e.key # key
         /\ \A f \in S : f.key # key => \E e \in Except(S, key) : Like(e, f)
<1> DEFINE rest == {e \in S : e.key # key}
<1>1. IsCache(rest, V)
  BY PartIsCache
<1>2. Except(S, key) = Ordered(rest)
  BY DEF Except
<1>3. \A e \in rest : e \in S /\ e.key # key
  OBVIOUS
<1>4. \A f \in S : f.key # key => f \in rest
  OBVIOUS
<1> HIDE DEF rest
<1>5. /\ Leaves(Except(S, key), rest, V)
      /\ \A f \in rest : \E e \in Except(S, key) : Like(e, f)
  BY <1>1, <1>2, OrderedKeeps
<1>6. \A e \in Except(S, key) : \E f \in S : Like(e, f) /\ e.key # key
  BY <1>3, <1>5 DEF Leaves, Like
<1> QED BY <1>4, <1>5, <1>6 DEF Leaves

LEMMA PurgeKeeps ==
  ASSUME NEW V, NEW S, IsCache(S, V), NEW t
  PROVE  /\ Leaves(PurgeExpired(S, t), S, V)
         /\ \A e \in PurgeExpired(S, t) : e.deadline > t
         /\ \A f \in S : f.deadline > t => \E e \in PurgeExpired(S, t) : Like(e, f)
<1> DEFINE rest == {e \in S : e.deadline > t}
<1>1. IsCache(rest, V)
  BY PartIsCache
<1>2. PurgeExpired(S, t) = Ordered(rest)
  BY DEF PurgeExpired
<1>3. \A e \in rest : e \in S /\ e.deadline > t
  OBVIOUS
<1>4. \A f \in S : f.deadline > t => f \in rest
  OBVIOUS
<1> HIDE DEF rest
<1>5. /\ Leaves(PurgeExpired(S, t), rest, V)
      /\ \A f \in rest : \E e \in PurgeExpired(S, t) : Like(e, f)
  BY <1>1, <1>2, OrderedKeeps
<1>6. \A e \in PurgeExpired(S, t) : \E f \in S : Like(e, f) /\ e.deadline > t
  BY <1>3, <1>5 DEF Leaves, Like
<1> QED BY <1>4, <1>5, <1>6 DEF Leaves

\* An entry for a key that has none, at the last place.
LEMMA AddKeeps ==
  ASSUME NEW V, NEW S, IsCache(S, V), NEW new, new.key \in Key, new.value \in V, new.deadline \in Nat,
         new = Entry(new.key, new.value, new.deadline, Cardinality(S) + 1),
         \A e \in S : e.key # new.key
  PROVE  IsCache(S \cup {new}, V)
<1>1. Cardinality(S) + 1 \in Nat \ {0}
  BY FS_CardinalityType DEF IsCache
<1>2. new \in Entries(V)
  BY <1>1 DEF Entries, Entry
<1>3. IsFiniteSet(S \cup {new})
  BY FS_AddElement DEF IsCache
<1> QED BY <1>2, <1>3 DEF IsCache

LEMMA GotKeeps ==
  ASSUME NEW V, NEW S, IsCache(S, V), NEW key, NEW t
  PROVE  /\ Leaves(Got(S, key, t), S, V)
         /\ \A f \in S : f.key # key \/ f.deadline > t => \E e \in Got(S, key, t) : Like(e, f)
<1> DEFINE others == Except(S, key)
           last(e) == [e EXCEPT !.place = Cardinality(others) + 1]
<1>1. Got(S, key, t) = others \cup {last(e) : e \in Hit(S, key, t)}
  BY DEF Got
<1>2. /\ Leaves(others, S, V) /\ \A e \in others : e.key # key
      /\ \A f \in S : f.key # key => \E e \in others : Like(e, f)
  BY ExceptKeeps
<1>3. CASE Hit(S, key, t) = {}
  <2>1. \A f \in S : f.key = key => ~(f.deadline > t)
    BY <1>3 DEF Hit
  <2>2. Got(S, key, t) = others
    BY <1>1, <1>3
  <2> HIDE DEF others
  <2> QED BY <1>2, <2>1, <2>2
<1>4. ASSUME NEW h \in Hit(S, key, t) PROVE
        /\ Leaves(Got(S, key, t), S, V)
        /\ \A f \in S : f.key # key \/ f.deadline > t => \E e \in Got(S, key, t) : Like(e, f)
  <2>1. h \in S /\ h.key = key /\ \A f \in S : f.key = key => f = h
    BY <1>4 DEF Hit, IsCache
  <2>2. Hit(S, key, t) = {h}
    BY <1>4, <2>1 DEF Hit
  <2>3. Got(S, key, t) = others \cup {last(h)}
    BY <1>1, <2>2
  <2> HIDE DEF others
  <2>4. h \in Entries(V)
    BY <2>1 DEF IsCache
  <2>5. Like(last(h), h)
    BY <2>4 DEF Entries, Like
  <2>6. last(h) = Entry(h.key, h.value, h.deadline, Cardinality(others) + 1)
    BY <2>4 DEF Entries, Entry
  <2>7. h.key \in Key /\ h.value \in V /\ h.deadline \in Nat
    BY <2>4 DEF Entries
  <2> HIDE DEF last
  <2>8. IsCache(others \cup {last(h)}, V)
    BY <1>2, <2>1, <2>5, <2>6, <2>7, AddKeeps DEF Leaves, Like
  <2> QED BY <1>2, <2>1, <2>3, <2>5, <2>8 DEF Leaves
<1> QED BY <1>3, <1>4

\* put: the new entry is there, and nothing else goes that has not expired while there is room.
LEMMA PutKeeps ==
  ASSUME CacheAssumption, NEW V, NEW S, IsCache(S, V), NEW key \in Key, NEW value \in V,
         NEW t \in Nat, NEW ttl \in Nat
  PROVE  LET live == PutFirst(S, key, value, t, ttl)
             T == Put(S, key, value, t, ttl)
             new == Entry(key, value, t + ttl, 0)
         IN /\ IsCache(live, V) /\ IsCache(T, V)
            /\ \A e \in live \cup T : \/ Like(e, new)
                                      \/ e.key # key /\ e.deadline > t /\ \E f \in S : Like(e, f)
            /\ \E e \in T : Like(e, new)
            /\ Cardinality(live) <= MaxSize =>
                 \A f \in S : f.key # key /\ f.deadline > t => \E e \in T : Like(e, f)
<1> DEFINE live == PutFirst(S, key, value, t, ttl)
           T == Put(S, key, value, t, ttl)
           purged == PurgeExpired(S, t)
           others == Except(purged, key)
           new == Entry(key, value, t + ttl, Cardinality(others) + 1)
           kept == {e \in live : e.place > Cardinality(live) - MaxSize}
<1>1. live = others \cup {new} /\ T = Ordered(kept)
  BY DEF PutFirst, Put
<1>2. /\ Leaves(purged, S, V) /\ \A e \in purged : e.deadline > t
      /\ \A f \in S : f.deadline > t => \E e \in purged : Like(e, f)
  BY PurgeKeeps
<1>3. IsCache(purged, V)
  BY <1>2 DEF Leaves
<1>4. /\ Leaves(others, purged, V) /\ \A e \in others : e.key # key
      /\ \A f \in purged : f.key # key => \E e \in others : Like(e, f)
  BY <1>3, ExceptKeeps
<1> HIDE DEF purged
<1>5. \A e \in others : e.key # key /\ e.deadline > t /\ \E f \in S : Like(e, f)
  BY <1>2, <1>4 DEF Leaves, Like
<1>6. \A f \in S : f.key # key /\ f.deadline > t => \E e \in others : Like(e, f)
  BY <1>2, <1>4 DEF Like
<1>7. IsCache(others, V)
  BY <1>4 DEF Leaves
<1> HIDE DEF others
<1>8. /\ new.key = key /\ new.value = value /\ new.deadline = t + ttl
      /\ new.place = Cardinality(others) + 1 /\ Like(new, Entry(key, value, t + ttl, 0))
  BY DEF Entry, Like
<1>9. IsCache(live, V)
  <2>1. new = Entry(new.key, new.value, new.deadline, Cardinality(others) + 1)
    BY <1>8
  <2>2. new.key \in Key /\ new.value \in V /\ new.deadline \in Nat
    BY <1>8
  <2> HIDE DEF new
  <2> QED BY <1>1, <1>5, <1>7, <1>8, <2>1, <2>2, AddKeeps
<1>10. Cardinality(live) = Cardinality(others) + 1 /\ Cardinality(others) \in Nat
  <2>1. new \notin others
    BY <1>5, <1>8
  <2> QED BY <1>1, <1>7, <2>1, FS_AddElement, FS_CardinalityType DEF IsCache
<1> HIDE DEF new, live
<1>11. kept \subseteq live /\ new \in kept
  BY <1>1, <1>8, <1>10, CacheAssumption
<1>12. Cardinality(live) <= MaxSize => live \subseteq kept
  <2>1. \A e \in live : e.place \in Nat \ {0}
    BY <1>9 DEF IsCache, Entries
  <2> QED BY <1>10, <2>1, CacheAssumption
<1>13. IsCache(kept, V)
  BY <1>9, <1>11, PartIsCache
<1> HIDE DEF kept
<1>14. /\ Leaves(T, kept, V) /\ \A f \in kept : \E e \in T : Like(e, f)
  BY <1>1, <1>13, OrderedKeeps
<1> HIDE DEF T
<1>15. \A e \in live : \/ Like(e, Entry(key, value, t + ttl, 0))
                       \/ e.key # key /\ e.deadline > t /\ \E f \in S : Like(e, f)
  BY <1>1, <1>5, <1>8
<1>16. \A e \in T : \E f \in live : Like(e, f)
  BY <1>11, <1>14 DEF Leaves
<1>17. \A e \in T : \/ Like(e, Entry(key, value, t + ttl, 0))
                    \/ e.key # key /\ e.deadline > t /\ \E f \in S : Like(e, f)
  BY <1>15, <1>16 DEF Like
<1>18. \E e \in T : Like(e, Entry(key, value, t + ttl, 0))
  BY <1>8, <1>11, <1>14 DEF Like
<1>19. Cardinality(live) <= MaxSize =>
         \A f \in S : f.key # key /\ f.deadline > t => \E e \in T : Like(e, f)
  BY <1>1, <1>6, <1>12, <1>14 DEF Like
<1> QED
  BY <1>9, <1>14, <1>15, <1>17, <1>18, <1>19 DEF Leaves, T, live

-----------------------------------------------------------------------------
CaptchaTypeOK ==
  /\ codes \in Seq([key : Key, at : Nat]) /\ clock \in Nat
  /\ \A c \in Code : codes[c].at <= clock
  /\ IsCache(items, Code)
  /\ sending \in [Sender -> Code \cup {0}]
  /\ delivered \subseteq Code /\ refused \subseteq Code /\ contested \subseteq Code
  /\ accepted \in Seq([code : Code, resource : Key, at : Nat])

(* An entry is of its key and ends with its code; a code that was used is not cached.    *)
EntriesAreTrue ==
  \A e \in items :
    /\ codes[e.value].key = e.key /\ e.deadline = codes[e.value].at + Ttl
    /\ \A i \in DOMAIN accepted : accepted[i].code # e.value

(* A code requested while an earlier one for its key is being sent is contested.         *)
LaterAreContested ==
  \A s \in Sender : sending[s] # 0 =>
    \A c \in Code : c > sending[s] /\ codes[c].key = codes[sending[s]].key => c \in contested

(* The same as LatestUsable of codes still under way, too.                               *)
Usable(c) ==
  /\ \A i \in DOMAIN accepted : accepted[i].code # c
  /\ \A d \in Code : codes[d].key = codes[c].key => d <= c
  /\ clock < codes[c].at + Ttl
  /\ Cardinality(Rivals(c)) <= MaxSize
LatestIsCached ==
  \A c \in Code \ (refused \cup contested) :
    Usable(c) => \E e \in items : e.key = codes[c].key /\ e.value = c

CaptchaInv ==
  CaptchaTypeOK /\ EntriesAreTrue /\ LaterAreContested /\ LatestIsCached /\ NothingElse

-----------------------------------------------------------------------------
LEMMA AfterKeeps ==
  ASSUME NEW S, IsCache(S, Code), NEW key, NEW code
  PROVE  /\ Leaves(After(S, key, code), S, Code)
         /\ Matches(S, key, code) => \A e \in After(S, key, code) : e.key # key
         /\ \A f \in S : /\ f.key = key => f.deadline > clock /\ ~Matches(S, key, code)
                         => \E e \in After(S, key, code) : Like(e, f)
<1> DEFINE got == Got(S, key, clock)
           rest == Except(got, key)
<1>1. /\ Leaves(got, S, Code)
      /\ \A f \in S : f.key # key \/ f.deadline > clock => \E e \in got : Like(e, f)
  BY GotKeeps
<1> HIDE DEF got
<1>2. /\ Leaves(rest, got, Code) /\ \A e \in rest : e.key # key
      /\ \A f \in got : f.key # key => \E e \in rest : Like(e, f)
  BY <1>1, ExceptKeeps DEF Leaves
<1> HIDE DEF rest
<1>3. After(S, key, code) = IF Matches(S, key, code) THEN rest ELSE got
  BY DEF After, Removed, got, rest
<1>4. Leaves(rest, S, Code)
  BY <1>1, <1>2 DEF Leaves, Like
<1>5. \A f \in S : f.key # key => \E e \in rest : Like(e, f)
  BY <1>1, <1>2 DEF Like
<1> QED BY <1>1, <1>2, <1>3, <1>4, <1>5

\* What verify_captcha leaves in the cache and what it answers.
LEMMA VerifyKeeps ==
  ASSUME CaptchaTypeOK, EntriesAreTrue, NEW resource \in Key, NEW code, Verify(resource, code)
  PROVE  /\ Leaves(items', items, Code)
         /\ \/ /\ accepted' = accepted
               /\ \A f \in items : f.deadline > clock => \E e \in items' : Like(e, f)
            \/ /\ accepted' = Append(accepted, [code |-> code, resource |-> resource, at |-> clock])
               /\ \E h \in items : h.value = code /\ h.deadline > clock /\ h.key \in {resource, Any}
               /\ \A e \in items' : e.value # code
               /\ \A f \in items : f.deadline > clock /\ f.value # code =>
                    \E e \in items' : Like(e, f)
<1> DEFINE rest == After(items, resource, code)
<1>1. IsCache(items, Code) /\ \A f \in items : codes[f.value].key = f.key
  BY DEF CaptchaTypeOK, EntriesAreTrue
<1>2. /\ Leaves(rest, items, Code)
      /\ Matches(items, resource, code) => \A e \in rest : e.key # resource
      /\ \A f \in items : /\ f.key = resource => f.deadline > clock /\ ~Matches(items, resource, code)
                          => \E e \in rest : Like(e, f)
  BY <1>1, AfterKeeps
<1> HIDE DEF rest
<1>3. CASE Matches(items, resource, code)
  <2>1. PICK h \in items : h.key = resource /\ h.deadline > clock /\ h.value = code
    BY <1>3 DEF Matches, Hit
  <2>2. items' = rest
        /\ accepted' = Append(accepted, [code |-> code, resource |-> resource, at |-> clock])
    BY <1>3 DEF Verify, rest
  <2>3. \A e \in rest : e.value # code
    BY <1>1, <1>2, <1>3, <2>1 DEF Leaves, Like
  <2>4. \A f \in items : f.value # code => f.key # resource
    BY <1>1, <2>1 DEF IsCache
  <2> QED BY <1>2, <2>1, <2>2, <2>3, <2>4
<1>4. CASE ~Matches(items, resource, code)
  <2> DEFINE left == After(rest, Any, code)
  <2>1. /\ Leaves(left, rest, Code)
        /\ Matches(rest, Any, code) => \A e \in left : e.key # Any
        /\ \A f \in rest : /\ f.key = Any => f.deadline > clock /\ ~Matches(rest, Any, code)
                           => \E e \in left : Like(e, f)
    BY <1>2, AfterKeeps DEF Leaves
  <2>2. items' = left
    BY <1>4 DEF Verify, rest, left
  <2> HIDE DEF left
  <2>3. Leaves(left, items, Code)
    BY <1>2, <2>1 DEF Leaves, Like
  <2>4. CASE Matches(rest, Any, code)
    <3>1. PICK h \in rest : h.key = Any /\ h.deadline > clock /\ h.value = code
      BY <2>4 DEF Matches, Hit
    <3>2. accepted' = Append(accepted, [code |-> code, resource |-> resource, at |-> clock])
      BY <1>4, <2>4 DEF Verify, rest
    <3>3. PICK g \in items : Like(h, g)
      BY <1>2, <3>1 DEF Leaves
    <3>4. g.key = Any /\ g.deadline > clock /\ g.value = code
      BY <3>1, <3>3 DEF Like
    <3>5. \A e \in left : e.value # code
      BY <1>1, <2>1, <2>3, <2>4, <3>4 DEF Leaves, Like
    <3>6. \A f \in items : f.value # code => f.key # Any
      BY <1>1, <3>4 DEF IsCache
    <3>7. \A f \in items : f.deadline > clock /\ f.value # code => \E e \in left : Like(e, f)
      BY <1>2, <1>4, <2>1, <3>6 DEF Like
    <3> QED BY <2>2, <2>3, <3>2, <3>4, <3>5, <3>7
  <2>5. CASE ~Matches(rest, Any, code)
    <3>1. accepted' = accepted
      BY <1>4, <2>5 DEF Verify, rest
    <3>2. \A f \in items : f.deadline > clock => \E e \in left : Like(e, f)
      BY <1>2, <1>4, <2>1, <2>5 DEF Like
    <3> QED BY <2>2, <2>3, <3>1, <3>2
  <2> QED BY <2>4, <2>5
<1> QED BY <1>3, <1>4

-----------------------------------------------------------------------------
LEMMA SeqElements ==
  ASSUME NEW S, NEW s \in Seq(S)
  PROVE  /\ Len(s) \in Nat /\ DOMAIN s = 1..Len(s) /\ \A i \in 1..Len(s) : s[i] \in S
         /\ \A T : S \subseteq T => s \in Seq(T)
  OBVIOUS

\* (Stated of any sequence of codes, for the one before a step and the one after it.)
KeysSince(seq, c) == {seq[d].key : d \in {d \in 1..Len(seq) : seq[d].at + Ttl > seq[c].at}}
LEMMA RivalsFinite ==
  ASSUME NEW seq, Len(seq) \in Nat, NEW c PROVE IsFiniteSet(KeysSince(seq, c))
<1> DEFINE D == {d \in 1..Len(seq) : seq[d].at + Ttl > seq[c].at}
           f == [d \in D |-> seq[d].key]
<1>1. IsFiniteSet(1..Len(seq))
  BY FS_Interval
<1>2. IsFiniteSet(D)
  BY <1>1, FS_Subset
<1>3. KeysSince(seq, c) = {seq[d].key : d \in D}
  BY DEF KeysSince
<1> HIDE DEF D
<1>4. f \in Surjection(D, KeysSince(seq, c))
  BY <1>3 DEF Surjection
<1> QED BY <1>2, <1>4, FS_Surjection

\* A cache has no more entries than keys it may have them for.
LEMMA NoMoreThanKeys ==
  ASSUME NEW V, NEW S, IsCache(S, V), NEW T, IsFiniteSet(T), \A e \in S : e.key \in T
  PROVE  Cardinality(S) <= Cardinality(T)
<1> DEFINE f == [e \in S |-> e.key]
<1>1. f \in Injection(S, T)
  BY DEF IsCache, Injection, IsInjective
<1> QED BY <1>1, FS_Injection

-----------------------------------------------------------------------------
LEMMA MoreCodes == ASSUME NEW V, NEW W, V \subseteq W, NEW S, IsCache(S, V) PROVE IsCache(S, W)
  BY DEF IsCache, Entries

LEMMA SendKeepsInv ==
  ASSUME CaptchaInv, NEW s \in Sender, NEW key \in Key, SendCaptcha(s, key)
  PROVE  CaptchaInv'
<1> USE CaptchaAssumption, CacheAssumption
<1> DEFINE n == Len(codes) + 1
           new == Entry(key, n, clock + Ttl, 0)
           live == PutFirst(items, key, n, clock, Ttl)
<1>1. /\ codes \in Seq([key : Key, at : Nat]) /\ clock \in Nat /\ IsCache(items, Code)
      /\ \A c \in Code : codes[c].at <= clock /\ codes[c] \in [key : Key, at : Nat]
      /\ sending \in [Sender -> Code \cup {0}]
      /\ accepted \in Seq([code : Code, resource : Key, at : Nat])
  <2>1. /\ codes \in Seq([key : Key, at : Nat]) /\ clock \in Nat /\ IsCache(items, Code)
        /\ \A c \in Code : codes[c].at <= clock
        /\ sending \in [Sender -> Code \cup {0}]
        /\ accepted \in Seq([code : Code, resource : Key, at : Nat])
    BY DEF CaptchaInv, CaptchaTypeOK
  <2>2. \A c \in 1..Len(codes) : codes[c] \in [key : Key, at : Nat]
    BY <2>1, SeqElements
  <2> QED BY <2>1, <2>2 DEF Code
<1>2. /\ codes' = Append(codes, [key |-> key, at |-> clock]) /\ Len(codes') = n
      /\ items' = Put(items, key, n, clock, Ttl) /\ sending' = [sending EXCEPT ![s] = n]
      /\ UNCHANGED <<clock, delivered, refused, accepted>>
  BY <1>1 DEF SendCaptcha
<1>3. /\ n \in Nat \ {0} /\ n \notin Code /\ Code' = Code \cup {n} /\ \A c \in Code : c \in Nat /\ c < n
      /\ codes'[n].key = key /\ codes'[n].at = clock
      /\ \A c \in Code : codes'[c] = codes[c]
  BY <1>1, <1>2 DEF Code
<1>4. codes' \in Seq([key : Key, at : Nat])
  BY <1>1, <1>2
<1>5. IsCache(items, Code')
  BY <1>1, <1>3, MoreCodes
<1> HIDE DEF n
<1>6. /\ IsCache(live, Code') /\ IsCache(items', Code')
      /\ \A e \in live \cup items' :
           \/ Like(e, new)
           \/ e.key # key /\ e.deadline > clock /\ \E f \in items : Like(e, f)
      /\ \E e \in items' : Like(e, new)
      /\ Cardinality(live) <= MaxSize =>
           \A f \in items : f.key # key /\ f.deadline > clock => \E e \in items' : Like(e, f)
  <2>1. n \in Code' /\ clock \in Nat /\ Ttl \in Nat
    BY <1>1, <1>3
  <2>2. /\ IsCache(live, Code') /\ IsCache(Put(items, key, n, clock, Ttl), Code')
        /\ \A e \in live \cup Put(items, key, n, clock, Ttl) :
             \/ Like(e, new)
             \/ e.key # key /\ e.deadline > clock /\ \E f \in items : Like(e, f)
        /\ \E e \in Put(items, key, n, clock, Ttl) : Like(e, new)
        /\ Cardinality(live) <= MaxSize =>
             \A f \in items : f.key # key /\ f.deadline > clock =>
               \E e \in Put(items, key, n, clock, Ttl) : Like(e, f)
    BY <1>5, <2>1, PutKeeps
  <2> QED BY <1>2, <2>2
<1> HIDE DEF live
<1>7. new.key = key /\ new.value = n /\ new.deadline = clock + Ttl
  BY DEF Entry
<1> HIDE DEF new
<1>8. CaptchaTypeOK'
  <2>1. contested' \subseteq Code'
    <3>1. contested \subseteq Code
      BY DEF CaptchaInv, CaptchaTypeOK
    <3>2. {sending[r] : r \in Sender} \ {0} \subseteq Code
      BY <1>1
    <3> QED BY <1>2, <1>3, <3>1, <3>2 DEF SendCaptcha
  <2>2. \A c \in Code' : codes'[c].at <= clock'
    <3> SUFFICES ASSUME NEW c \in Code' PROVE codes'[c].at <= clock'
      OBVIOUS
    <3>1. CASE c = n
      BY <1>1, <1>2, <1>3, <3>1
    <3>2. CASE c \in Code
      BY <1>1, <1>2, <1>3, <3>2
    <3> QED BY <1>3, <3>1, <3>2
  <2>3. sending' \in [Sender -> Code' \cup {0}]
    BY <1>1, <1>2, <1>3
  <2>4. accepted' \in Seq([code : Code', resource : Key, at : Nat])
    <3>1. [code : Code, resource : Key, at : Nat] \subseteq [code : Code', resource : Key, at : Nat]
      BY <1>3
    <3>2. accepted \in Seq([code : Code, resource : Key, at : Nat]) /\ accepted' = accepted
      BY <1>1, <1>2
    <3> QED BY <3>1, <3>2, SeqElements
  <2>5. delivered' \subseteq Code' /\ refused' \subseteq Code'
    BY <1>2, <1>3 DEF CaptchaInv, CaptchaTypeOK
  <2> QED BY <1>1, <1>2, <1>4, <1>6, <2>1, <2>2, <2>3, <2>4, <2>5 DEF CaptchaTypeOK
<1>9. \A f \in items : /\ f.value \in Code /\ codes[f.value].key = f.key
                       /\ f.deadline = codes[f.value].at + Ttl
                       /\ \A i \in DOMAIN accepted : accepted[i].code # f.value
  BY <1>1 DEF CaptchaInv, EntriesAreTrue, IsCache, Entries
<1>10. \A i \in DOMAIN accepted : accepted[i].code \in Code
  <2>1. accepted \in Seq([code : Code, resource : Key, at : Nat])
    BY <1>1
  <2>2. \A i \in DOMAIN accepted : accepted[i] \in [code : Code, resource : Key, at : Nat]
    BY <2>1, SeqElements
  <2> QED BY <2>2
<1>11. \A e \in live \cup items' :
         /\ codes'[e.value].key = e.key /\ e.deadline = codes'[e.value].at + Ttl
         /\ e.value \in Code' /\ e.deadline > clock
         /\ \A i \in DOMAIN accepted : accepted[i].code # e.value
  <2> SUFFICES ASSUME NEW e \in live \cup items'
               PROVE  /\ codes'[e.value].key = e.key /\ e.deadline = codes'[e.value].at + Ttl
                      /\ e.value \in Code' /\ e.deadline > clock
                      /\ \A i \in DOMAIN accepted : accepted[i].code # e.value
    OBVIOUS
  <2>1. CASE Like(e, new)
    BY <1>1, <1>3, <1>7, <1>10, <2>1 DEF Like
  <2>2. CASE e.key # key /\ e.deadline > clock /\ \E f \in items : Like(e, f)
    BY <1>3, <1>9, <2>2 DEF Like
  <2> QED BY <1>6, <2>1, <2>2
<1>12. EntriesAreTrue'
  BY <1>2, <1>11 DEF EntriesAreTrue
<1>13. LaterAreContested'
  <2> SUFFICES ASSUME NEW r \in Sender, sending'[r] # 0, NEW c \in Code', c > sending'[r],
                      codes'[c].key = codes'[sending'[r]].key
               PROVE  c \in contested'
    BY DEF LaterAreContested
  <2>1. r # s /\ sending'[r] = sending[r] /\ sending[r] \in Code
    BY <1>1, <1>2, <1>3
  <2>2. CASE c = n
    <3>1. codes[sending[r]].key = key
      BY <1>3, <2>1, <2>2
    <3>2. sending[r] \in {d \in {sending[q] : q \in Sender} \ {0} : codes[d].key = key}
      BY <2>1, <3>1
    <3>3. contested' = contested \cup {d \in {sending[q] : q \in Sender} \ {0} : codes[d].key = key}
                                 \cup {n}
      BY <1>2, <3>2 DEF SendCaptcha
    <3> QED BY <2>2, <3>3
  <2>3. CASE c \in Code
    <3>1. c \in contested
      BY <1>3, <2>1, <2>3 DEF CaptchaInv, LaterAreContested
    <3> QED BY <3>1 DEF SendCaptcha
  <2> QED BY <1>3, <2>2, <2>3
<1>14. LatestIsCached'
  <2> SUFFICES ASSUME NEW c \in Code', c \notin refused', c \notin contested', Usable(c)'
               PROVE  \E e \in items' : e.key = codes'[c].key /\ e.value = c
    BY DEF LatestIsCached
  <2>1. CASE c = n
    BY <1>3, <1>6, <1>7, <2>1 DEF Like
  <2>2. CASE c \in Code
    <3>1. Rivals(c) \subseteq Rivals(c)' /\ IsFiniteSet(Rivals(c)')
      <4>1. Rivals(c)' = KeysSince(codes', c)
        BY DEF Rivals, KeysSince, Code
      <4>2. IsFiniteSet(KeysSince(codes', c))
        BY <1>2, <1>3, RivalsFinite
      <4>3. Rivals(c) \subseteq Rivals(c)'
        BY <1>3, <2>2 DEF Rivals
      <4> QED BY <4>1, <4>2, <4>3
    <3>2. Cardinality(Rivals(c)') <= MaxSize
      BY DEF Usable
    <3>3. Cardinality(Rivals(c)) <= MaxSize
      BY <3>1, <3>2, FS_Subset, FS_CardinalityType
    <3>4. c \notin refused /\ c \notin contested
      BY <1>2 DEF SendCaptcha
    <3>5. Usable(c) /\ codes[c].key # key
      <4>1. /\ \A i \in DOMAIN accepted' : accepted'[i].code # c
            /\ \A d \in Code' : codes'[d].key = codes'[c].key => d <= c
            /\ clock' < codes'[c].at + Ttl
        BY DEF Usable
      <4>2. codes'[c] = codes[c] /\ ~(n <= c)
        BY <1>3, <2>2
      <4>3. codes[c].key # key
        BY <1>3, <4>1, <4>2
      <4>4. \A d \in Code : codes[d].key = codes[c].key => d <= c
        BY <1>3, <4>1, <4>2
      <4> QED BY <1>2, <3>3, <4>1, <4>2, <4>3, <4>4 DEF Usable
    <3>6. PICK f \in items : f.key = codes[c].key /\ f.value = c
      BY <2>2, <3>4, <3>5 DEF CaptchaInv, LatestIsCached
    <3>7. f.deadline > clock
      BY <1>9, <3>5, <3>6 DEF Usable
    <3>8. \A e \in live : e.key \in Rivals(c)'
      <4> SUFFICES ASSUME NEW e \in live PROVE e.key \in Rivals(c)'
        OBVIOUS
      <4>1. /\ e.value \in Code' /\ codes'[e.value].key = e.key
            /\ codes'[e.value].at + Ttl > clock
        BY <1>11
      <4>2. codes'[c].at <= clock /\ codes'[c].at \in Nat
        BY <1>1, <1>3, <2>2
      <4>3. codes'[e.value].at \in Nat
        BY <1>1, <1>3, <4>1
      <4>4. codes'[e.value].at + Ttl > codes'[c].at
        <5>1. PICK a, b : a = codes'[c].at /\ b = codes'[e.value].at
          OBVIOUS
        <5>2. a \in Nat /\ b \in Nat /\ a <= clock /\ b + Ttl > clock
          BY <4>1, <4>2, <4>3, <5>1
        <5>3. clock \in Nat /\ Ttl \in Nat
          BY <1>1
        <5>4. b + Ttl > a
          BY <5>2, <5>3
        <5> QED BY <5>1, <5>4
      <4> QED BY <4>1, <4>4 DEF Rivals
    <3>9. Cardinality(live) <= MaxSize
      <4>1. Cardinality(live) <= Cardinality(Rivals(c)')
        BY <1>6, <3>1, <3>8, NoMoreThanKeys
      <4> QED BY <1>6, <3>1, <3>2, <4>1, FS_CardinalityType DEF IsCache
    <3> QED BY <1>3, <1>6, <2>2, <3>5, <3>6, <3>7, <3>9 DEF Like
  <2> QED BY <1>3, <2>1, <2>2
<1>15. NothingElse'
  <2>1. UsedOnce'
    BY <1>2 DEF CaptchaInv, NothingElse, UsedOnce
  <2>2. OnlyWhatItIsFor'
    BY <1>2, <1>3, <1>10 DEF CaptchaInv, NothingElse, OnlyWhatItIsFor
  <2> QED BY <2>1, <2>2 DEF NothingElse
<1> QED BY <1>8, <1>12, <1>13, <1>14, <1>15 DEF CaptchaInv

LEMMA SentKeepsInv == ASSUME CaptchaInv, NEW s \in Sender, Sent(s) PROVE CaptchaInv'
<1>1. /\ UNCHANGED <<items, clock, codes, refused, contested, accepted>>
      /\ sending' = [sending EXCEPT ![s] = 0] /\ delivered' = delivered \cup {sending[s]}
      /\ sending[s] # 0
  BY DEF Sent
<1>2. CaptchaTypeOK'
  BY <1>1 DEF CaptchaInv, CaptchaTypeOK, Code
<1>3. LaterAreContested'
  BY <1>1 DEF CaptchaInv, CaptchaTypeOK, LaterAreContested, Code
<1>4. LatestIsCached' /\ EntriesAreTrue'
  BY <1>1 DEF CaptchaInv, LatestIsCached, EntriesAreTrue, Usable, Rivals, Code
<1>5. NothingElse'
  BY <1>1 DEF CaptchaInv, NothingElse, UsedOnce, OnlyWhatItIsFor
<1> QED BY <1>2, <1>3, <1>4, <1>5 DEF CaptchaInv

LEMMA NotSentKeepsInv == ASSUME CaptchaInv, NEW s \in Sender, NotSent(s) PROVE CaptchaInv'
<1> DEFINE failed == sending[s]
<1>1. /\ UNCHANGED <<clock, codes, contested, accepted>>
      /\ sending' = [sending EXCEPT ![s] = 0] /\ delivered' \subseteq delivered \cup {failed}
      /\ failed # 0 /\ refused' = refused \cup {failed}
      /\ items' = Except(items, codes[failed].key)
  BY DEF NotSent, Removed
<1>2. failed \in Code /\ IsCache(items, Code)
  BY <1>1 DEF CaptchaInv, CaptchaTypeOK
<1>3. /\ Leaves(items', items, Code)
      /\ \A f \in items : f.key # codes[failed].key => \E e \in items' : Like(e, f)
  BY <1>1, <1>2, ExceptKeeps
<1>4. CaptchaTypeOK'
  BY <1>1, <1>2, <1>3 DEF CaptchaInv, CaptchaTypeOK, Code, Leaves
<1>5. LaterAreContested'
  BY <1>1 DEF CaptchaInv, CaptchaTypeOK, LaterAreContested, Code
<1>6. EntriesAreTrue'
  BY <1>1, <1>3 DEF CaptchaInv, EntriesAreTrue, Leaves, Like
<1>7. LatestIsCached'
  <2> SUFFICES ASSUME NEW c \in Code, c \notin refused', c \notin contested, Usable(c)
               PROVE  \E e \in items' : e.key = codes[c].key /\ e.value = c
    BY <1>1 DEF LatestIsCached, Usable, Rivals, Code
  <2>1. c # failed /\ c \notin refused
    BY <1>1
  <2>2. codes[c].key # codes[failed].key
    <3>1. codes[failed].key = codes[c].key => failed <= c
      BY <1>2 DEF Usable
    <3>2. c \in Nat /\ failed \in Nat
      BY <1>2 DEF Code
    <3>3. c > failed /\ codes[c].key = codes[failed].key => c \in contested
      BY <1>1 DEF CaptchaInv, LaterAreContested
    <3> HIDE DEF failed
    <3> QED BY <2>1, <3>1, <3>2, <3>3
  <2>3. PICK f \in items : f.key = codes[c].key /\ f.value = c
    BY <2>1 DEF CaptchaInv, LatestIsCached
  <2> QED BY <1>3, <2>2, <2>3 DEF Like
<1>8. NothingElse'
  BY <1>1 DEF CaptchaInv, NothingElse, UsedOnce, OnlyWhatItIsFor
<1> QED BY <1>4, <1>5, <1>6, <1>7, <1>8 DEF CaptchaInv

LEMMA DestroyKeepsInv ==
  ASSUME CaptchaInv, NEW resource \in Key, NEW code \in delivered, Destroy(resource, code)
  PROVE  CaptchaInv'
<1> DEFINE use == [code |-> code, resource |-> resource, at |-> clock]
<1>1. UNCHANGED <<clock, sending, codes, delivered, refused, contested>> /\ Verify(resource, code)
  BY DEF Destroy
<1>2. /\ accepted \in Seq([code : Code, resource : Key, at : Nat])
      /\ use \in [code : Code, resource : Key, at : Nat]
      /\ Code' = Code /\ code \in Code
  BY <1>1 DEF CaptchaInv, CaptchaTypeOK, Code
<1>3. CaptchaTypeOK /\ EntriesAreTrue
  BY DEF CaptchaInv
<1>4. /\ Leaves(items', items, Code)
      /\ \/ /\ accepted' = accepted
            /\ \A f \in items : f.deadline > clock => \E e \in items' : Like(e, f)
         \/ /\ accepted' = Append(accepted, use)
            /\ \E h \in items : h.value = code /\ h.deadline > clock /\ h.key \in {resource, Any}
            /\ \A e \in items' : e.value # code
            /\ \A f \in items : f.deadline > clock /\ f.value # code =>
                 \E e \in items' : Like(e, f)
  BY <1>1, <1>3, VerifyKeeps
<1> DEFINE n == Len(accepted) + 1
<1>5. accepted' = Append(accepted, use) =>
        /\ DOMAIN accepted' = DOMAIN accepted \cup {n} /\ n \notin DOMAIN accepted
        /\ accepted'[n] = use /\ \A i \in DOMAIN accepted : accepted'[i] = accepted[i]
  BY <1>2
<1>6. accepted' \in Seq([code : Code, resource : Key, at : Nat])
  <2> DEFINE U == [code : Code, resource : Key, at : Nat]
  <2>1. accepted \in Seq(U) /\ use \in U
    BY <1>2
  <2> HIDE DEF use, U
  <2>2. Append(accepted, use) \in Seq(U)
    BY <2>1
  <2>3. accepted' \in Seq(U)
    BY <1>4, <2>1, <2>2
  <2> QED BY <2>3 DEF U
<1>7. /\ use.code = code /\ use.resource = resource /\ use.at = clock
  OBVIOUS
<1> HIDE DEF use, n
<1>8. CaptchaTypeOK'
  BY <1>1, <1>2, <1>4, <1>6 DEF CaptchaInv, CaptchaTypeOK, Leaves
<1>9. LaterAreContested'
  BY <1>1, <1>2 DEF CaptchaInv, LaterAreContested
<1>10. EntriesAreTrue'
  <2> SUFFICES ASSUME NEW e \in items'
               PROVE  /\ codes[e.value].key = e.key /\ e.deadline = codes[e.value].at + Ttl
                      /\ \A i \in DOMAIN accepted' : accepted'[i].code # e.value
    BY <1>1 DEF EntriesAreTrue
  <2>1. PICK f \in items : Like(e, f)
    BY <1>4 DEF Leaves
  <2>2. /\ codes[e.value].key = e.key /\ e.deadline = codes[e.value].at + Ttl
        /\ \A i \in DOMAIN accepted : accepted[i].code # e.value
    BY <1>3, <2>1 DEF EntriesAreTrue, Like
  <2>3. CASE accepted' = accepted
    BY <2>2, <2>3
  <2>4. CASE accepted' = Append(accepted, use) /\ e.value # code
    BY <1>5, <1>7, <2>2, <2>4
  <2> QED BY <1>4, <2>2, <2>3, <2>4
<1>11. LatestIsCached'
  <2> SUFFICES ASSUME NEW c \in Code, c \notin refused, c \notin contested, Usable(c)'
               PROVE  \E e \in items' : e.key = codes[c].key /\ e.value = c
    BY <1>1, <1>2 DEF LatestIsCached
  <2>1. /\ \A i \in DOMAIN accepted' : accepted'[i].code # c
        /\ \A d \in Code : codes[d].key = codes[c].key => d <= c
        /\ clock < codes[c].at + Ttl /\ Cardinality(Rivals(c)) <= MaxSize
    BY <1>1, <1>2 DEF Usable, Rivals
  <2>2. \A i \in DOMAIN accepted : accepted[i].code # c
    BY <1>4, <1>5, <2>1
  <2>3. PICK f \in items : f.key = codes[c].key /\ f.value = c
    BY <2>1, <2>2 DEF CaptchaInv, LatestIsCached, Usable
  <2>4. f.deadline > clock
    BY <1>3, <2>1, <2>3 DEF EntriesAreTrue
  <2>5. CASE accepted' = accepted
    BY <1>4, <2>3, <2>4, <2>5 DEF Like
  <2>6. CASE accepted' = Append(accepted, use)
    <3>1. c # code
      BY <1>5, <1>7, <2>1, <2>6
    <3> QED BY <1>4, <2>3, <2>4, <3>1 DEF Like
  <2> QED BY <1>4, <2>5, <2>6
<1>12. NothingElse'
  <2>1. CASE accepted' = accepted
    BY <1>1, <2>1 DEF CaptchaInv, NothingElse, UsedOnce, OnlyWhatItIsFor
  <2>2. CASE /\ accepted' = Append(accepted, use)
             /\ \E h \in items : h.value = code /\ h.deadline > clock /\ h.key \in {resource, Any}
    <3>1. PICK h \in items : h.value = code /\ h.deadline > clock /\ h.key \in {resource, Any}
      BY <2>2
    <3>2. /\ codes[code].key \in {resource, Any} /\ clock < codes[code].at + Ttl
          /\ \A i \in DOMAIN accepted : accepted[i].code # code
      BY <1>3, <3>1 DEF EntriesAreTrue
    <3>3. UsedOnce'
      <4>1. UsedOnce
        BY DEF CaptchaInv, NothingElse
      <4> QED BY <1>5, <1>7, <2>2, <3>2, <4>1 DEF UsedOnce
    <3>4. OnlyWhatItIsFor'
      <4>1. OnlyWhatItIsFor
        BY DEF CaptchaInv, NothingElse
      <4>2. \A i \in DOMAIN accepted' :
              /\ codes[accepted'[i].code].key \in {accepted'[i].resource, Any}
              /\ accepted'[i].at < codes[accepted'[i].code].at + Ttl
        BY <1>5, <1>7, <2>2, <3>2, <4>1 DEF OnlyWhatItIsFor
      <4> QED BY <1>1, <4>2 DEF OnlyWhatItIsFor
    <3> QED BY <3>3, <3>4 DEF NothingElse
  <2> QED BY <1>4, <2>1, <2>2
<1> QED BY <1>8, <1>9, <1>10, <1>11, <1>12 DEF CaptchaInv

LEMMA ElapseKeepsInv == ASSUME CaptchaInv, Elapse PROVE CaptchaInv'
<1> USE CaptchaAssumption
<1>1. /\ clock' = clock + 1 /\ clock \in Nat
      /\ UNCHANGED <<items, sending, codes, delivered, refused, contested, accepted>>
  BY DEF Elapse, CaptchaInv, CaptchaTypeOK
<1>2. CaptchaTypeOK'
  <2>1. \A c \in Code : codes[c].at \in Nat
    <3>1. \A c \in 1..Len(codes) : codes[c] \in [key : Key, at : Nat]
      BY SeqElements DEF CaptchaInv, CaptchaTypeOK
    <3> QED BY <3>1 DEF Code
  <2> QED BY <1>1, <2>1 DEF CaptchaInv, CaptchaTypeOK, Code
<1>3. LaterAreContested' /\ EntriesAreTrue'
  BY <1>1 DEF CaptchaInv, LaterAreContested, EntriesAreTrue, Code
<1>4. LatestIsCached'
  <2> SUFFICES ASSUME NEW c \in Code, c \notin refused, c \notin contested, Usable(c)'
               PROVE  \E e \in items : e.key = codes[c].key /\ e.value = c
    BY <1>1 DEF LatestIsCached, Code
  <2>1. codes[c].at \in Nat
    <3>1. \A d \in 1..Len(codes) : codes[d] \in [key : Key, at : Nat]
      BY SeqElements DEF CaptchaInv, CaptchaTypeOK
    <3> QED BY <3>1 DEF Code
  <2>2. Usable(c)
    BY <1>1, <2>1 DEF Usable, Rivals, Code
  <2> QED BY <2>2 DEF CaptchaInv, LatestIsCached
<1>5. NothingElse'
  BY <1>1 DEF CaptchaInv, NothingElse, UsedOnce, OnlyWhatItIsFor
<1> QED BY <1>2, <1>3, <1>4, <1>5 DEF CaptchaInv

LEMMA CaptchaInvariance == CaptchaSpec => []CaptchaInv
<1>1. CaptchaInit => CaptchaInv
  <2> SUFFICES ASSUME CaptchaInit PROVE CaptchaInv
    OBVIOUS
  <2>1. Code = {}
    BY DEF CaptchaInit, Code
  <2>2. IsCache({}, Code)
    BY FS_EmptySet DEF IsCache
  <2>3. CaptchaTypeOK
    BY <2>1, <2>2 DEF CaptchaInit, CaptchaTypeOK
  <2> QED BY <2>1, <2>3 DEF CaptchaInit, CaptchaInv, EntriesAreTrue, LaterAreContested,
                            LatestIsCached, NothingElse, UsedOnce, OnlyWhatItIsFor
<1>2. CaptchaInv /\ [CaptchaNext]_captchaVars => CaptchaInv'
  <2> SUFFICES ASSUME CaptchaInv, [CaptchaNext]_captchaVars PROVE CaptchaInv'
    OBVIOUS
  <2>1. CASE UNCHANGED captchaVars
    <3> USE <2>1 DEF captchaVars, CaptchaInv
    <3>1. CaptchaTypeOK'
      BY DEF CaptchaTypeOK, Code
    <3>2. EntriesAreTrue' /\ LaterAreContested'
      BY DEF EntriesAreTrue, LaterAreContested, Code
    <3>3. LatestIsCached'
      BY DEF LatestIsCached, Usable, Rivals, Code
    <3>4. NothingElse'
      BY DEF NothingElse, UsedOnce, OnlyWhatItIsFor
    <3> QED BY <3>1, <3>2, <3>3, <3>4
  <2> QED BY <2>1, SendKeepsInv, SentKeepsInv, NotSentKeepsInv, DestroyKeepsInv, ElapseKeepsInv
          DEF CaptchaNext
<1> QED BY <1>1, <1>2, PTL DEF CaptchaSpec

(* verify_captcha: for any numbers of requests, resources and codes and any size of the  *)
(* cache, a code authorises one operation, on what it was requested for and in time.     *)
THEOREM CodesDoOneThing == CaptchaSpec => []NothingElse
<1>1. CaptchaInv => NothingElse
  BY DEF CaptchaInv
<1> QED BY <1>1, CaptchaInvariance, PTL

(* send_captcha: the latest code of a key works for its time, unless its request failed, *)
(* overlapped another one for the key, or more keys have codes than the cache holds.     *)
THEOREM LatestCodeWorks == CaptchaSpec => []LatestUsable
<1>1. CaptchaInv => LatestUsable
  <2> SUFFICES ASSUME CaptchaInv, NEW c \in delivered, c \notin refused, c \notin contested, Usable(c)
               PROVE  Matches(items, codes[c].key, c)
    BY DEF LatestUsable, Usable
  <2>1. c \in Code
    BY DEF CaptchaInv, CaptchaTypeOK
  <2>2. PICK e \in items : e.key = codes[c].key /\ e.value = c
    BY <2>1 DEF CaptchaInv, LatestIsCached
  <2>3. e.deadline > clock
    BY <2>2 DEF CaptchaInv, EntriesAreTrue, Usable
  <2> QED BY <2>2, <2>3 DEF Matches, Hit
<1> QED BY <1>1, CaptchaInvariance, PTL
=============================================================================
