------------------------------ MODULE AdminAuth ------------------------------
(***************************************************************************)
(* Administrator authentication: login and update_admin_credentials        *)
(* (services/sys_service.py), require_auth and IpSecurityManager           *)
(* (core/auth.py), the stored credentials (core/admin_credentials.py).     *)
(*                                                                         *)
(* A password is verified and hashed in a thread, so a login or an update  *)
(* awaits between reading the credentials and using what it has read.  The *)
(* random auth_version is the number of the change that drew it, 0 the     *)
(* version of the credentials of the environment.                          *)
(***************************************************************************)
EXTENDS Integers

CONSTANTS
  Account, Password, Strong,     \* Strong: the passwords validate_admin_password takes
  EnvAccount, EnvPassword,       \* OCI_HELPER_WEB_ACCOUNT and _PASSWORD
  None,                          \* no new password; no auth_version; no ban
  Login, Update, NoOne,          \* requests in progress
  Ip, MaxFailures, BanDuration,  \* ip_ban_threshold and ip_ban_minutes
  MaxChanges, MaxLogins, MaxTime, MaxRestarts  \* bounds

ASSUME AdminAssumption ==
  /\ EnvAccount \in Account /\ EnvPassword \in Password /\ Strong \subseteq Password
  /\ None \notin Password /\ None \notin Int /\ NoOne \notin Update /\ Ip # {}
  /\ MaxFailures \in Nat \ {0} /\ BanDuration \in Nat \ {0}
  /\ MaxChanges \in Nat /\ MaxLogins \in Nat /\ MaxTime \in Nat /\ MaxRestarts \in Nat

VARIABLES
  stored,        \* the three rows of oci_kv, or the environment: version 0
  lock,          \* _ADMIN_CREDENTIALS_LOCK
  ustep, asked, found,        \* of each update: its parameters, the credentials it has read
  lstep, given, verified,     \* of each login: its parameters, the credentials it has read
  tokens,        \* issued: account, av; history: at, the changes there had been
  fails, until,  \* _fail_counts, _blacklist
  now,
  changes, logins, restarts,  \* history and bounds: successful updates, logins, restarts
  lastBan        \* history: when an address was banned

update == <<lock, ustep, asked, found>>
login == <<lstep, given, verified, fails, until, lastBan>>
vars == <<stored, update, login, tokens, now, changes, logins, restarts>>

Environment == [account |-> EnvAccount, password |-> EnvPassword, version |-> 0]
Credentials == [account : Account, password : Password, version : Nat]
Parameters == [account : Account, current : Password, new : Password \cup {None}]
Claim == [account : Account, password : Password, ip : Ip]
NoRequest == [account |-> EnvAccount, current |-> EnvPassword, new |-> None]
NoClaim == [account |-> EnvAccount, password |-> EnvPassword, ip |-> CHOOSE i \in Ip : TRUE]

Init ==
  /\ stored = Environment
  /\ lock = NoOne /\ ustep = [u \in Update |-> "idle"]
  /\ asked = [u \in Update |-> NoRequest]
  /\ found = [u \in Update |-> Environment]
  /\ lstep = [l \in Login |-> "idle"]
  /\ given = [l \in Login |-> NoClaim]
  /\ verified = [l \in Login |-> Environment]
  /\ tokens = {[account |-> EnvAccount, av |-> None, at |-> 0]}  \* from before auth_version
  /\ fails = [i \in Ip |-> 0] /\ until = [i \in Ip |-> None] /\ lastBan = until
  /\ now = 0 /\ changes = 0 /\ logins = 0 /\ restarts = 0

-----------------------------------------------------------------------------
Banned(ip) == until[ip] # None /\ now <= until[ip]

\* is_banned: a banned address is turned away, and a ban that is over is forgotten.
Passes(ip) == ~ Banned(ip) /\ until' = [until EXCEPT ![ip] = None]

\* require_auth: the account and the version of the token are the stored ones.
Accepts(token) ==
  /\ token.account = stored.account
  /\ token.av = stored.version \/ (stored.version = 0 /\ token.av = None)

-----------------------------------------------------------------------------
\* update_admin_credentials, after require_auth.
MoveUpdate(u, s) == ustep' = [ustep EXCEPT ![u] = s]

Request(u, p) ==
  /\ ustep[u] = "idle" /\ (\E t \in tokens : Accepts(t)) /\ (\E ip \in Ip : Passes(ip))
  /\ asked' = [asked EXCEPT ![u] = p]
  /\ MoveUpdate(u, "waiting")
  /\ UNCHANGED <<stored, lock, found, lstep, given, verified, fails, lastBan, tokens, now,
                 changes, logins, restarts>>

EnterUnlocked(u) ==  \* mutant: no lock
  /\ ustep[u] = "waiting"
  /\ found' = [found EXCEPT ![u] = stored]
  /\ MoveUpdate(u, "verifying")
  /\ UNCHANGED <<stored, lock, asked, login, tokens, now, changes, logins, restarts>>
Enter(u) ==
  /\ ustep[u] = "waiting" /\ lock = NoOne
  /\ lock' = u
  /\ found' = [found EXCEPT ![u] = stored]
  /\ MoveUpdate(u, "verifying")
  /\ UNCHANGED <<stored, asked, login, tokens, now, changes, logins, restarts>>

Changes(u) ==
  /\ asked[u].current = found[u].password
  /\ asked[u].account # found[u].account \/ asked[u].new # None
  /\ asked[u].new \in Strong \cup {None}
Leave(u) ==
  /\ MoveUpdate(u, "idle") /\ lock' = IF lock = u THEN NoOne ELSE lock
  /\ asked' = [asked EXCEPT ![u] = NoRequest] /\ found' = [found EXCEPT ![u] = Environment]

\* The current password, a change, a strong new password; and the hashing.
CheckUpdate(u) ==
  /\ ustep[u] = "verifying"
  /\ IF Changes(u) THEN MoveUpdate(u, "saving") /\ UNCHANGED <<lock, asked, found>> ELSE Leave(u)
  /\ UNCHANGED <<stored, login, tokens, now, changes, logins, restarts>>

\* The three rows, in one transaction; without a new password the hash that was read
\* is stored again.
Save(u) ==
  /\ ustep[u] = "saving" /\ changes < MaxChanges
  /\ stored' = [account |-> asked[u].account, version |-> changes + 1,
                password |-> IF asked[u].new = None THEN found[u].password ELSE asked[u].new]
  /\ changes' = changes + 1
  /\ Leave(u)
  /\ UNCHANGED <<login, tokens, now, logins, restarts>>

SaveFails(u) ==
  /\ ustep[u] = "saving"
  /\ Leave(u)
  /\ UNCHANGED <<stored, login, tokens, now, changes, logins, restarts>>

-----------------------------------------------------------------------------
\* login.
MoveLogin(l, s) == lstep' = [lstep EXCEPT ![l] = s]

Admit(l, claim) ==
  /\ lstep[l] = "idle" /\ logins < MaxLogins
  /\ Passes(claim.ip)
  /\ logins' = logins + 1
  /\ given' = [given EXCEPT ![l] = claim]
  /\ MoveLogin(l, "loading")
  /\ UNCHANGED <<stored, update, verified, fails, lastBan, tokens, now, changes, restarts>>

Load(l) ==
  /\ lstep[l] = "loading"
  /\ verified' = [verified EXCEPT ![l] = stored]
  /\ MoveLogin(l, "verifying")
  /\ UNCHANGED <<stored, update, given, fails, until, lastBan, tokens, now, changes, logins, restarts>>

Knows(l) ==
  given[l].account = verified[l].account /\ given[l].password = verified[l].password

CurrentToken(l) ==  \* mutant: the version is read when the token is made
  [account |-> given[l].account, av |-> stored.version, at |-> verified[l].version]
Token(l) == [account |-> given[l].account, av |-> verified[l].version, at |-> verified[l].version]

Finish(l) ==
  /\ MoveLogin(l, "idle")
  /\ given' = [given EXCEPT ![l] = NoClaim] /\ verified' = [verified EXCEPT ![l] = Environment]

\* record_success and the token.
SucceedAndUnban(l) ==  \* mutant: a success also lifts a ban, as unban_ip does
  /\ lstep[l] = "verifying" /\ Knows(l)
  /\ fails' = [fails EXCEPT ![given[l].ip] = 0]
  /\ until' = [until EXCEPT ![given[l].ip] = None]
  /\ tokens' = tokens \cup {Token(l)}
  /\ Finish(l)
  /\ UNCHANGED <<stored, update, lastBan, now, changes, logins, restarts>>
Succeed(l) ==
  /\ lstep[l] = "verifying" /\ Knows(l)
  /\ fails' = [fails EXCEPT ![given[l].ip] = 0]
  /\ tokens' = tokens \cup {Token(l)}
  /\ Finish(l)
  /\ UNCHANGED <<stored, update, until, lastBan, now, changes, logins, restarts>>

\* record_failure, which bans the address at the threshold.
Fail(l) ==
  LET ip == given[l].ip
      banned == fails[ip] + 1 >= MaxFailures
  IN /\ lstep[l] = "verifying" /\ ~Knows(l)
     /\ fails' = [fails EXCEPT ![ip] = IF banned THEN 0 ELSE @ + 1]
     /\ until' = IF banned THEN [until EXCEPT ![ip] = now + BanDuration] ELSE until
     /\ lastBan' = IF banned THEN [lastBan EXCEPT ![ip] = now] ELSE lastBan
     /\ Finish(l)
     /\ UNCHANGED <<stored, update, tokens, now, changes, logins, restarts>>

-----------------------------------------------------------------------------
Tick ==
  /\ now < MaxTime /\ now' = now + 1
  /\ UNCHANGED <<stored, update, login, tokens, changes, logins, restarts>>

\* The process starts again: what is kept in memory is lost.
Restart ==
  /\ restarts < MaxRestarts /\ restarts' = restarts + 1
  /\ lock' = NoOne /\ ustep' = [u \in Update |-> "idle"]
  /\ asked' = [u \in Update |-> NoRequest] /\ found' = [u \in Update |-> Environment]
  /\ lstep' = [l \in Login |-> "idle"]
  /\ given' = [l \in Login |-> NoClaim] /\ verified' = [l \in Login |-> Environment]
  /\ fails' = [i \in Ip |-> 0] /\ until' = [i \in Ip |-> None] /\ lastBan' = until'
  /\ UNCHANGED <<stored, tokens, now, changes, logins>>

Next ==
  \/ \E u \in Update : \/ \E p \in Parameters : Request(u, p)
                       \/ Enter(u) \/ CheckUpdate(u) \/ Save(u) \/ SaveFails(u)
  \/ \E l \in Login : (\E claim \in Claim : Admit(l, claim)) \/ Load(l) \/ Succeed(l) \/ Fail(l)
  \/ Tick \/ Restart

Spec == Init /\ [][Next]_vars

-----------------------------------------------------------------------------
TypeOK ==
  /\ stored \in Credentials /\ changes \in Nat
  /\ lock \in Update \cup {NoOne}
  /\ ustep \in [Update -> {"idle", "waiting", "verifying", "saving"}]
  /\ asked \in [Update -> Parameters] /\ found \in [Update -> Credentials]
  /\ lstep \in [Login -> {"idle", "loading", "verifying"}]
  /\ given \in [Login -> Claim] /\ verified \in [Login -> Credentials]
  /\ tokens \subseteq [account : Account, av : Nat \cup {None}, at : Nat]
  /\ fails \in [Ip -> 0..MaxFailures - 1]
  /\ until \in [Ip -> Nat \cup {None}] /\ lastBan \in [Ip -> Nat \cup {None}]
  /\ now \in Nat /\ logins \in Nat /\ restarts \in Nat

\* README: "After a successful change, all existing login tokens are immediately
\* invalidated": an accepted token comes from a login that verified the password of the
\* credentials as they are, also when a login was under way during the change.
TokensRevoked == \A t \in tokens : Accepts(t) => t.at = changes

\* Types, which bound the counters of failures, and the tokens.
AuthInv == TypeOK /\ TokensRevoked

\* test_concurrent_password_changes_recheck_current_credentials: the credentials are
\* replaced by a request that knows the password in force at that moment, and only its
\* new password can replace it; a change of the account never brings an old one back.
ReplacedByOwner ==
  [][stored' # stored =>
       \E u \in Update : /\ ustep[u] = "saving" /\ asked[u].current = stored.password
                         /\ stored'.account = asked[u].account
                         /\ stored'.password \in {stored.password, asked[u].new}]_vars

\* ip_ban_minutes: an address that was banned is not let in again before the ban is
\* over, whatever the logins do that had been let in before.
BanHolds ==
  [][\A l \in Login :
       lstep[l] = "idle" /\ lstep'[l] = "loading" =>
         LET ban == lastBan[given'[l].ip]
         IN ban # None => now > ban + BanDuration]_vars
=============================================================================
