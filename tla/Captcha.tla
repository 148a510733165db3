------------------------------- MODULE Captcha -------------------------------
(***************************************************************************)
(* The verification codes of destructive operations: send_captcha and      *)
(* verify_captcha (services/oci_service.py) over captcha_cache, and the    *)
(* operations that ask for a code: terminate_instance, remove_vcn and      *)
(* terminate_boot_volume (routers/extra_routers.py).                       *)
(*                                                                         *)
(* One configuration.  A code is the number of its request: a code drawn   *)
(* twice is not modelled.  Everything runs on the event loop; the only     *)
(* await between the states modelled is the one of send_message.           *)
(***************************************************************************)
EXTENDS ExpireCache, Sequences

CONSTANTS
  Resource, Any,    \* instances; '*', the key of a request without resource_id
  Ttl, MaxClock,     \* 300 seconds; a bound
  Sender, MaxCodes, MaxUses  \* requests in progress; bounds

ASSUME CaptchaAssumption ==
  /\ Any \notin Resource /\ Ttl \in Nat \ {0} /\ {MaxClock, MaxCodes, MaxUses} \subseteq Nat

VARIABLES
  items,      \* captcha_cache
  clock,
  sending,    \* of each sender: the code it awaits the sending of, 0 for none
  codes,      \* history: key and time of every code, in the order of their creation
  delivered,  \* history: codes the user has received
  refused,    \* history: codes whose request ended with an error
  contested,  \* history: codes whose request overlapped another one for the same key
  accepted    \* history: the operations carried out: code, resource and time

captchaVars == <<items, clock, sending, codes, delivered, refused, contested, accepted>>

Key == Resource \cup {Any}
Code == 1..Len(codes)

CaptchaInit ==
  /\ items = {} /\ clock = 0 /\ codes = <<>>
  /\ sending = [s \in Sender |-> 0]
  /\ delivered = {} /\ refused = {} /\ contested = {} /\ accepted = <<>>

\* send_captcha up to the await: the code is valid before it is sent.
SendCaptcha(s, key) ==
  /\ sending[s] = 0 /\ Len(codes) < MaxCodes
  /\ codes' = Append(codes, [key |-> key, at |-> clock])
  /\ items' = Put(items, key, Len(codes'), clock, Ttl)
  /\ sending' = [sending EXCEPT ![s] = Len(codes')]
  /\ LET others == {sending[r] : r \in Sender} \ {0}
         rivals == {c \in others : codes[c].key = key}
     IN contested' = IF rivals = {} THEN contested ELSE contested \cup rivals \cup {Len(codes')}
  /\ UNCHANGED <<clock, delivered, refused, accepted>>

Sent(s) ==
  /\ sending[s] # 0
  /\ delivered' = delivered \cup {sending[s]}
  /\ sending' = [sending EXCEPT ![s] = 0]
  /\ UNCHANGED <<items, clock, codes, refused, contested, accepted>>

\* sent is False (the message may have arrived all the same): whichever code is
\* cached under the key is removed.
NotSent(s) ==
  /\ sending[s] # 0
  /\ delivered' \in {delivered, delivered \cup {sending[s]}}
  /\ refused' = refused \cup {sending[s]}
  /\ items' = Removed(items, codes[sending[s]].key)
  /\ sending' = [sending EXCEPT ![s] = 0]
  /\ UNCHANGED <<clock, codes, contested, accepted>>

Matches(cached, key, code) ==
  \E e \in Hit(cached, key, clock) : e.value = code
AfterKeeping(cached, key, code) == Got(cached, key, clock)  \* mutant: a code that was used remains
After(cached, key, code) ==
  IF Matches(cached, key, code) THEN Removed(Got(cached, key, clock), key) ELSE Got(cached, key, clock)

\* verify_captcha: the key of the resource and, if that is not the one, the key of
\* the configuration (which is the same for an operation without a resource).
Verify(resource, code) ==
  LET rest == After(items, resource, code)
      first == Matches(items, resource, code)
      second == Matches(rest, Any, code)
  IN /\ items' = IF first THEN rest ELSE After(rest, Any, code)
     /\ accepted' = IF first \/ second
                    THEN Append(accepted, [code |-> code, resource |-> resource, at |-> clock])
                    ELSE accepted

\* terminate_instance, which names its instance; remove_vcn and terminate_boot_volume,
\* which do not.
Destroy(resource, code) ==
  /\ Len(accepted) < MaxUses
  /\ Verify(resource, code)
  /\ UNCHANGED <<clock, sending, codes, delivered, refused, contested>>

Elapse == clock < MaxClock /\ clock' = clock + 1 /\ UNCHANGED <<items, sending, codes, delivered, refused, contested, accepted>>

CaptchaNext ==
  \/ \E s \in Sender : (\E key \in Key : SendCaptcha(s, key)) \/ Sent(s) \/ NotSent(s)
  \/ \E resource \in Key, code \in delivered : Destroy(resource, code)
  \/ Elapse

CaptchaSpec == CaptchaInit /\ [][CaptchaNext]_captchaVars

-----------------------------------------------------------------------------

\* "if cached and hmac.compare_digest": a code authorises one operation.
UsedOnce == \A i, j \in DOMAIN accepted : accepted[i].code = accepted[j].code => i = j

\* oci_helper/README.md: the code of a destructive operation is valid for 5 minutes,
\* and one that was requested for a resource is good for that resource only.
OnlyWhatItIsFor ==
  \A i \in DOMAIN accepted :
    LET code == codes[accepted[i].code]
    IN code.key \in {accepted[i].resource, Any} /\ accepted[i].at < code.at + Ttl

\* No code does more than it was sent for.
NothingElse == UsedOnce /\ OnlyWhatItIsFor

\* The keys that had a code while this one was valid: more than MaxSize of them push
\* the least recently used out.
Rivals(c) == {codes[d].key : d \in {d \in Code : codes[d].at + Ttl > codes[c].at}}

\* send_captcha tells the user "valid for 5 minutes": the latest code he got for a key,
\* whose request reported success, works until then, unless another request for the key
\* was under way: the one that fails removes whatever code is there (NotSent).
LatestUsable ==
  \A c \in delivered \ (refused \cup contested) :
    /\ c \notin {accepted[i].code : i \in DOMAIN accepted}
    /\ \A d \in Code : codes[d].key = codes[c].key => d <= c
    /\ clock < codes[c].at + Ttl
    /\ Cardinality(Rivals(c)) <= MaxSize
    => Matches(items, codes[c].key, c)
=============================================================================
