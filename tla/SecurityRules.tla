---------------------------- MODULE SecurityRules ----------------------------
(***************************************************************************)
(* The default security list of one VCN: SecurityRuleService (services/    *)
(* extra_service.py) over its cached pages, and release_security_rule      *)
(* (services/instance_service.py, core/oracle_fetcher.py).                 *)
(*                                                                         *)
(* A coroutine does its OCI calls in a thread, so requests interleave      *)
(* between a read and a write of the list, and between an answer of OCI    *)
(* and what is done with the cache afterwards.  OCI replaces a list whole, *)
(* if its etag (here: version) is the one given.  The id of a rule is the  *)
(* digest of its direction, index and content: here, the last two, and a   *)
(* list of rules is the set of their ids.                                  *)
(***************************************************************************)
EXTENDS Integers, FiniteSets

CONSTANTS
  Rule, Allow,    \* contents of rules; the content "all protocols, everywhere"
  Request, NoOne,
  MaxVersion      \* bound

ASSUME RulesAssumption == Allow \in Rule /\ NoOne \notin Request /\ MaxVersion \in Nat

VARIABLES
  rules, version,  \* at OCI: the rules of each direction, the etag
  list, map,       \* the cache: what its two keys hold for a direction, a snapshot or nothing
  stage, direction, \* of each request
  arg,             \* the rule it adds, or the ids it removes
  read,            \* the rules it has read, with their version
  shown,           \* history: ids that a page has shown, of each direction
  own,             \* history: version of the last change of a direction that succeeded
  writer           \* history: the request whose write was the last stage, or NoOne

Direction == {"ingress", "egress"}
work == <<stage, direction, arg, read>>
rulesVars == <<rules, version, list, map, work, shown, own, writer>>

Nothing == <<>>
\* The list when rules have gone, and with another one at its end.
Renumbered(ids) == {<<Cardinality({f \in ids : f[1] <= e[1]}), e[2]>> : e \in ids}
Extended(ids, rule) == ids \cup {<<Cardinality(ids) + 1, rule>>}
Snapshot == [rules |-> rules, at |-> version, overtaken |-> FALSE]

RulesInit ==
  /\ rules \in [Direction -> {{<<1, r>>} : r \in Rule \ {Allow}}] /\ version = 0
  /\ list = [d \in Direction |-> Nothing] /\ map = list
  /\ stage = [c \in Request |-> "idle"] /\ direction = [c \in Request |-> "ingress"]
  /\ arg = [c \in Request |-> {}] /\ read = [c \in Request |-> Nothing]
  /\ shown = [d \in Direction |-> {}] /\ own = [d \in Direction |-> 0]
  /\ writer = NoOne

Start(c, s, d, a) ==
  /\ stage[c] = "idle"
  /\ stage' = [stage EXCEPT ![c] = s]
  /\ direction' = [direction EXCEPT ![c] = d]
  /\ arg' = [arg EXCEPT ![c] = a]
  /\ writer' = NoOne
Continue(c, s) ==
  /\ stage' = [stage EXCEPT ![c] = s]
  /\ IF s = "idle" THEN direction' = [direction EXCEPT ![c] = "ingress"] /\ arg' = [arg EXCEPT ![c] = {}]
     ELSE UNCHANGED <<direction, arg>>
Show(d, ids) == shown' = [shown EXCEPT ![d] = @ \cup ids]

-----------------------------------------------------------------------------
\* get_page, with clean_relaunch or without: a cached page is shown at once.
Page(c, d, clean) ==
  IF list[d] # Nothing /\ ~clean
  THEN /\ stage[c] = "idle" /\ writer' = NoOne
       /\ Show(d, list[d][1].rules[d])
       /\ UNCHANGED <<rules, version, list, map, work, own>>
  ELSE /\ Start(c, "fetch", d, {})
       /\ list' = IF clean THEN [list EXCEPT ![d] = Nothing] ELSE list
       /\ map' = IF clean THEN [map EXCEPT ![d] = Nothing] ELSE map
       /\ UNCHANGED <<rules, version, read, shown, own>>

Fetch(c) ==
  /\ stage[c] = "fetch"
  /\ read' = [read EXCEPT ![c] = <<Snapshot>>]
  /\ Continue(c, "fill") /\ writer' = NoOne
  /\ UNCHANGED <<rules, version, list, map, shown, own>>

\* The two puts, and the page.
Fill(c) ==
  /\ stage[c] = "fill"
  /\ list' = [list EXCEPT ![direction[c]] = read[c]]
  /\ map' = [map EXCEPT ![direction[c]] = read[c]]
  /\ Show(direction[c], read[c][1].rules[direction[c]])
  /\ read' = [read EXCEPT ![c] = Nothing]
  /\ Continue(c, "idle") /\ writer' = NoOne
  /\ UNCHANGED <<rules, version, own>>

-----------------------------------------------------------------------------
\* add_ingress and add_egress.
AddRule(c, d, rule) ==
  /\ Start(c, "add", d, {rule})
  /\ UNCHANGED <<rules, version, list, map, read, shown, own>>

\* remove_rules up to its await: the cached mapping has to know the ids.
RemoveRules(c, d, ids) ==
  /\ map[d] # Nothing /\ ids \subseteq map[d][1].rules[d]
  /\ Start(c, "remove", d, ids)
  /\ read' = [read EXCEPT ![c] = map[d]]
  /\ UNCHANGED <<rules, version, list, map, shown, own>>

\* release_security_rule, for this VCN.
Release(c) ==
  /\ Start(c, "release", "ingress", {})
  /\ UNCHANGED <<rules, version, list, map, read, shown, own>>

\* The list with its etag, in the thread.
ReadToChange(c) ==
  /\ stage[c] \in {"add", "release"}
  /\ read' = [read EXCEPT ![c] = <<Snapshot>>]
  /\ Continue(c, IF stage[c] = "add" THEN "adding" ELSE "releasing") /\ writer' = NoOne
  /\ UNCHANGED <<rules, version, list, map, shown, own>>

\* remove_rules also compares the ids of the list with those of the mapping it took
\* from the cache, or ends with an error.
ReadToRemove(c) ==
  LET d == direction[c]
  IN /\ stage[c] = "remove"
     /\ IF rules[d] = read[c][1].rules[d]
        THEN Continue(c, "removing") /\ read' = [read EXCEPT ![c] = <<Snapshot>>]
        ELSE Continue(c, "idle") /\ read' = [read EXCEPT ![c] = Nothing]
     /\ writer' = NoOne
     /\ UNCHANGED <<rules, version, list, map, shown, own>>

\* The rules the list is replaced with.
Wanted(c) ==
  LET old == read[c][1].rules
      d == direction[c]
  IN CASE stage[c] = "adding" -> [old EXCEPT ![d] = UNION {Extended(@, rule) : rule \in arg[c]}]
       [] stage[c] = "removing" -> [old EXCEPT ![d] = Renumbered(@ \ arg[c])]
       [] stage[c] = "releasing" ->
            [e \in Direction |-> IF \E id \in old[e] : id[2] = Allow THEN old[e] ELSE Extended(old[e], Allow)]

AnyVersion(c) == TRUE  \* mutant: update_security_list drops if_match
Matching(c) == version = read[c][1].at
\* update_security_list: OCI refuses another etag, or replaces the list; the answer
\* may be lost all the same.
Write(c) ==
  /\ stage[c] \in {"adding", "removing", "releasing"}
  /\ IF Matching(c)
     THEN /\ version < MaxVersion /\ version' = version + 1
          /\ rules' = Wanted(c)
          /\ writer' = c
          /\ \/ Continue(c, IF stage[c] = "releasing" THEN "idle" ELSE "clear")
             \/ Continue(c, "idle")
     ELSE Continue(c, "idle") /\ writer' = NoOne /\ UNCHANGED <<rules, version>>
  /\ read' = [read EXCEPT ![c] = Nothing]
  /\ UNCHANGED <<list, map, shown, own>>

ClearedNot == [d \in Direction |-> IF d = "ingress" THEN Nothing ELSE list[d]]  \* mutant: one key is misspelt
Cleared == [d \in Direction |-> Nothing]
\* clear_cache, when the coroutine resumes.  A page that was read before is marked.
Clear(c) ==
  /\ stage[c] = "clear"
  /\ list' = Cleared /\ map' = [d \in Direction |-> Nothing]
  /\ own' = [own EXCEPT ![direction[c]] = version]
  /\ read' = [o \in Request |->
       IF stage[o] = "fill" THEN <<[read[o][1] EXCEPT !.overtaken = TRUE]>> ELSE read[o]]
  /\ Continue(c, "idle") /\ writer' = NoOne
  /\ UNCHANGED <<rules, version, shown>>

-----------------------------------------------------------------------------
\* An entry of the cache expires or is evicted.
Evict(d) ==
  /\ \/ list[d] # Nothing /\ list' = [list EXCEPT ![d] = Nothing] /\ UNCHANGED map
     \/ map[d] # Nothing /\ map' = [map EXCEPT ![d] = Nothing] /\ UNCHANGED list
  /\ writer' = NoOne
  /\ UNCHANGED <<rules, version, work, shown, own>>

\* Somebody else replaces the list: a rule goes or comes.
ChangedElsewhere(d) ==
  /\ version < MaxVersion /\ version' = version + 1
  /\ \/ \E id \in rules[d] : id[1] = 1 /\ rules' = [rules EXCEPT ![d] = Renumbered(@ \ {id})]
     \/ \E r \in Rule \ {Allow} : rules' = [rules EXCEPT ![d] = Extended(@, r)]
  /\ writer' = NoOne
  /\ UNCHANGED <<list, map, work, shown, own>>

RulesNext ==
  \/ \E c \in Request :
       \/ \E d \in Direction :
            \/ \E clean \in BOOLEAN : Page(c, d, clean)
            \/ \E rule \in Rule \ {Allow} : AddRule(c, d, rule)
            \/ \E ids \in SUBSET shown[d] \ {{}} : RemoveRules(c, d, ids)
       \/ Release(c) \/ Fetch(c) \/ Fill(c) \/ ReadToChange(c) \/ ReadToRemove(c) \/ Write(c)
       \/ Clear(c)
  \/ \E d \in Direction : Evict(d) \/ ChangedElsewhere(d)

RulesSpec == RulesInit /\ [][RulesNext]_rulesVars

-----------------------------------------------------------------------------
Count(ids, r) == Cardinality({id \in ids : id[2] = r})
Named(c, d, r) ==
  IF stage[c] = "removing" /\ direction[c] = d
  THEN Count(arg[c], r) ELSE 0

\* if_match: whatever other requests and other programs do to the list meanwhile, a
\* write of this program takes away only the rules a removal names: it never undoes
\* what was added after it had read the list.
NoLostRule ==
  [][writer' # NoOne =>
       \A d \in Direction, r \in Rule :
         Count(rules'[d], r) >= Count(rules[d], r) - Named(writer', d, r)]_rulesVars

\* "the rules have been changed by another operation": a removal that OCI accepts
\* removes every rule the user picked, as his page had it, and leaves the rest in order.
RemovesWhatWasNamed ==
  [][writer' # NoOne /\ stage[writer'] = "removing" =>
       LET d == direction[writer']
       IN /\ arg[writer'] \subseteq rules[d]
          /\ Cardinality(rules'[d]) = Cardinality(rules[d]) - Cardinality(arg[writer'])
          /\ \A x, y \in rules'[d] : x[1] < y[1] =>
               \E k, l \in rules[d] \ arg[writer'] : k[1] < l[1] /\ k[2] = x[2] /\ l[2] = y[2]]_rulesVars

\* A write changes what its request is about and nothing else.
OthersRulesKept == NoLostRule /\ RemovesWhatWasNamed

\* clear_cache: a cached page has every change of its direction that succeeded,
\* unless the page had been read before and arrived after the cache was cleared.
OwnChangesShown ==
  \A d \in Direction :
    list[d] # Nothing => list[d][1].at >= own[d] \/ list[d][1].overtaken
=============================================================================
