----------------------------- MODULE ExpireCache -----------------------------
(***************************************************************************)
(* core/cache.py: the OrderedDict of an ExpireCache as the set of its      *)
(* entries, each with its place in the order of use, 1 for the least       *)
(* recently used.  Every method holds the lock, so each is one operator:   *)
(* what it returns, or the entries it leaves.                              *)
(***************************************************************************)
EXTENDS Integers, FiniteSets

CONSTANT MaxSize  \* _maxsize

ASSUME CacheAssumption == MaxSize \in Nat \ {0}

Entry(key, value, deadline, place) == [key |-> key, value |-> value, deadline |-> deadline, place |-> place]

\* The entries that are left move up.
Ordered(entries) ==
  {[e EXCEPT !.place = Cardinality({f \in entries : f.place <= e.place})] : e \in entries}
Except(items, key) == Ordered({e \in items : e.key # key})

\* get: the entry under key, if there is one; an expired entry goes, the entry found
\* becomes the most recently used.
Hit(items, key, now) == {e \in items : e.key = key /\ e.deadline > now}
Got(items, key, now) ==
  LET others == Except(items, key)
  IN others \cup {[e EXCEPT !.place = Cardinality(others) + 1] : e \in Hit(items, key, now)}

\* put: the expired entries go, and the least recently used ones when there are too many.
PurgeExpired(items, now) == Ordered({e \in items : e.deadline > now})
PutFirst(items, key, value, now, ttl) ==
  LET others == Except(PurgeExpired(items, now), key)
  IN others \cup {Entry(key, value, now + ttl, Cardinality(others) + 1)}
PutBelow(items, key, value, now, ttl) ==  \* mutant: "while len(self._items) >= self._maxsize"
  LET live == PutFirst(items, key, value, now, ttl)
  IN Ordered({e \in live : e.place > Cardinality(live) - (MaxSize - 1)})
Put(items, key, value, now, ttl) ==
  LET live == PutFirst(items, key, value, now, ttl)
  IN Ordered({e \in live : e.place > Cardinality(live) - MaxSize})

Removed(items, key) == Except(items, key)
=============================================================================
