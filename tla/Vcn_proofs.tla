----------------------------- MODULE Vcn_proofs -----------------------------
(***************************************************************************)
(* Proofs about a VCN that others use as well: DeleteVcn takes away        *)
(* nothing of theirs, SecurityRules no rule it was not asked to.           *)
(***************************************************************************)
EXTENDS DeleteVcn, SecurityRules, FunctionTheorems, FiniteSetTheorems, TLAPS

-----------------------------------------------------------------------------
(* DeleteVcn. *)

Deleting == {"checking", "subnets", "routes", "rerouting", "gateways"}

TypeOK ==
  /\ step \in [Deleter -> Deleting \cup {"idle", "vcn"}]
  /\ seen \in [Deleter -> SUBSET Resource]
  /\ table \in [Deleter -> [targets : SUBSET (Gateway \cup {Foreign}), at : Nat]]
  /\ there \subseteq Resource /\ routes \subseteq Gateway \cup {Foreign} /\ etag \in Nat
  /\ vcn \in BOOLEAN /\ others \in Nat

(* A deletion works on what it has listed and found to be of this program. *)
WorksOnOwn == \A d \in Deleter : step[d] \in Deleting => owned /\ seen[d] \subseteq Managed

(* An etag names one content of the table. *)
TableRead ==
  \A d \in Deleter : step[d] = "rerouting" =>
    table[d].at <= etag /\ (table[d].at = etag => table[d].targets = routes)

IInv == TypeOK /\ WorksOnOwn /\ TableRead

LEMMA InvInit == Init => IInv
  BY VcnAssumption DEF Init, IInv, TypeOK, WorksOnOwn, TableRead, Resource, NoTable, Deleting

LEMMA InvStep == IInv /\ [Next]_vars => IInv'
<1> SUFFICES ASSUME IInv, [Next]_vars PROVE IInv'
  OBVIOUS
<1> USE DEF IInv, TypeOK, WorksOnOwn, TableRead, Deleting, MoveTo
<1>1. ASSUME NEW d \in Deleter, Survey(d) PROVE IInv'
  BY <1>1 DEF Survey, Cascades, oci
<1>2. ASSUME NEW d \in Deleter, CheckIps(d) PROVE IInv'
  BY <1>2 DEF CheckIps, oci
<1>3. ASSUME NEW d \in Deleter, SubnetsGone(d) PROVE IInv'
  BY <1>3 DEF SubnetsGone, AfterSubnets, oci
<1>4. ASSUME NEW d \in Deleter, ReadRoutes(d) PROVE IInv'
  BY <1>4 DEF ReadRoutes, oci
<1>5. ASSUME NEW d \in Deleter, UpdateRoutes(d) PROVE IInv'
  BY <1>5 DEF UpdateRoutes, SameEtag
<1>6. ASSUME NEW d \in Deleter, GatewaysGone(d) PROVE IInv'
  BY <1>6 DEF GatewaysGone, oci
<1>7. ASSUME NEW d \in Deleter, DropVcn(d) PROVE IInv'
  BY <1>7 DEF DropVcn
<1>8. ASSUME NEW d \in Deleter, NEW s \in Subnet, DeleteSubnet(d, s) PROVE IInv'
  BY <1>8 DEF DeleteSubnet
<1>9. ASSUME NEW d \in Deleter, NEW g \in Gateway, DeleteGateway(d, g) PROVE IInv'
  BY <1>9 DEF DeleteGateway
<1>10. ASSUME NEW d \in Deleter, Abort(d) PROVE IInv'
  BY <1>10 DEF Abort, oci
<1>11. CASE Elsewhere
  <2>1. UNCHANGED <<vcn, owned, step, seen, table>> /\ there' \subseteq Resource /\ others' \in Nat
    BY <1>11, VcnAssumption DEF Elsewhere, deleting
  <2>2. \/ UNCHANGED <<routes, etag>>
        \/ etag' = etag + 1 /\ routes' \subseteq Gateway \cup {Foreign}
    BY <1>11 DEF Elsewhere
  <2> QED BY <2>1, <2>2
<1>12. CASE UNCHANGED vars
  BY <1>12 DEF vars, oci, deleting
<1> QED
  BY <1>1, <1>2, <1>3, <1>4, <1>5, <1>6, <1>7, <1>8, <1>9, <1>10, <1>11, <1>12 DEF Next, Delete

LEMMA Invariance == Spec => []IInv
  BY InvInit, InvStep, PTL DEF Spec

(* delete_vcn_by_id: for any VCN, any number of deletions and whatever others do to it   *)
(* meanwhile, only what carries the tag is deleted, the VCN when it is empty, and only   *)
(* routes to gateways with the tag are removed.                                          *)
THEOREM OthersAreKept == Spec => OthersKept
<1> DEFINE Deletes == Own => /\ there \ there' \subseteq Managed
                             /\ there' # there => owned
                             /\ vcn # vcn' => there = {}
           Reroutes == Own => routes \ routes' \subseteq Managed
<1>1. IInv /\ [Next]_vars => Deletes /\ Reroutes
  <2> SUFFICES ASSUME IInv, [Next]_vars, Own PROVE Deletes /\ Reroutes
    OBVIOUS
  <2> USE DEF IInv, TypeOK, WorksOnOwn, TableRead, Deleting
  <2>1. ASSUME NEW d \in Deleter, NEW s \in Subnet, DeleteSubnet(d, s) PROVE Deletes /\ Reroutes
    BY <2>1 DEF DeleteSubnet
  <2>2. ASSUME NEW d \in Deleter, NEW g \in Gateway, DeleteGateway(d, g) PROVE Deletes /\ Reroutes
    BY <2>2 DEF DeleteGateway
  <2>3. ASSUME NEW d \in Deleter, UpdateRoutes(d) PROVE Deletes /\ Reroutes
    BY <2>3 DEF UpdateRoutes, SameEtag
  <2>4. ASSUME NEW d \in Deleter, DropVcn(d) PROVE Deletes /\ Reroutes
    <3>1. UNCHANGED <<there, routes>> /\ vcn' = (vcn /\ there # {})
      BY <2>4 DEF DropVcn
    <3>2. there # {} => vcn' = vcn
      BY <3>1
    <3> QED BY <3>1, <3>2
  <2>5. CASE Elsewhere
    <3>1. others' = others + 1 /\ others \in Nat
      BY <2>5 DEF Elsewhere
    <3>2. others + 1 # others
      BY <3>1
    <3> QED BY <3>1, <3>2 DEF Own
  <2>6. ASSUME UNCHANGED oci PROVE Deletes /\ Reroutes
    BY <2>6 DEF oci
  <2> QED
    BY <2>1, <2>2, <2>3, <2>4, <2>5, <2>6
    DEF Next, Delete, vars, Survey, CheckIps, SubnetsGone, ReadRoutes, GatewaysGone, Abort
<1> QED BY <1>1, Invariance, PTL DEF OthersKept, OnlyOwnDeleted, RoutesOfOthersKept, Spec

-----------------------------------------------------------------------------
(* SecurityRules. *)

(* A page in hand: rules with the etag they were read under, which names one content.    *)
Kept(page) ==
  /\ page = <<page[1]>> /\ DOMAIN page[1] = {"rules", "at", "overtaken"}
  /\ page[1].at \in Nat /\ page[1].at <= version
  /\ page[1].at = version => page[1].rules = rules

Reading == {"fill", "adding", "releasing", "removing"}

RulesTypeOK ==
  /\ version \in Nat /\ writer \in Request \cup {NoOne}
  /\ stage \in [Request -> {"idle", "fetch", "add", "remove", "release", "clear"} \cup Reading]
  /\ direction \in [Request -> Direction]
  /\ own \in [Direction -> 0..version] /\ DOMAIN list = Direction /\ DOMAIN read = Request

(* What a request has read is a page of the list; one that will fill the cache has the   *)
(* changes made here, or the cache was cleared while it was read.                        *)
PagesAreTrue == \A c \in Request : stage[c] \in Reading => Kept(read[c])
FillsAreFresh ==
  \A c \in Request : stage[c] = "fill" =>
    \A d \in Direction : read[c][1].at >= own[d] \/ read[c][1].overtaken

RulesInv == RulesTypeOK /\ PagesAreTrue /\ FillsAreFresh /\ OwnChangesShown

LEMMA SnapshotIsKept == ASSUME version \in Nat PROVE Kept(<<Snapshot>>)
  BY DEF Kept, Snapshot

(* What is kept stays kept when the etag grows and when nothing at OCI changes.          *)
LEMMA KeptOn ==
  ASSUME RulesTypeOK, NEW page, Kept(page),
         \/ UNCHANGED <<rules, version>>
         \/ version' \in Nat /\ version' > version
  PROVE  Kept(page)'
  BY DEF RulesTypeOK, Kept

LEMMA RulesStep == RulesInv /\ [RulesNext]_rulesVars => RulesInv'
<1> SUFFICES ASSUME RulesInv, [RulesNext]_rulesVars PROVE RulesInv'
  OBVIOUS
<1> USE RulesAssumption DEF RulesInv, RulesTypeOK, PagesAreTrue, FillsAreFresh, OwnChangesShown, Reading,
           Start, Continue, Show, work
<1>1. ASSUME NEW c \in Request, NEW d \in Direction, NEW clean \in BOOLEAN, Page(c, d, clean)
      PROVE  RulesInv'
  <2>1. CASE stage[c] = "idle" /\ UNCHANGED <<rules, version, list, map, work, own>> /\ writer' = NoOne
    BY <2>1 DEF Kept
  <2>2. CASE /\ Start(c, "fetch", d, {}) /\ UNCHANGED <<rules, version, read, own>>
             /\ list' \in {list, [list EXCEPT ![d] = Nothing]}
    <3>1. \A q \in Request : stage'[q] \in Reading => stage[q] = stage'[q] /\ Kept(read[q])'
      BY <2>2 DEF Kept
    <3> QED BY <2>2, <3>1 DEF Nothing
  <2> QED BY <1>1, <2>1, <2>2 DEF Page
<1>2. ASSUME NEW c \in Request, NEW d \in Direction, NEW rule \in Rule, AddRule(c, d, rule) PROVE RulesInv'
  BY <1>2 DEF AddRule, Kept
<1>3. ASSUME NEW c \in Request, NEW d \in Direction, NEW ids, RemoveRules(c, d, ids) PROVE RulesInv'
  BY <1>3 DEF RemoveRules, Kept
<1>4. ASSUME NEW c \in Request, Release(c) PROVE RulesInv'
  BY <1>4 DEF Release, Kept, Direction
<1>5. ASSUME NEW c \in Request, Fetch(c) PROVE RulesInv'
  <2>1. PICK page : page = <<Snapshot>>
    OBVIOUS
  <2>2. Kept(page) /\ \A d \in Direction : page[1].at >= own[d]
    BY <2>1, SnapshotIsKept DEF Snapshot
  <2>3. /\ read' = [read EXCEPT ![c] = page] /\ stage' = [stage EXCEPT ![c] = "fill"]
        /\ UNCHANGED <<rules, version, list, own, direction>> /\ writer' = NoOne
    BY <1>5, <2>1 DEF Fetch
  <2> QED BY <2>2, <2>3 DEF Kept
<1>6. ASSUME NEW c \in Request, Fill(c) PROVE RulesInv'
  BY <1>6 DEF Fill, Kept, Direction
<1>7. ASSUME NEW c \in Request, ReadToChange(c) PROVE RulesInv'
  BY <1>7, SnapshotIsKept DEF ReadToChange, Kept
<1>8. ASSUME NEW c \in Request, ReadToRemove(c) PROVE RulesInv'
  BY <1>8, SnapshotIsKept DEF ReadToRemove, Kept, Direction
<1>9. ASSUME NEW c \in Request, Write(c) PROVE RulesInv'
  BY <1>9, KeptOn DEF Write, Direction
<1>10. ASSUME NEW c \in Request, Clear(c) PROVE RulesInv'
  <2>1. /\ list' = [d \in Direction |-> Nothing] /\ own' = [own EXCEPT ![direction[c]] = version]
        /\ stage' = [stage EXCEPT ![c] = "idle"] /\ writer' = NoOne /\ UNCHANGED <<rules, version>>
    BY <1>10 DEF Clear, Cleared
  <2>2. direction' \in [Request -> Direction]
    BY <1>10 DEF Clear, Direction
  <2>3. \A q \in Request : stage'[q] \in Reading =>
          /\ stage[q] = stage'[q] /\ Kept(read'[q])
          /\ stage[q] = "fill" => read'[q][1].overtaken
    <3>1. SUFFICES ASSUME NEW q \in Request, stage'[q] \in Reading
                   PROVE  /\ stage[q] = stage'[q] /\ Kept(read'[q])
                          /\ stage[q] = "fill" => read'[q][1].overtaken
      OBVIOUS
    <3>2. stage[q] = stage'[q] /\ Kept(read[q])
      BY <2>1, <3>1
    <3>3. read'[q] = IF stage[q] = "fill" THEN <<[read[q][1] EXCEPT !.overtaken = TRUE]>> ELSE read[q]
      BY <1>10 DEF Clear
    <3>4. CASE stage[q] = "fill"
      <4>1. PICK page : page = [read[q][1] EXCEPT !.overtaken = TRUE]
        OBVIOUS
      <4>2. page.overtaken = TRUE
        BY <3>2, <4>1, Zenon DEF Kept
      <4>3. /\ DOMAIN page = DOMAIN read[q][1]
            /\ page.at = read[q][1].at /\ page.rules = read[q][1].rules
        BY <4>1
      <4>4. read'[q] = <<page>>
        BY <3>3, <3>4, <4>1
      <4> QED BY <3>2, <4>2, <4>3, <4>4 DEF Kept
    <3>5. CASE stage[q] # "fill"
      BY <3>2, <3>3, <3>5
    <3> QED BY <3>4, <3>5
  <2>4. DOMAIN read' = Request
    BY <1>10 DEF Clear
  <2>5. PagesAreTrue' /\ FillsAreFresh'
    BY <2>1, <2>3 DEF Kept
  <2>6. own' \in [Direction -> 0..version]
    BY <2>1
  <2>7. OwnChangesShown'
    BY <2>1
  <2>8. stage' \in [Request -> {"idle", "fetch", "add", "remove", "release", "clear"} \cup Reading]
    BY <2>1
  <2> QED BY <2>1, <2>2, <2>4, <2>5, <2>6, <2>7, <2>8
<1>11. ASSUME NEW d \in Direction, Evict(d) PROVE RulesInv'
  BY <1>11 DEF Evict, Kept
<1>12. ASSUME NEW d \in Direction, ChangedElsewhere(d) PROVE RulesInv'
  BY <1>12, KeptOn DEF ChangedElsewhere
<1>13. CASE UNCHANGED rulesVars
  BY <1>13 DEF rulesVars, Kept
<1> QED
  BY <1>1, <1>2, <1>3, <1>4, <1>5, <1>6, <1>7, <1>8, <1>9, <1>10, <1>11, <1>12, <1>13 DEF RulesNext

LEMMA RulesInvariance == RulesSpec => []RulesInv
<1>1. RulesInit => RulesInv
  BY RulesAssumption
  DEF RulesInit, RulesInv, RulesTypeOK, PagesAreTrue, FillsAreFresh, OwnChangesShown, Reading, Direction, Nothing
<1> QED BY <1>1, RulesStep, PTL DEF RulesSpec

(* clear_cache: a cached page has every change of its direction that succeeded here,     *)
(* for any number of requests, rules and changes.                                        *)
THEOREM OwnChangesAreShown == RulesSpec => []OwnChangesShown
<1>1. RulesInv => OwnChangesShown
  BY DEF RulesInv
<1> QED BY <1>1, RulesInvariance, PTL

(* if_match: a write replaces the very rules its request has read, whatever others did.  *)
THEOREM WritesReplaceWhatWasRead ==
  RulesSpec => [][writer' # NoOne => /\ read[writer'][1].rules = rules
                                /\ rules' = Wanted(writer')]_rulesVars
<1> DEFINE Step == writer' # NoOne => read[writer'][1].rules = rules /\ rules' = Wanted(writer')
<1>1. RulesInv /\ [RulesNext]_rulesVars => (Step \/ UNCHANGED rulesVars)
  <2> SUFFICES ASSUME RulesInv, RulesNext, writer' # NoOne PROVE Step
    BY DEF rulesVars
  <2>1. PICK c \in Request : Write(c)
    BY DEF RulesNext, Page, AddRule, RemoveRules, Release, Start, Fetch, Fill, ReadToChange, ReadToRemove,
           Clear, Evict, ChangedElsewhere
  <2>2. writer' = c /\ Matching(c) /\ rules' = Wanted(c)
    BY <2>1 DEF Write
  <2>3. Kept(read[c])
    BY <2>1 DEF Write, RulesInv, PagesAreTrue, Reading
  <2> QED BY <2>2, <2>3 DEF Kept, Matching
<1> QED BY <1>1, RulesInvariance, PTL DEF RulesSpec

-----------------------------------------------------------------------------
(* A list is finite; so are the ids with one content, which Count counts.                *)
IsList(S) == S \subseteq Nat \X Rule /\ IsFiniteSet(S)

LEMMA CountIsFinite ==
  ASSUME NEW S, IsFiniteSet(S), NEW r
  PROVE  IsFiniteSet({id \in S : id[2] = r}) /\ Count(S, r) \in Nat
<1>1. {id \in S : id[2] = r} \in SUBSET S
  OBVIOUS
<1> QED BY <1>1, FS_Subset, FS_CardinalityType DEF Count

LEMMA ExtendedKeeps ==
  ASSUME NEW S, IsList(S), NEW rule \in Rule
  PROVE  IsList(Extended(S, rule)) /\ \A r \in Rule : Count(Extended(S, rule), r) >= Count(S, r)
<1>1. IsList(Extended(S, rule))
  <2>1. Cardinality(S) \in Nat
    BY FS_CardinalityType DEF IsList
  <2>2. IsFiniteSet(Extended(S, rule))
    BY FS_AddElement DEF IsList, Extended
  <2> QED BY <2>1, <2>2 DEF IsList, Extended
<1>2. ASSUME NEW r \in Rule PROVE Count(Extended(S, rule), r) >= Count(S, r)
  <2>1. {id \in S : id[2] = r} \in SUBSET {id \in Extended(S, rule) : id[2] = r}
    BY DEF Extended
  <2>2. IsFiniteSet({id \in Extended(S, rule) : id[2] = r})
    BY <1>1, CountIsFinite DEF IsList
  <2>3. Count(S, r) \in Nat /\ Count(Extended(S, rule), r) \in Nat
    BY <1>1, CountIsFinite DEF IsList
  <2> QED BY <2>1, <2>2, <2>3, FS_Subset DEF Count
<1> QED BY <1>1, <1>2

(* Renumbering keeps the order, hence the number of rules of each content.               *)
Place(S, e) == Cardinality({f \in S : f[1] <= e[1]})
Moved(S) == [e \in S |-> <<Place(S, e), e[2]>>]

LEMMA PlacesAreOrdered ==
  ASSUME NEW S, IsList(S)
  PROVE  \A e, f \in S : /\ Place(S, e) \in Nat
                         /\ e[1] < f[1] => Place(S, e) < Place(S, f)
<1> SUFFICES ASSUME NEW e \in S, NEW f \in S
             PROVE  Place(S, e) \in Nat /\ (e[1] < f[1] => Place(S, e) < Place(S, f))
  OBVIOUS
<1> DEFINE P == {g \in S : g[1] <= e[1]}
           Q == {g \in S : g[1] <= f[1]}
<1>1. IsFiniteSet(P) /\ IsFiniteSet(Q) /\ Cardinality(P) \in Nat /\ Cardinality(Q) \in Nat
  <2>1. P \in SUBSET S /\ Q \in SUBSET S
    OBVIOUS
  <2> QED BY <2>1, FS_Subset, FS_CardinalityType DEF IsList
<1>2. ASSUME e[1] < f[1] PROVE Cardinality(P) < Cardinality(Q)
  <2>1. \A g \in S : g[1] \in Nat
    BY DEF IsList
  <2>2. P \in SUBSET Q /\ f \in Q /\ f \notin P
    BY <1>2, <2>1
  <2>3. P # Q
    BY <2>2
  <2> HIDE DEF P, Q
  <2> QED BY <1>1, <2>2, <2>3, FS_Subset
<1> QED BY <1>1, <1>2 DEF Place

LEMMA MovedKeeps ==
  ASSUME NEW S, IsList(S), NEW Q, Q \subseteq S
  PROVE  LET T == {Moved(S)[e] : e \in Q} IN IsFiniteSet(T) /\ Cardinality(T) = Cardinality(Q)
<1> DEFINE T == {Moved(S)[e] : e \in Q}
           m == [e \in Q |-> Moved(S)[e]]
<1>1. IsFiniteSet(Q)
  BY FS_Subset DEF IsList
<1>2. m \in Surjection(Q, T)
  BY DEF Surjection
<1>3. \A e, f \in Q : m[e] = m[f] => e = f
  <2> SUFFICES ASSUME NEW e \in Q, NEW f \in Q, m[e] = m[f] PROVE e = f
    OBVIOUS
  <2>1. Place(S, e) = Place(S, f) /\ e[2] = f[2]
    BY DEF Moved
  <2>2. ~(e[1] < f[1]) /\ ~(f[1] < e[1]) /\ Place(S, e) \in Nat
    BY <2>1, PlacesAreOrdered
  <2>3. e \in Nat \X Rule /\ f \in Nat \X Rule
    BY DEF IsList
  <2>4. e[1] = f[1]
    BY <2>2, <2>3
  <2> QED BY <2>1, <2>3, <2>4
<1>4. m \in Injection(Q, T)
  BY <1>2, <1>3 DEF Injection, IsInjective, Surjection
<1> QED BY <1>1, <1>2, <1>4, FS_Surjection

KeepsOrder(T, S) ==
  \A x, y \in T : x[1] < y[1] => \E k, l \in S : k[1] < l[1] /\ k[2] = x[2] /\ l[2] = y[2]

LEMMA RenumberedKeeps ==
  ASSUME NEW S, IsList(S)
  PROVE  /\ IsList(Renumbered(S)) /\ Cardinality(Renumbered(S)) = Cardinality(S)
         /\ \A r \in Rule : Count(Renumbered(S), r) = Count(S, r)
         /\ KeepsOrder(Renumbered(S), S)
<1>1. Renumbered(S) = {Moved(S)[e] : e \in S}
  BY DEF Renumbered, Moved, Place
<1>2. IsFiniteSet(Renumbered(S)) /\ Cardinality(Renumbered(S)) = Cardinality(S)
  BY <1>1, MovedKeeps
<1>3. Renumbered(S) \subseteq Nat \X Rule
  <2> SUFFICES ASSUME NEW e \in S PROVE Moved(S)[e] \in Nat \X Rule
    BY <1>1
  <2> QED BY PlacesAreOrdered DEF Moved, IsList
<1>4. ASSUME NEW r \in Rule PROVE Count(Renumbered(S), r) = Count(S, r)
  <2> DEFINE Q == {id \in S : id[2] = r}
  <2>1. {id \in Renumbered(S) : id[2] = r} = {Moved(S)[e] : e \in Q}
    BY <1>1 DEF Moved
  <2>2. Cardinality({Moved(S)[e] : e \in Q}) = Cardinality(Q)
    BY MovedKeeps
  <2> QED BY <2>1, <2>2 DEF Count
<1>5. ASSUME NEW x \in Renumbered(S), NEW y \in Renumbered(S), x[1] < y[1]
      PROVE  \E k, l \in S : k[1] < l[1] /\ k[2] = x[2] /\ l[2] = y[2]
  <2>1. PICK k \in S, l \in S : x = Moved(S)[k] /\ y = Moved(S)[l]
    BY <1>1
  <2>2. x = <<Place(S, k), k[2]>> /\ y = <<Place(S, l), l[2]>>
    BY <2>1 DEF Moved
  <2>3. Place(S, k) \in Nat /\ Place(S, l) \in Nat /\ ~(l[1] < k[1])
    BY <1>5, <2>2, PlacesAreOrdered
  <2>4. k[1] # l[1]
    BY <1>5, <2>2, <2>3 DEF Place
  <2>5. k[1] \in Nat /\ l[1] \in Nat
    BY DEF IsList
  <2> QED BY <2>2, <2>3, <2>4, <2>5
<1> QED BY <1>2, <1>3, <1>4, <1>5 DEF IsList, KeepsOrder

LEMMA WithoutKeeps ==
  ASSUME NEW S, IsList(S), NEW A, A \subseteq S
  PROVE  /\ IsList(S \ A) /\ Cardinality(S \ A) = Cardinality(S) - Cardinality(A)
         /\ \A r \in Rule : Count(S \ A, r) >= Count(S, r) - Count(A, r)
<1>1. S \cap A = A
  OBVIOUS
<1>2. IsList(S \ A) /\ Cardinality(S \ A) = Cardinality(S) - Cardinality(A)
  BY <1>1, FS_Difference DEF IsList
<1>3. ASSUME NEW r \in Rule PROVE Count(S \ A, r) >= Count(S, r) - Count(A, r)
  <2> DEFINE P == {id \in S : id[2] = r}
             Q == {id \in A : id[2] = r}
  <2>1. {id \in S \ A : id[2] = r} = P \ Q /\ P \cap Q = Q
    OBVIOUS
  <2>2. IsFiniteSet(P) /\ Cardinality(P) \in Nat
    BY CountIsFinite DEF IsList, Count
  <2>3. Cardinality(Q) \in Nat
    <3>1. Q \in SUBSET P
      OBVIOUS
    <3> QED BY <2>2, <3>1, FS_Subset, FS_CardinalityType
  <2>4. Cardinality(P \ Q) = Cardinality(P) - Cardinality(Q)
    <3> HIDE DEF P, Q
    <3> QED BY <2>1, <2>2, FS_Difference
  <2>5. Count(S, r) = Cardinality(P) /\ Count(A, r) = Cardinality(Q)
    BY DEF Count
  <2>6. Count(S \ A, r) = Cardinality(P \ Q)
    BY <2>1 DEF Count
  <2> QED BY <2>2, <2>3, <2>4, <2>5, <2>6
<1> QED BY <1>2, <1>3

-----------------------------------------------------------------------------
(* A request names what it adds, or ids of the list it has read.                         *)
ListsAreFinite == DOMAIN rules = Direction /\ \A d \in Direction : IsList(rules[d])
RequestsAreNamed ==
  /\ DOMAIN arg = Request
  /\ \A c \in Request :
       /\ stage[c] \in {"add", "adding"} => \E r \in Rule : arg[c] = {r}
       /\ stage[c] \in {"remove", "removing"} => arg[c] \subseteq read[c][1].rules[direction[c]]

(* What a write puts in the place of the list.                                           *)
LEMMA WhatIsWanted ==
  ASSUME RulesInv, RequestsAreNamed, ListsAreFinite, NEW c \in Request,
         stage[c] \in {"adding", "removing", "releasing"}, Matching(c), NEW d \in Direction
  PROVE  \/ Wanted(c)[d] = rules[d] /\ ~(stage[c] = "removing" /\ direction[c] = d)
         \/ /\ \E r \in Rule : Wanted(c)[d] = Extended(rules[d], r)
            /\ ~(stage[c] = "removing" /\ direction[c] = d)
         \/ /\ Wanted(c)[d] = Renumbered(rules[d] \ arg[c]) /\ arg[c] \subseteq rules[d]
            /\ stage[c] = "removing" /\ direction[c] = d
<1>1. read[c][1].rules = rules
  BY DEF RulesInv, PagesAreTrue, Reading, Kept, Matching
<1>2. DOMAIN rules = Direction /\ Allow \in Rule
  BY RulesAssumption DEF ListsAreFinite
<1>3. CASE stage[c] = "adding"
  <2>1. PICK r \in Rule : arg[c] = {r}
    BY <1>3 DEF RequestsAreNamed
  <2>2. UNION {Extended(rules[direction[c]], s) : s \in arg[c]} = Extended(rules[direction[c]], r)
    BY <2>1
  <2>3. Wanted(c) = [rules EXCEPT ![direction[c]] = Extended(rules[direction[c]], r)]
    BY <1>1, <1>3, <2>2 DEF Wanted
  <2> QED BY <1>2, <1>3, <2>3
<1>4. CASE stage[c] = "removing"
  <2>1. Wanted(c) = [rules EXCEPT ![direction[c]] = Renumbered(rules[direction[c]] \ arg[c])]
    BY <1>1, <1>4 DEF Wanted
  <2>2. arg[c] \subseteq rules[direction[c]]
    BY <1>1, <1>4 DEF RequestsAreNamed
  <2> QED BY <1>2, <1>4, <2>1, <2>2
<1>5. CASE stage[c] = "releasing"
  <2>1. Wanted(c) = [e \in Direction |-> IF \E id \in rules[e] : id[2] = Allow THEN rules[e]
                                         ELSE Extended(rules[e], Allow)]
    BY <1>1, <1>5 DEF Wanted
  <2> QED BY <1>2, <1>5, <2>1
<1> QED BY <1>3, <1>4, <1>5

LEMMA WantedHasOneListEach ==
  ASSUME ListsAreFinite, NEW c \in Request, stage[c] \in {"adding", "removing", "releasing"},
         read[c][1].rules = rules
  PROVE  DOMAIN Wanted(c) = Direction
  BY DEF ListsAreFinite, Wanted

LEMMA WrittenIsAList ==
  ASSUME RulesInv, RequestsAreNamed, ListsAreFinite, NEW c \in Request, Write(c)
  PROVE  ListsAreFinite'
<1>1. CASE Matching(c)
  <2>1. stage[c] \in {"adding", "removing", "releasing"} /\ rules' = Wanted(c)
    BY <1>1 DEF Write
  <2>2. read[c][1].rules = rules
    BY <1>1, <2>1 DEF RulesInv, PagesAreTrue, Reading, Kept, Matching
  <2>3. ASSUME NEW d \in Direction PROVE IsList(rules'[d])
    <3>1. IsList(rules[d])
      BY DEF ListsAreFinite
    <3>2. CASE rules'[d] = rules[d]
      BY <3>1, <3>2
    <3>3. CASE \E r \in Rule : rules'[d] = Extended(rules[d], r)
      BY <3>1, <3>3, ExtendedKeeps
    <3>4. CASE rules'[d] = Renumbered(rules[d] \ arg[c]) /\ arg[c] \subseteq rules[d]
      BY <3>1, <3>4, WithoutKeeps, RenumberedKeeps
    <3> QED BY <1>1, <2>1, <3>2, <3>3, <3>4, WhatIsWanted
  <2> QED BY <2>1, <2>2, <2>3, WantedHasOneListEach DEF ListsAreFinite, IsList
<1>2. CASE ~Matching(c)
  BY <1>2 DEF Write, ListsAreFinite, IsList
<1> QED BY <1>1, <1>2

LEMMA NamesStep == RulesInv /\ ListsAreFinite /\ RequestsAreNamed /\ [RulesNext]_rulesVars
                   => ListsAreFinite' /\ RequestsAreNamed'
<1> SUFFICES ASSUME RulesInv, ListsAreFinite, RequestsAreNamed, [RulesNext]_rulesVars
             PROVE  ListsAreFinite' /\ RequestsAreNamed'
  OBVIOUS
<1>a. UNCHANGED rules => ListsAreFinite'
  BY DEF ListsAreFinite, IsList
<1> USE RulesAssumption DEF RequestsAreNamed, Start, Continue, work, RulesInv, RulesTypeOK
<1>1. ASSUME NEW c \in Request, NEW d \in Direction, NEW clean \in BOOLEAN, Page(c, d, clean)
      PROVE  ListsAreFinite' /\ RequestsAreNamed'
  BY <1>1, <1>a DEF Page
<1>2. ASSUME NEW c \in Request, NEW d \in Direction, NEW rule \in Rule, AddRule(c, d, rule)
      PROVE  ListsAreFinite' /\ RequestsAreNamed'
  BY <1>2, <1>a DEF AddRule
<1>3. ASSUME NEW c \in Request, NEW d \in Direction, NEW ids, RemoveRules(c, d, ids)
      PROVE  ListsAreFinite' /\ RequestsAreNamed'
  BY <1>3, <1>a DEF RemoveRules
<1>4. ASSUME NEW c \in Request, Release(c) PROVE ListsAreFinite' /\ RequestsAreNamed'
  BY <1>4, <1>a DEF Release
<1>5. ASSUME NEW c \in Request, Fetch(c) PROVE ListsAreFinite' /\ RequestsAreNamed'
  BY <1>5, <1>a DEF Fetch
<1>6. ASSUME NEW c \in Request, Fill(c) PROVE ListsAreFinite' /\ RequestsAreNamed'
  BY <1>6, <1>a DEF Fill
<1>7. ASSUME NEW c \in Request, ReadToChange(c) PROVE ListsAreFinite' /\ RequestsAreNamed'
  BY <1>7, <1>a DEF ReadToChange
<1>8. ASSUME NEW c \in Request, ReadToRemove(c) PROVE ListsAreFinite' /\ RequestsAreNamed'
  <2>1. Snapshot.rules = rules
    BY DEF Snapshot
  <2> QED BY <1>8, <1>a, <2>1 DEF ReadToRemove
<1>9. ASSUME NEW c \in Request, Write(c) PROVE ListsAreFinite' /\ RequestsAreNamed'
  <2>1. /\ stage' \in {[stage EXCEPT ![c] = "idle"], [stage EXCEPT ![c] = "clear"]}
        /\ read' = [read EXCEPT ![c] = Nothing]
        /\ \/ UNCHANGED <<direction, arg>>
           \/ /\ direction' = [direction EXCEPT ![c] = "ingress"] /\ arg' = [arg EXCEPT ![c] = {}]
    BY <1>9 DEF Write
  <2>2. RequestsAreNamed'
    BY <2>1
  <2> QED BY <1>9, <2>2, WrittenIsAList
<1>10. ASSUME NEW c \in Request, Clear(c) PROVE ListsAreFinite' /\ RequestsAreNamed'
  <2>1. /\ stage' = [stage EXCEPT ![c] = "idle"] /\ arg' = [arg EXCEPT ![c] = {}]
        /\ direction' = [direction EXCEPT ![c] = "ingress"] /\ UNCHANGED rules
    BY <1>10 DEF Clear
  <2>2. \A q \in Request : stage[q] # "fill" => read'[q] = read[q]
    BY <1>10 DEF Clear
  <2> QED BY <1>a, <2>1, <2>2
<1>11. ASSUME NEW d \in Direction, Evict(d) PROVE ListsAreFinite' /\ RequestsAreNamed'
  BY <1>11, <1>a DEF Evict
<1>12. ASSUME NEW d \in Direction, ChangedElsewhere(d) PROVE ListsAreFinite' /\ RequestsAreNamed'
  <2>1. IsList(rules[d])
    BY DEF ListsAreFinite
  <2>2. PICK T : rules' = [rules EXCEPT ![d] = T] /\ IsList(T)
    <3>1. CASE \E id \in rules[d] : id[1] = 1 /\ rules' = [rules EXCEPT ![d] = Renumbered(@ \ {id})]
      <4>1. PICK id \in rules[d] : rules' = [rules EXCEPT ![d] = Renumbered(rules[d] \ {id})]
        BY <3>1
      <4>2. IsList(Renumbered(rules[d] \ {id}))
        BY <2>1, WithoutKeeps, RenumberedKeeps
      <4> QED BY <4>1, <4>2
    <3>2. CASE \E r \in Rule \ {Allow} : rules' = [rules EXCEPT ![d] = Extended(@, r)]
      BY <2>1, <3>2, ExtendedKeeps
    <3> QED BY <1>12, <3>1, <3>2 DEF ChangedElsewhere
  <2>3. ListsAreFinite'
    BY <2>2 DEF ListsAreFinite, IsList
  <2> QED BY <1>12, <2>3 DEF ChangedElsewhere
<1>13. CASE UNCHANGED rulesVars
  BY <1>13, <1>a DEF rulesVars
<1> QED
  BY <1>1, <1>2, <1>3, <1>4, <1>5, <1>6, <1>7, <1>8, <1>9, <1>10, <1>11, <1>12, <1>13 DEF RulesNext

LEMMA NamesInvariance == RulesSpec => [](ListsAreFinite /\ RequestsAreNamed)
<1>1. RulesInit => ListsAreFinite /\ RequestsAreNamed
  <2> SUFFICES ASSUME RulesInit PROVE ListsAreFinite /\ RequestsAreNamed
    OBVIOUS
  <2>1. ASSUME NEW d \in Direction PROVE IsList(rules[d])
    <3>1. PICK r \in Rule \ {Allow} : rules[d] = {<<1, r>>}
      BY DEF RulesInit
    <3>2. r \in Rule /\ IsFiniteSet({<<1, r>>})
      BY <3>1, FS_Singleton
    <3> QED BY <3>1, <3>2 DEF IsList
  <2> QED BY <2>1 DEF RulesInit, ListsAreFinite, RequestsAreNamed
<1> QED BY <1>1, NamesStep, RulesInvariance, PTL DEF RulesSpec

(* if_match and the second reading of remove_rules: whatever others do to the list       *)
(* meanwhile, a write takes away what its removal names, all of it and nothing else, and *)
(* keeps the order of the rest, for any rules, requests and changes.                     *)
THEOREM OthersKeepTheirRules == RulesSpec => OthersRulesKept
<1> DEFINE NothingLost == writer' # NoOne =>
             \A d \in Direction, r \in Rule :
               Count(rules'[d], r) >= Count(rules[d], r) - Named(writer', d, r)
           NamedGone == writer' # NoOne /\ stage[writer'] = "removing" =>
             LET d == direction[writer']
             IN /\ arg[writer'] \subseteq rules[d]
                /\ Cardinality(rules'[d]) = Cardinality(rules[d]) - Cardinality(arg[writer'])
                /\ \A x, y \in rules'[d] : x[1] < y[1] =>
                     \E k, l \in rules[d] \ arg[writer'] : k[1] < l[1] /\ k[2] = x[2] /\ l[2] = y[2]
           Removed(d, ids) ==
             /\ ids \subseteq rules[d]
             /\ Cardinality(rules'[d]) = Cardinality(rules[d]) - Cardinality(ids)
             /\ KeepsOrder(rules'[d], rules[d] \ ids)
<1>1. ASSUME RulesInv, ListsAreFinite, RequestsAreNamed, RulesNext, writer' # NoOne
      PROVE  NothingLost /\ NamedGone
  <2>1. PICK c \in Request : Write(c)
    BY <1>1 DEF RulesNext, Page, AddRule, RemoveRules, Release, Start, Fetch, Fill, ReadToChange,
         ReadToRemove, Clear, Evict, ChangedElsewhere
  <2>2. /\ writer' = c /\ Matching(c) /\ rules' = Wanted(c)
        /\ stage[c] \in {"adding", "removing", "releasing"}
    BY <1>1, <2>1 DEF Write
  <2>3. ASSUME NEW d \in Direction, stage[c] = "removing", direction[c] = d
        PROVE  /\ arg[c] \subseteq rules[d] /\ IsList(rules[d] \ arg[c])
               /\ rules'[d] = Renumbered(rules[d] \ arg[c])
               /\ Cardinality(rules[d] \ arg[c]) = Cardinality(rules[d]) - Cardinality(arg[c])
    <3>1. arg[c] \subseteq rules[d] /\ rules'[d] = Renumbered(rules[d] \ arg[c])
      BY <1>1, <2>2, <2>3, WhatIsWanted
    <3> QED BY <1>1, <3>1, WithoutKeeps DEF ListsAreFinite
  <2>4. ASSUME NEW d \in Direction, NEW r \in Rule
        PROVE  Count(rules'[d], r) >= Count(rules[d], r) - Named(c, d, r)
    <3>1. IsList(rules[d]) /\ Count(rules[d], r) \in Nat
      BY <1>1, CountIsFinite DEF ListsAreFinite, IsList
    <3>2. CASE stage[c] = "removing" /\ direction[c] = d
      <4>1. Named(c, d, r) = Count(arg[c], r)
        BY <3>2 DEF Named
      <4>2. Count(rules'[d], r) = Count(rules[d] \ arg[c], r)
        BY <2>3, <3>2, RenumberedKeeps
      <4>3. Count(rules[d] \ arg[c], r) >= Count(rules[d], r) - Count(arg[c], r)
        BY <2>3, <3>1, <3>2, WithoutKeeps
      <4> QED BY <4>1, <4>2, <4>3
    <3>3. CASE ~(stage[c] = "removing" /\ direction[c] = d)
      <4>1. Named(c, d, r) = 0
        BY <3>3 DEF Named
      <4>2. rules'[d] = rules[d] \/ \E s \in Rule : rules'[d] = Extended(rules[d], s)
        BY <1>1, <2>2, <3>3, WhatIsWanted
      <4>3. Count(rules'[d], r) >= Count(rules[d], r)
        BY <3>1, <4>2, ExtendedKeeps
      <4>4. Count(rules'[d], r) \in Nat
        BY <3>1, <4>2, ExtendedKeeps, CountIsFinite DEF IsList
      <4> QED BY <3>1, <4>1, <4>3, <4>4
    <3> QED BY <3>2, <3>3
  <2>5. ASSUME stage[c] = "removing" PROVE Removed(direction[writer'], arg[writer'])
    <3>1. PICK d \in Direction : d = direction[c]
      BY <1>1 DEF RulesInv, RulesTypeOK
    <3>2. /\ arg[c] \subseteq rules[d] /\ IsList(rules[d] \ arg[c])
          /\ rules'[d] = Renumbered(rules[d] \ arg[c])
          /\ Cardinality(rules[d] \ arg[c]) = Cardinality(rules[d]) - Cardinality(arg[c])
      BY <2>3, <2>5, <3>1
    <3>3. /\ Cardinality(rules'[d]) = Cardinality(rules[d]) - Cardinality(arg[c])
          /\ KeepsOrder(rules'[d], rules[d] \ arg[c])
      BY <3>2, RenumberedKeeps
    <3> QED BY <2>2, <3>1, <3>2, <3>3
  <2>6. NothingLost
    BY <2>2, <2>4
  <2>7. NamedGone
    BY <2>2, <2>5 DEF KeepsOrder
  <2> QED BY <2>6, <2>7
<1>2. RulesInv /\ ListsAreFinite /\ RequestsAreNamed /\ [RulesNext]_rulesVars
      => (NothingLost \/ UNCHANGED rulesVars) /\ (NamedGone \/ UNCHANGED rulesVars)
  BY <1>1 DEF rulesVars
<1>3. RulesSpec => [][NothingLost]_rulesVars /\ [][NamedGone]_rulesVars
  BY <1>2, RulesInvariance, NamesInvariance, PTL DEF RulesSpec
<1> QED BY <1>3, Zenon DEF OthersRulesKept, NoLostRule, RemovesWhatWasNamed
=============================================================================
