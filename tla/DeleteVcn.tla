------------------------------ MODULE DeleteVcn ------------------------------
(***************************************************************************)
(* The deletion of a VCN: delete_vcn_by_id (core/oracle_fetcher.py), which *)
(* remove_vcn (services/extra_service.py) runs in a thread, against what   *)
(* launches of this program and the owner of the tenancy do to the same    *)
(* VCN meanwhile, and against its own failures halfway.                    *)
(*                                                                         *)
(* Resources that have to go before the VCN are subnets, internet gateways *)
(* and others, which the program never deletes: NAT and service gateways,  *)
(* peerings, security groups, VLANs, tables and lists besides the default. *)
(***************************************************************************)
EXTENDS Integers, FiniteSets

CONSTANTS
  Subnet, Gateway, Other,  \* all resources there can be
  Foreign,                 \* a route's target that is no internet gateway of the VCN
  Managed,                 \* subset of them that carries the tag of this program
  Deleter,                 \* requests in progress
  MaxOthers, MaxFailures   \* bounds: changes by others, failing calls

ASSUME VcnAssumption ==
  /\ Managed \subseteq Subnet \cup Gateway
  /\ Subnet \cap Gateway = {} /\ Foreign \notin Gateway
  /\ MaxOthers \in Nat /\ MaxFailures \in Nat

Resource == Subnet \cup Gateway \cup Other

VARIABLES
  vcn, owned,    \* the VCN exists; it carries the tag
  there,         \* its resources that exist
  used,          \* subnets with private or IPv6 addresses
  routes, etag,  \* targets in its default route table
  step,          \* of each deleter
  seen,          \* the subnets and gateways it has listed and not yet deleted
  table,         \* the table it has read: targets and etag
  others, failures

oci == <<vcn, owned, there, used, routes, etag>>
deleting == <<step, seen, table>>
vars == <<oci, deleting, others, failures>>

NoTable == [targets |-> {}, at |-> 0]

Init ==
  /\ vcn = TRUE /\ owned \in BOOLEAN
  /\ there \in SUBSET Resource
  /\ used = {} /\ etag = 0
  /\ routes \in SUBSET ((there \cap Gateway) \cup {Foreign})
  /\ step = [d \in Deleter |-> "idle"] /\ seen = [d \in Deleter |-> {}]
  /\ table = [d \in Deleter |-> NoTable]
  /\ others = 0 /\ failures = 0

MoveTo(d, s) == step' = [step EXCEPT ![d] = s]

-----------------------------------------------------------------------------
\* Everything is listed.  Of a VCN without the tag nothing may be left; of one with it
\* only tagged subnets and gateways, and no route but theirs.
Cascades(targets) ==
  /\ there \cap Other = {} /\ there \subseteq Managed
  /\ targets \subseteq there \cap Gateway

Survey(d) ==
  /\ step[d] = "idle" /\ vcn
  /\ IF owned /\ Cascades(routes)
     THEN MoveTo(d, "checking") /\ seen' = [seen EXCEPT ![d] = there]
     ELSE IF ~owned /\ there = {}
     THEN MoveTo(d, "vcn") /\ seen' = [seen EXCEPT ![d] = {}]
     ELSE UNCHANGED <<step, seen>>  \* refused
  /\ UNCHANGED <<oci, table, others, failures>>

\* No listed subnet may have an address.
CheckIps(d) ==
  /\ step[d] = "checking"
  /\ MoveTo(d, IF used \cap seen[d] = {} THEN "subnets" ELSE "idle")
  /\ UNCHANGED <<oci, seen, table, others, failures>>

\* One subnet after the other, and its end awaited; OCI keeps one that is in use.
DeleteSubnet(d, s) ==
  /\ step[d] = "subnets" /\ s \in seen[d] \cap Subnet
  /\ IF s \in there /\ s \notin used
     THEN there' = there \ {s} /\ seen' = [seen EXCEPT ![d] = @ \ {s}] /\ UNCHANGED step
     ELSE MoveTo(d, "idle") /\ UNCHANGED <<there, seen>>
  /\ UNCHANGED <<vcn, owned, used, routes, etag, table, others, failures>>

WithoutRoutes(d) == "gateways"  \* mutant: the routes stay
AfterSubnets(d) == IF seen[d] = {} THEN "vcn" ELSE "routes"
SubnetsGone(d) ==
  /\ step[d] = "subnets" /\ seen[d] \cap Subnet = {}
  /\ MoveTo(d, AfterSubnets(d))
  /\ UNCHANGED <<oci, seen, table, others, failures>>

ReadRoutes(d) ==
  /\ step[d] = "routes"
  /\ table' = [table EXCEPT ![d] = [targets |-> routes, at |-> etag]]
  /\ MoveTo(d, "rerouting")
  /\ UNCHANGED <<oci, seen, others, failures>>

AnyEtag(d) == TRUE  \* mutant: no if_match
SameEtag(d) == etag = table[d].at
\* The routes to the listed gateways go; OCI refuses another etag.
UpdateRoutes(d) ==
  /\ step[d] = "rerouting"
  /\ IF SameEtag(d)
     THEN routes' = table[d].targets \ seen[d] /\ etag' = etag + 1 /\ MoveTo(d, "gateways")
     ELSE MoveTo(d, "idle") /\ UNCHANGED <<routes, etag>>
  /\ UNCHANGED <<vcn, owned, there, used, seen, table, others, failures>>

\* OCI keeps a gateway that a route leads to.
DeleteGateway(d, g) ==
  /\ step[d] = "gateways" /\ g \in seen[d]
  /\ IF g \in there \ routes
     THEN there' = there \ {g} /\ seen' = [seen EXCEPT ![d] = @ \ {g}] /\ UNCHANGED step
     ELSE MoveTo(d, "idle") /\ UNCHANGED <<there, seen>>
  /\ UNCHANGED <<vcn, owned, used, routes, etag, table, others, failures>>

GatewaysGone(d) ==
  /\ step[d] = "gateways" /\ seen[d] = {}
  /\ MoveTo(d, "vcn")
  /\ UNCHANGED <<oci, seen, table, others, failures>>

\* OCI keeps a VCN that is not empty.
DropVcn(d) ==
  /\ step[d] = "vcn"
  /\ vcn' = (vcn /\ there # {})
  /\ MoveTo(d, "idle")
  /\ UNCHANGED <<owned, there, used, routes, etag, seen, table, others, failures>>

\* A call fails, a wait times out, the process dies: the request is over.
Abort(d) ==
  /\ step[d] # "idle" /\ failures < MaxFailures /\ failures' = failures + 1
  /\ MoveTo(d, "idle")
  /\ UNCHANGED <<oci, seen, table, others>>

Delete(d) ==
  \/ Survey(d) \/ CheckIps(d) \/ SubnetsGone(d) \/ ReadRoutes(d) \/ UpdateRoutes(d)
  \/ GatewaysGone(d) \/ DropVcn(d)
  \/ \E s \in Subnet : DeleteSubnet(d, s)
  \/ \E g \in Gateway : DeleteGateway(d, g)

-----------------------------------------------------------------------------
\* Others: a launch creates a subnet or a gateway with the tag or uses a subnet, an
\* instance ends, the owner creates or deletes what he likes and edits the routes.
Elsewhere ==
  /\ vcn /\ others < MaxOthers /\ others' = others + 1
  /\ \/ \E r \in Resource \ there : there' = there \cup {r} /\ UNCHANGED <<used, routes, etag>>
     \/ \E r \in there \ (routes \cup used) : there' = there \ {r} /\ UNCHANGED <<used, routes, etag>>
     \/ \E s \in there \cap Subnet : used' = used \cup {s} /\ UNCHANGED <<there, routes, etag>>
     \/ \E s \in used : used' = used \ {s} /\ UNCHANGED <<there, routes, etag>>
     \/ \E t \in (there \cap Gateway) \cup {Foreign} :
          /\ routes' \in {routes \cup {t}, routes \ {t}} /\ etag' = etag + 1
          /\ UNCHANGED <<there, used>>
  /\ UNCHANGED <<vcn, owned, deleting, failures>>

Next == (\E d \in Deleter : Delete(d) \/ Abort(d)) \/ Elsewhere

Spec == Init /\ [][Next]_vars

\* The operator repeats the request; calls fail only so often.
FairSpec == Spec /\ \A d \in Deleter : WF_vars(Delete(d))

-----------------------------------------------------------------------------
Own == others' = others

\* oci_helper/README.md: "Only a VCN that this program has created and that has no
\* foreign resources mixed in is deleted with its contents": a deletion takes away
\* tagged resources of a tagged VCN only, whatever is created or changed after it has
\* listed them, and the VCN itself only when it is empty.
OnlyOwnDeleted ==
  [][Own => /\ there \ there' \subseteq Managed
            /\ there' # there => owned
            /\ vcn # vcn' => there = {}]_vars

\* A deletion removes only routes to gateways with the tag, whatever the owner does to
\* the table while it is under way.
RoutesOfOthersKept == [][Own => routes \ routes' \subseteq Managed]_vars

\* What others have made or routed to stays.
OthersKept == OnlyOwnDeleted /\ RoutesOfOthersKept

\* What the program has created and does not use.
Deletable ==
  vcn /\ owned /\ there \subseteq Managed /\ used = {} /\ routes \subseteq there \cap Gateway

\* A deletion that failed halfway can be repeated until the VCN is gone: no order of its
\* failures, of two deletions at once and of what happens to the VCN meanwhile leaves a
\* VCN of this program that it refuses or fails to delete for ever.
RepeatedDeletionEnds == Deletable ~> ~Deletable
=============================================================================
