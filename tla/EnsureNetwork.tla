---------------------------- MODULE EnsureNetwork ----------------------------
(***************************************************************************)
(* The network an instance is launched into, and IPv6: _ensure_network,    *)
(* _ensure_internet_gateway, _find_available_subnet_cidr, create_ipv6,     *)
(* _find_available_ipv6_subnet_cidr and _ensure_ipv6_internet_route        *)
(* (core/oracle_fetcher.py).  They run in threads, for several tasks and   *)
(* requests at a time, against the same VCNs.                              *)
(*                                                                         *)
(* A subnet is named by its IPv4 block, a number: blocks are tried in      *)
(* their order, and OCI refuses a block that is taken.  One availability   *)
(* domain.  A VCN has its default route table, and the owner's subnet may  *)
(* have one of its own.  OCI replaces a route table whole; the two         *)
(* destinations that the program writes stand for a table.                 *)
(***************************************************************************)
EXTENDS Integers, FiniteSets

CONSTANTS
  Vcn, Block, Gateway,  \* all there can be; an empty VCN has a free block; a gateway may be in any VCN
  Foreign, None,        \* a route's target that is no internet gateway; no route
  Launch, Ipv6,         \* workers: launches and IPv6 requests
  MaxDisturbances       \* bound: failing calls and changes by the owner

ASSUME NetworkAssumption ==
  /\ Block \subseteq Nat /\ Block # {} /\ {Foreign, None} \cap Gateway = {} /\ Foreign # None
  /\ Launch \cap Ipv6 = {} /\ MaxDisturbances \in Nat

VARIABLES
  vcns,      \* those that exist; new: those that are still being provisioned
  new,
  subnets,   \* of each VCN: [block, public, ingress, table]
  gateways,  \* of each VCN: its gateways; enabled: those that are
  enabled,
  routes,    \* of each route table: its targets for 0.0.0.0/0 and ::/0
  etag,      \* of the route tables
  prefix, block6,  \* VCNs with an IPv6 prefix; VCN and block of subnets with an IPv6 block
  address6,  \* workers of Ipv6 whose instance has an address
  step, at,  \* of each worker: where it is; the VCN and block it works on
  todo, known,     \* of a launch: VCNs to try; the subnets it has listed
  table, target,   \* the route table it has read; the gateway it will route to
  online,    \* history: an IPv6 request began while the VCN had an enabled gateway
  made,      \* history: VCNs the program has created
  early,     \* history: a launch began during another one or while a VCN was provisioned
  overtaken, \* history: tables that a launch has replaced unseen (WriteDefault)
  disturbances

oci == <<vcns, new, subnets, gateways, enabled, routes, etag, prefix, block6, address6>>
work == <<step, at, todo, known, table, target>>
vars == <<oci, work, online, made, early, overtaken, disturbances>>

Worker == Launch \cup Ipv6
Place == Vcn \X Block
NoRoutes == [v4 |-> None, v6 |-> None]
RouteTable == Vcn \X {"default", "own"}
Default(v) == <<v, "default">>
NoTable == [id |-> None, rules |-> NoRoutes, etag |-> 0]
Nowhere == <<None, 0>>
Table(t) == [id |-> t, rules |-> routes[t], etag |-> etag[t]]

\* A VCN that the owner has made: without a public subnet, with an instance in a
\* private one, or in one that internet traffic may not enter.  In the latter it makes no
\* difference whether the subnet has a table of its own (its NAT route, say).
OwnersSubnet(v, ingress, kind) ==
  [block |-> 0, public |-> FALSE, ingress |-> ingress, table |-> <<v, kind>>]
Init ==
  /\ vcns \in SUBSET Vcn /\ new = {} /\ early = FALSE /\ overtaken = {}
  /\ \E ingress \in BOOLEAN, kind \in {"default", "own"} :
       /\ ingress \/ kind = "default"
       /\ subnets = [v \in Vcn |-> IF v \in vcns THEN {OwnersSubnet(v, ingress, kind)} ELSE {}]
  /\ gateways \in [Vcn -> SUBSET Gateway] /\ \A v \in Vcn \ vcns : gateways[v] = {}
  /\ \A v, w \in Vcn : v # w => gateways[v] \cap gateways[w] = {}
  /\ enabled \in SUBSET UNION {gateways[v] : v \in Vcn}
  /\ \E default \in [Vcn -> [v4 : Gateway \cup {Foreign, None}, v6 : {Foreign, None}]] :
       /\ \A v \in Vcn : /\ default[v].v4 \in gateways[v] \cup {Foreign, None}
                         /\ v \notin vcns => default[v] = NoRoutes
       /\ routes = [t \in RouteTable |-> IF t = Default(t[1]) THEN default[t[1]]
                                         ELSE [NoRoutes EXCEPT !.v4 = Foreign]]
  /\ etag = [t \in RouteTable |-> 0] /\ prefix = {} /\ block6 = {} /\ address6 = {}
  /\ step = [w \in Worker |-> "idle"] /\ at = [w \in Worker |-> Nowhere]
  /\ todo = [w \in Worker |-> {}] /\ known = [w \in Worker |-> [v \in Vcn |-> {}]]
  /\ table = [w \in Worker |-> NoTable] /\ target = [w \in Worker |-> None]
  /\ online = [w \in Ipv6 |-> FALSE] /\ made = {} /\ disturbances = 0

MoveTo(w, s) == step' = [step EXCEPT ![w] = s]
\* What a worker has read is its local state.
Forget(w) ==
  /\ todo' = [todo EXCEPT ![w] = {}] /\ known' = [known EXCEPT ![w] = [v \in Vcn |-> {}]]
  /\ table' = [table EXCEPT ![w] = NoTable] /\ target' = [target EXCEPT ![w] = None]
  /\ at' = IF w \in address6 THEN at ELSE [at EXCEPT ![w] = Nowhere]
  /\ online' = [l \in Ipv6 |-> l # w /\ online[l]]
V(w) == at[w][1]
Taken(list) == {s.block : s \in list}

-----------------------------------------------------------------------------
\* _ensure_network.

ToTryWithSubnets == {v \in vcns \ new : subnets[v] # {}}  \* mutant: empty VCNs are passed over
ToTry == vcns \ new
\* A public subnet that there is will do; otherwise VCNs are tried one by one.
ListNetwork(w) ==
  /\ step[w] = "idle"
  /\ IF \E v \in vcns \ new : \E s \in subnets[v] : s.public
     THEN UNCHANGED <<step, todo, known>>  \* and the launch goes on
     ELSE /\ MoveTo(w, "choosing")
          /\ todo' = [todo EXCEPT ![w] = ToTry]
          /\ known' = [known EXCEPT ![w] = subnets]
  /\ early' = (early \/ new # {} \/ \E l \in Launch \ {w} : step[l] # "idle")
  /\ UNCHANGED <<oci, at, table, target, online, made, overtaken, disturbances>>

\* _find_available_subnet_cidr: the first block that no listed subnet has.
Choose(w, v) ==
  /\ step[w] = "choosing" /\ v \in todo[w]
  /\ todo' = [todo EXCEPT ![w] = @ \ {v}]
  /\ LET free == Block \ Taken(known[w][v])
     IN IF free = {} THEN UNCHANGED <<step, at>>
        ELSE /\ at' = [at EXCEPT ![w] = <<v, CHOOSE b \in free : \A c \in free : b <= c>>]
             /\ MoveTo(w, "gateway")
  /\ UNCHANGED <<oci, known, table, target, online, made, early, overtaken, disturbances>>

\* No VCN will do: a new one, and its first block.
CreateVcn(w, v) ==
  /\ step[w] = "choosing" /\ todo[w] = {} /\ v \notin vcns
  /\ vcns' = vcns \cup {v} /\ new' = new \cup {v} /\ made' = made \cup {v}
  /\ at' = [at EXCEPT ![w] = <<v, CHOOSE b \in Block : \A c \in Block : b <= c>>]
  /\ MoveTo(w, "waiting")
  /\ UNCHANGED <<subnets, gateways, enabled, routes, etag, prefix, block6, address6, todo, known,
                 table, target, online, early, overtaken, disturbances>>

\* OCI has provisioned it; the launch that waits for that goes on.
Provisioned(v) ==
  /\ v \in new /\ new' = new \ {v}
  /\ step' = [w \in Worker |-> IF step[w] = "waiting" /\ V(w) = v THEN "gateway" ELSE step[w]]
  /\ UNCHANGED <<vcns, subnets, gateways, enabled, routes, etag, prefix, block6, address6, at, todo,
                 known, table, target, online, made, early, overtaken, disturbances>>

\* _ensure_internet_gateway: the gateways and the route table.  A VCN whose default
\* route leads elsewhere is left alone.
ReadGateways(w) ==
  /\ step[w] = "gateway"
  /\ table' = [table EXCEPT ![w] = Table(Default(V(w)))]
  /\ LET default == routes[Default(V(w))].v4
         usable == IF default # None THEN gateways[V(w)] \cap {default}
                   ELSE IF gateways[V(w)] \cap enabled # {} THEN gateways[V(w)] \cap enabled
                   ELSE gateways[V(w)]
     IN IF default # None /\ usable = {} THEN MoveTo(w, "choosing") /\ UNCHANGED target
        ELSE /\ MoveTo(w, "enabling")
             /\ IF usable = {} THEN target' = [target EXCEPT ![w] = None]
                ELSE \E g \in usable : target' = [target EXCEPT ![w] = g]
  /\ UNCHANGED <<oci, at, todo, known, online, made, early, overtaken, disturbances>>

EnableOnlyNew(w) ==  \* mutant: a gateway that was disabled stays so
  /\ step[w] = "enabling" /\ target[w] # None
  /\ MoveTo(w, IF table[w].rules.v4 = target[w] THEN "subnet" ELSE "routing")
  /\ UNCHANGED <<oci, at, todo, known, table, target, online, made, early, overtaken, disturbances>>
\* The gateway that was found is enabled.
Enable(w) ==
  /\ step[w] = "enabling" /\ target[w] # None
  /\ enabled' = enabled \cup {target[w]}
  /\ MoveTo(w, IF table[w].rules.v4 = target[w] THEN "subnet" ELSE "routing")
  /\ UNCHANGED <<vcns, new, subnets, gateways, routes, etag, prefix, block6, address6, at, todo, known,
                 table, target, online, made, early, overtaken, disturbances>>

Attached == UNION {gateways[v] : v \in Vcn}
\* None was found: a new one.
CreateGateway(w, g) ==
  /\ step[w] = "enabling" /\ target[w] = None /\ g \notin Attached
  /\ gateways' = [gateways EXCEPT ![V(w)] = @ \cup {g}]
  /\ enabled' = enabled \cup {g}
  /\ target' = [target EXCEPT ![w] = g]
  /\ MoveTo(w, "routing")
  /\ UNCHANGED <<vcns, new, subnets, routes, etag, prefix, block6, address6, at, todo, known, table,
                 online, made, early, overtaken, disturbances>>

DefaultOnly(w) == [NoRoutes EXCEPT !.v4 = target[w]]  \* mutant: other rules are dropped
WithDefault(w) == [table[w].rules EXCEPT !.v4 = target[w]]
\* The table is not the one that the worker has read any more.
Overtaken(w) == etag[table[w].id] # table[w].etag
\* update_route_table with the rules that were read and the new one, without if_match.
WriteDefault(w) ==
  /\ step[w] = "routing" /\ w \in Launch
  /\ routes' = [routes EXCEPT ![table[w].id] = WithDefault(w)]
  /\ etag' = [etag EXCEPT ![table[w].id] = @ + 1]
  /\ overtaken' = IF Overtaken(w) THEN overtaken \cup {table[w].id} ELSE overtaken
  /\ MoveTo(w, "subnet")
  /\ UNCHANGED <<vcns, new, subnets, gateways, enabled, prefix, block6, address6, at, todo, known, table,
                 target, online, made, early, disturbances>>

\* create_subnet, which OCI refuses if the block has been taken; the launch goes on.
CreateSubnet(w) ==
  /\ step[w] = "subnet" /\ w \in Launch
  /\ subnets' = IF at[w][2] \in Taken(subnets[V(w)]) THEN subnets
                ELSE [subnets EXCEPT ![V(w)] =
                        @ \cup {[block |-> at[w][2], public |-> TRUE, ingress |-> TRUE,
                                  table |-> Default(V(w))]}]
  /\ MoveTo(w, "idle") /\ Forget(w)
  /\ UNCHANGED <<vcns, new, gateways, enabled, routes, etag, prefix, block6, address6, made, early,
                 overtaken, disturbances>>

-----------------------------------------------------------------------------
\* create_ipv6 for the instance of the worker, which is in a subnet that exists.

SkipRoute(w) == IF w \in address6 THEN "done" ELSE "prefix"  \* mutant: an address is returned at once
FirstStep(w) == IF w \in address6 THEN "route" ELSE "prefix"
BeginIpv6(w, v) ==
  /\ step[w] = "idle" /\ v \in vcns \ new
  /\ \E s \in subnets[v] :
       /\ w \in address6 => at[w] = <<v, s.block>>
       /\ at' = [at EXCEPT ![w] = <<v, s.block>>]
  /\ online' = [online EXCEPT ![w] = gateways[v] \cap enabled # {}]
  /\ MoveTo(w, FirstStep(w))
  /\ UNCHANGED <<oci, todo, known, table, target, made, early, overtaken, disturbances>>

AddPrefix(w) ==
  /\ step[w] = "prefix"
  /\ prefix' = prefix \cup {V(w)}
  /\ MoveTo(w, "block")
  /\ UNCHANGED <<vcns, new, subnets, gateways, enabled, routes, etag, block6, address6, at, todo, known,
                 table, target, online, made, early, overtaken, disturbances>>

\* The subnet gets the first /64 that is free: which one makes no difference here.
AddBlock(w) ==
  /\ step[w] = "block"
  /\ block6' = block6 \cup {at[w]}
  /\ MoveTo(w, "route")
  /\ UNCHANGED <<vcns, new, subnets, gateways, enabled, routes, etag, prefix, address6, at, todo, known,
                 table, target, online, made, early, overtaken, disturbances>>

\* _ensure_ipv6_internet_route: nothing to do, or an enabled gateway to route to.
ReadRoutes6(w) ==
  /\ step[w] = "route"
  /\ \E s \in subnets[V(w)] :
       /\ s.block = at[w][2]
       /\ table' = [table EXCEPT ![w] = Table(s.table)]
       /\ LET usable == gateways[V(w)] \cap enabled
          IN IF ~s.ingress \/ routes[s.table].v6 # None \/ usable = {}
             THEN MoveTo(w, "address") /\ UNCHANGED target
             ELSE MoveTo(w, "routing") /\ \E g \in usable : target' = [target EXCEPT ![w] = g]
  /\ UNCHANGED <<oci, at, todo, known, online, made, early, overtaken, disturbances>>

\* update_route_table with if_match.
WriteRoute6(w) ==
  /\ step[w] = "routing" /\ w \in Ipv6
  /\ IF ~Overtaken(w)
     THEN /\ routes' = [routes EXCEPT ![table[w].id] = [table[w].rules EXCEPT !.v6 = target[w]]]
          /\ etag' = [etag EXCEPT ![table[w].id] = @ + 1]
          /\ MoveTo(w, "address") /\ UNCHANGED <<at, todo, known, table, target, online>>
     ELSE MoveTo(w, "idle") /\ Forget(w) /\ UNCHANGED <<routes, etag>>
  /\ UNCHANGED <<vcns, new, subnets, gateways, enabled, prefix, block6, address6, made, early,
                 overtaken, disturbances>>

\* The address, new or the one there was.
CreateAddress(w) ==
  /\ step[w] = "address"
  /\ address6' = address6 \cup {w}
  /\ MoveTo(w, "done")
  /\ UNCHANGED <<vcns, new, subnets, gateways, enabled, routes, etag, prefix, block6, at, todo, known,
                 table, target, online, made, early, overtaken, disturbances>>

Answer(w) ==
  /\ step[w] = "done"
  /\ MoveTo(w, "idle") /\ Forget(w)
  /\ UNCHANGED <<oci, made, early, overtaken, disturbances>>

-----------------------------------------------------------------------------
Disturb == disturbances < MaxDisturbances /\ disturbances' = disturbances + 1

\* A call fails, a wait times out, the process dies: the attempt is over.
Abort(w) ==
  /\ step[w] # "idle" /\ Disturb
  /\ MoveTo(w, "idle") /\ Forget(w)
  /\ UNCHANGED <<oci, made, early, overtaken>>

\* The owner adds an enabled gateway.
OwnerAddsGateway(v, g) ==
  /\ Disturb
  /\ v \in vcns \ new /\ g \notin Attached
  /\ gateways' = [gateways EXCEPT ![v] = @ \cup {g}] /\ enabled' = enabled \cup {g}
  /\ UNCHANGED <<vcns, new, subnets, routes, etag, prefix, block6, address6, work, online, made, early, overtaken>>

Next ==
  \/ \E w \in Launch :
       \/ ListNetwork(w) \/ ReadGateways(w) \/ Enable(w) \/ WriteDefault(w) \/ CreateSubnet(w)
       \/ \E v \in Vcn : Choose(w, v) \/ CreateVcn(w, v)
       \/ \E g \in Gateway : CreateGateway(w, g)
  \/ \E w \in Ipv6 :
       \/ \E v \in Vcn : BeginIpv6(w, v)
       \/ AddPrefix(w) \/ AddBlock(w) \/ ReadRoutes6(w) \/ WriteRoute6(w) \/ CreateAddress(w)
       \/ Answer(w)
  \/ \E w \in Worker : Abort(w)
  \/ \E v \in Vcn : Provisioned(v)
  \/ \E v \in Vcn, g \in Gateway : OwnerAddsGateway(v, g)

Spec == Init /\ [][Next]_vars

-----------------------------------------------------------------------------
\* "Reuse an existing VCN or public subnet first, create a public subnet if necessary":
\* when a launch creates a subnet, the default route of its VCN leads to an enabled
\* internet gateway of that VCN, whatever other launches do to the VCN meanwhile.
CreatedSubnetIsOnline ==
  [][\A v \in Vcn : Cardinality(subnets'[v]) > Cardinality(subnets[v]) =>
       routes[Default(v)].v4 \in gateways[v] \cap enabled]_vars

\* test_network_creates_public_subnet_in_existing_vcn_when_needed: attempts that fail
\* anywhere and are repeated one after the other never make a second VCN, unless one begins
\* while the VCN of another is still being provisioned, which it does not see.
AtMostOneVcn == early \/ Cardinality(made) <= 1

\* test_internet_gateway_reuses_existing_resource_and_preserves_route: no route that is
\* in a table is removed or redirected, but by a launch that replaces a table which was
\* written after it had read it (it sends no if_match).
RoutesKept ==
  [][\A t \in RouteTable :
       \/ /\ routes[t].v4 # None => routes'[t].v4 = routes[t].v4
          /\ routes[t].v6 # None => routes'[t].v6 = routes[t].v6
       \/ \E w \in Launch : step[w] = "routing" /\ table[w].id = t /\ Overtaken(w)]_vars

\* create_ipv6 also completes what there is: an answer with an address comes from a
\* subnet with an IPv6 block and, if the VCN was online when the request began and the
\* subnet may be entered, with a route for IPv6 in the subnet's table, unless a launch has
\* lost it (RoutesKept).
Ipv6IsOnline ==
  \A w \in Ipv6 : step[w] = "done" =>
    /\ at[w] \in block6 /\ V(w) \in prefix
    /\ online[w] => \A s \in subnets[V(w)] :
         s.block = at[w][2] /\ s.ingress /\ s.table \notin overtaken => routes[s.table].v6 # None
=============================================================================
