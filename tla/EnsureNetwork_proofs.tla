------------------------ MODULE EnsureNetwork_proofs ------------------------
(* Proofs about EnsureNetwork: which routes a launch or an IPv6 request may change, that     *)
(* what they make is online, and that one VCN is enough.                                     *)
EXTENDS EnsureNetwork, FiniteSetTheorems, TLAPS

Target == Gateway \cup {Foreign, None}
Rules == [v4 : Target, v6 : Target]
Reading == [id : RouteTable \cup {None}, rules : Rules, etag : Nat]
Placed == {"waiting", "gateway", "enabling", "routing", "subnet", "prefix", "block", "route",
           "address", "done"}

TypeOK ==
  /\ step \in [Worker -> Placed \cup {"idle", "choosing"}]
  /\ DOMAIN at = Worker /\ at = [w \in Worker |-> at[w]]
  /\ \A w \in Worker : step[w] \in Placed => V(w) \in Vcn
  /\ table \in [Worker -> Reading]
  /\ target \in [Worker -> Target]
  /\ gateways \in [Vcn -> SUBSET Gateway]
  /\ routes \in [RouteTable -> Rules] /\ etag \in [RouteTable -> Nat]
  /\ DOMAIN subnets = Vcn /\ \A v \in Vcn : \A s \in subnets[v] : s.table \in RouteTable

(* An etag names one content of a table; a launch has read the default table. *)
TableRead ==
  \A w \in Worker : step[w] \in {"enabling", "routing"} =>
    /\ table[w].id \in RouteTable /\ (w \in Launch => table[w].id = Default(V(w)))
    /\ table[w].etag <= etag[table[w].id]
    /\ ~Overtaken(w) => table[w].rules = routes[table[w].id]

(* A worker that will write a route has read that there is none. *)
NothingReplaced ==
  /\ \A w \in Worker : step[w] = "enabling" => w \in Launch /\ table[w].rules.v4 \in {None, target[w]}
  /\ \A w \in Launch : step[w] = "routing" => table[w].rules.v4 = None
  /\ \A w \in Ipv6 : step[w] = "routing" => table[w].rules.v6 = None

IInv == TypeOK /\ TableRead /\ NothingReplaced

LEMMA InvInit == Init => IInv
<1> SUFFICES ASSUME Init PROVE IInv
  OBVIOUS
<1>1. NoRoutes \in Rules /\ None \in Target
  BY DEF NoRoutes, Rules, Target
<1>2. routes \in [RouteTable -> Rules]
  <2>1. PICK default \in [Vcn -> [v4 : Gateway \cup {Foreign, None}, v6 : {Foreign, None}]] :
          routes = [t \in RouteTable |-> IF t = Default(t[1]) THEN default[t[1]]
                                         ELSE [NoRoutes EXCEPT !.v4 = Foreign]]
    BY DEF Init
  <2>2. [NoRoutes EXCEPT !.v4 = Foreign] \in Rules /\ \A v \in Vcn : default[v] \in Rules
    BY DEF NoRoutes, Rules, Target
  <2>3. \A t \in RouteTable : t[1] \in Vcn
    BY DEF RouteTable
  <2> QED BY <2>1, <2>2, <2>3
<1>3. DOMAIN subnets = Vcn /\ \A v \in Vcn : \A s \in subnets[v] : s.table \in RouteTable
  BY DEF Init, OwnersSubnet, RouteTable
<1>4. NoTable \in Reading
  BY <1>1 DEF NoTable, Reading
<1>5. TypeOK
  BY <1>1, <1>2, <1>3, <1>4 DEF Init, TypeOK, Placed
<1> QED BY <1>5 DEF Init, IInv, TableRead, NothingReplaced, Worker

(* Steps of a worker that writes no table leave what others have read as it is. *)
LEMMA OthersUndisturbed ==
  ASSUME IInv, TypeOK', NEW w \in Worker,
         \A u \in Worker \ {w} : step'[u] = step[u] /\ at'[u] = at[u]
                                  /\ table'[u] = table[u] /\ target'[u] = target[u],
         UNCHANGED <<routes, etag>>,
         step'[w] \notin {"enabling", "routing"}
  PROVE  IInv'
<1>1. TableRead'
  BY DEF IInv, TableRead, Overtaken, V
<1>2. NothingReplaced'
  BY DEF IInv, NothingReplaced, Worker
<1> QED BY <1>1, <1>2 DEF IInv

(* What a request does with the table of its subnet. *)
ReadsTable(w, s) ==
  /\ s.block = at[w][2]
  /\ table' = [table EXCEPT ![w] = Table(s.table)]
  /\ \/ /\ ~s.ingress \/ routes[s.table].v6 # None \/ gateways[V(w)] \cap enabled = {}
        /\ MoveTo(w, "address") /\ UNCHANGED target
     \/ /\ routes[s.table].v6 = None /\ MoveTo(w, "routing")
        /\ \E g \in gateways[V(w)] \cap enabled : target' = [target EXCEPT ![w] = g]

LEMMA InvStep == IInv /\ [Next]_vars => IInv'
<1> SUFFICES ASSUME IInv, [Next]_vars PROVE IInv'
  OBVIOUS
<1> USE DEF MoveTo
<1>0. None \in Target /\ NoTable \in Reading
  BY DEF Target, NoTable, NoRoutes, Rules, Reading
<1>a. ASSUME NEW w \in Worker, Forget(w) PROVE
          /\ DOMAIN at' = Worker /\ at' = [u \in Worker |-> at'[u]]
          /\ table' \in [Worker -> Reading] /\ target' \in [Worker -> Target]
          /\ \A u \in Worker \ {w} : at'[u] = at[u] /\ table'[u] = table[u] /\ target'[u] = target[u]
  BY <1>0, <1>a DEF Forget, IInv, TypeOK
<1>1. ASSUME NEW w \in Launch, ListNetwork(w) PROVE IInv'
  <2>1. w \in Worker /\ TypeOK'
    BY <1>1 DEF ListNetwork, IInv, TypeOK, Placed, Worker, V, oci
  <2> QED BY <1>1, <2>1, OthersUndisturbed DEF ListNetwork, IInv, TypeOK, oci
<1>2. ASSUME NEW w \in Launch, NEW v \in Vcn, Choose(w, v) PROVE IInv'
  <2>1. w \in Worker
    BY DEF Worker
  <2>2. TypeOK'
    BY <1>2, <2>1 DEF Choose, IInv, TypeOK, Placed, V, oci
  <2>3. \A u \in Worker \ {w} : step'[u] = step[u] /\ at'[u] = at[u]
    BY <1>2, <2>1 DEF Choose, IInv, TypeOK
  <2>4. step'[w] \in {"choosing", "gateway"}
    BY <1>2, <2>1 DEF Choose, IInv, TypeOK
  <2> QED BY <1>2, <2>1, <2>2, <2>3, <2>4, OthersUndisturbed DEF Choose, oci
<1>3. ASSUME NEW w \in Launch, NEW v \in Vcn, CreateVcn(w, v) PROVE IInv'
  <2>1. w \in Worker
    BY DEF Worker
  <2>2. PICK b : at' = [at EXCEPT ![w] = <<v, b>>]
    BY <1>3 DEF CreateVcn
  <2>3. /\ step' \in [Worker -> Placed \cup {"idle", "choosing"}] /\ step'[w] = "waiting"
        /\ V(w)' = v
        /\ \A u \in Worker \ {w} : step'[u] = step[u] /\ at'[u] = at[u]
        /\ UNCHANGED <<routes, etag, gateways, subnets, table, target>>
    BY <1>3, <2>1, <2>2 DEF CreateVcn, IInv, TypeOK, Placed, V
  <2>4. TypeOK'
    BY <2>1, <2>2, <2>3 DEF IInv, TypeOK, V
  <2> QED BY <2>1, <2>3, <2>4, OthersUndisturbed
<1>4. ASSUME NEW v \in Vcn, Provisioned(v) PROVE IInv'
  <2>1. \A u \in Worker : /\ step'[u] \in {step[u], "gateway"}
                          /\ step'[u] \in Placed => step[u] \in Placed
    BY <1>4 DEF Provisioned, IInv, TypeOK, Placed
  <2>2. TypeOK'
    BY <1>4, <2>1 DEF Provisioned, IInv, TypeOK, Placed, V
  <2> QED BY <1>4, <2>1, <2>2 DEF Provisioned, IInv, TableRead, NothingReplaced, Overtaken, V, Worker
<1>5. ASSUME NEW w \in Launch, ReadGateways(w) PROVE IInv'
  <2> DEFINE r == Table(Default(V(w)))
  <2>0. w \in Worker /\ V(w) \in Vcn
    BY <1>5 DEF ReadGateways, Worker, IInv, TypeOK, Placed
  <2>1. /\ w \in Worker /\ V(w) \in Vcn /\ r \in Reading
        /\ r.id = Default(V(w)) /\ r.id \in RouteTable
        /\ r.rules = routes[r.id] /\ r.etag = etag[r.id] /\ etag[r.id] \in Nat
    BY <2>0 DEF IInv, TypeOK, Table, Reading, Default, RouteTable
  <2>2. /\ step' \in [Worker -> Placed \cup {"idle", "choosing"}]
        /\ step'[w] \in {"choosing", "enabling"}
        /\ \A u \in Worker \ {w} : step'[u] = step[u] /\ table'[u] = table[u]
        /\ table'[w] = r
    BY <1>5, <2>1 DEF ReadGateways, IInv, TypeOK, Placed
  <2>3. /\ target' \in [Worker -> Target]
        /\ \A u \in Worker \ {w} : target'[u] = target[u]
        /\ step'[w] = "enabling" => r.rules.v4 \in {None, target'[w]}
    BY <1>5, <2>1, <1>0 DEF ReadGateways, IInv, TypeOK, Target
  <2>4. TypeOK'
    BY <1>5, <2>1, <2>2, <2>3 DEF ReadGateways, IInv, TypeOK, Placed, V, oci
  <2> HIDE DEF r
  <2>5. TableRead'
    BY <1>5, <2>1, <2>2 DEF ReadGateways, IInv, TypeOK, TableRead, Overtaken, V, oci
  <2>6. NothingReplaced'
    BY <1>5, <2>1, <2>2, <2>3 DEF ReadGateways, IInv, NothingReplaced, Worker
  <2> QED BY <2>4, <2>5, <2>6 DEF IInv
<1>6. ASSUME NEW w \in Launch, Enable(w) PROVE IInv'
  <2>1. /\ w \in Worker /\ step[w] = "enabling" /\ table[w].rules.v4 \in {None, target[w]}
        /\ w \notin Ipv6
    BY <1>6, NetworkAssumption DEF Enable, Worker, IInv, NothingReplaced
  <2>2. /\ step' \in [Worker -> Placed \cup {"idle", "choosing"}]
        /\ step'[w] \in {"subnet", "routing"}
        /\ step'[w] = "routing" => table[w].rules.v4 = None
        /\ \A u \in Worker \ {w} : step'[u] = step[u]
    BY <1>6, <2>1 DEF Enable, IInv, TypeOK, Placed
  <2>3. TypeOK'
    BY <1>6, <2>1, <2>2 DEF Enable, IInv, TypeOK, Placed, V
  <2>4. TableRead'
    BY <1>6, <2>1, <2>2 DEF Enable, IInv, TableRead, Overtaken, V
  <2>5. NothingReplaced'
    BY <1>6, <2>1, <2>2 DEF Enable, IInv, NothingReplaced, Worker
  <2> QED BY <2>3, <2>4, <2>5 DEF IInv
<1>7. ASSUME NEW w \in Launch, NEW g \in Gateway, CreateGateway(w, g) PROVE IInv'
  <2>1. /\ w \in Worker /\ step[w] = "enabling" /\ table[w].rules.v4 = None
        /\ w \notin Ipv6 /\ V(w) \in Vcn
    BY <1>7, NetworkAssumption
       DEF CreateGateway, Worker, IInv, TypeOK, Placed, NothingReplaced
  <2>2. /\ step' = [step EXCEPT ![w] = "routing"]
        /\ \A u \in Worker \ {w} : step'[u] = step[u] /\ target'[u] = target[u]
        /\ step'[w] = "routing"
    BY <1>7, <2>1 DEF CreateGateway, IInv, TypeOK
  <2>3. TypeOK'
    BY <1>7, <2>1, <2>2 DEF CreateGateway, IInv, TypeOK, Placed, V, Target
  <2>4. TableRead'
    BY <1>7, <2>1, <2>2 DEF CreateGateway, IInv, TableRead, Overtaken, V
  <2>5. NothingReplaced'
    BY <1>7, <2>1, <2>2 DEF CreateGateway, IInv, NothingReplaced, Worker
  <2> QED BY <2>3, <2>4, <2>5 DEF IInv
<1>8. ASSUME NEW w \in Launch, WriteDefault(w) PROVE IInv'
  <2>1. /\ w \in Worker /\ table[w].id \in RouteTable /\ WithDefault(w) \in Rules
    BY <1>8 DEF WriteDefault, Worker, IInv, TypeOK, TableRead, WithDefault, Rules, Reading
  <2>2. /\ step'[w] = "subnet"
        /\ \A u \in Worker \ {w} : step'[u] = step[u]
        /\ step' \in [Worker -> Placed \cup {"idle", "choosing"}]
    BY <1>8, <2>1 DEF WriteDefault, IInv, TypeOK, Placed
  <2>3. TypeOK'
    BY <1>8, <2>1, <2>2 DEF WriteDefault, IInv, TypeOK, Placed, V
  <2>4. TableRead'
    <3> SUFFICES ASSUME NEW u \in Worker \ {w}, step[u] \in {"enabling", "routing"}
                 PROVE  /\ table[u].etag <= etag'[table[u].id]
                        /\ etag'[table[u].id] = table[u].etag => table[u].rules = routes'[table[u].id]
      BY <1>8, <2>2 DEF WriteDefault, IInv, TableRead, Overtaken, V
    <3>1. /\ table[u].id \in RouteTable /\ etag[table[u].id] \in Nat /\ table[u].etag \in Nat
          /\ table[u].etag <= etag[table[u].id]
          /\ etag[table[u].id] = table[u].etag => table[u].rules = routes[table[u].id]
      BY DEF IInv, TypeOK, TableRead, Overtaken, Reading
    <3>2. CASE table[u].id = table[w].id
      BY <1>8, <2>1, <3>1, <3>2 DEF WriteDefault, IInv, TypeOK
    <3>3. CASE table[u].id # table[w].id
      <4>1. etag'[table[u].id] = etag[table[u].id] /\ routes'[table[u].id] = routes[table[u].id]
        BY <1>8, <2>1, <3>1, <3>3 DEF WriteDefault, IInv, TypeOK
      <4> QED BY <3>1, <4>1
    <3> QED BY <3>2, <3>3
  <2>5. NothingReplaced'
    BY <1>8, <2>1, <2>2 DEF WriteDefault, IInv, NothingReplaced, Worker
  <2> QED BY <2>3, <2>4, <2>5 DEF IInv
<1>9. ASSUME NEW w \in Launch, CreateSubnet(w) PROVE IInv'
  <2>1. w \in Worker
    BY DEF Worker
  <2>2. /\ step' = [step EXCEPT ![w] = "idle"] /\ step'[w] = "idle"
        /\ \A u \in Worker \ {w} : step'[u] = step[u]
        /\ step' \in [Worker -> Placed \cup {"idle", "choosing"}]
        /\ Forget(w) /\ UNCHANGED <<routes, etag, gateways>>
    BY <1>9, <2>1 DEF CreateSubnet, IInv, TypeOK
  <2>4. DOMAIN subnets' = Vcn /\ \A v \in Vcn : \A s \in subnets'[v] : s.table \in RouteTable
    <3> DEFINE s == [block |-> at[w][2], public |-> TRUE, ingress |-> TRUE, table |-> Default(V(w))]
    <3>1. subnets' = subnets \/ subnets' = [subnets EXCEPT ![V(w)] = @ \cup {s}]
      BY <1>9 DEF CreateSubnet
    <3>2. s.table \in RouteTable
      BY <1>9, <2>1 DEF CreateSubnet, IInv, TypeOK, Placed, Default, RouteTable
    <3> HIDE DEF s
    <3> QED BY <3>1, <3>2 DEF IInv, TypeOK
  <2>3. TypeOK'
    BY <1>a, <2>1, <2>2, <2>4 DEF IInv, TypeOK, Placed, V
  <2> QED BY <1>a, <2>1, <2>2, <2>3, OthersUndisturbed
<1>10. ASSUME NEW w \in Ipv6, NEW v \in Vcn, BeginIpv6(w, v) PROVE IInv'
  <2>1. w \in Worker
    BY DEF Worker
  <2>2. PICK s \in subnets[v] : at' = [at EXCEPT ![w] = <<v, s.block>>]
    BY <1>10 DEF BeginIpv6
  <2>3. /\ step'[w] \in {"route", "prefix"} /\ V(w)' = v
        /\ step' \in [Worker -> Placed \cup {"idle", "choosing"}]
        /\ \A u \in Worker \ {w} : step'[u] = step[u] /\ at'[u] = at[u]
        /\ UNCHANGED <<routes, etag, gateways, subnets, table, target>>
    BY <1>10, <2>1, <2>2 DEF BeginIpv6, FirstStep, IInv, TypeOK, Placed, V, oci
  <2>4. TypeOK'
    BY <2>1, <2>2, <2>3 DEF IInv, TypeOK, V
  <2> QED BY <2>1, <2>3, <2>4, OthersUndisturbed
<1>11. ASSUME NEW w \in Ipv6, AddPrefix(w) \/ AddBlock(w) \/ CreateAddress(w) PROVE IInv'
  <2>1. w \in Worker
    BY DEF Worker
  <2>2. /\ step[w] \in Placed /\ step'[w] \in {"block", "route", "done"}
        /\ step' \in [Worker -> Placed \cup {"idle", "choosing"}]
        /\ \A u \in Worker \ {w} : step'[u] = step[u]
        /\ UNCHANGED <<routes, etag, gateways, subnets, table, target, at>>
    BY <1>11, <2>1 DEF AddPrefix, AddBlock, CreateAddress, IInv, TypeOK, Placed
  <2>3. TypeOK'
    BY <2>1, <2>2 DEF IInv, TypeOK, V
  <2> QED BY <2>1, <2>2, <2>3, OthersUndisturbed
<1>12. ASSUME NEW w \in Ipv6, ReadRoutes6(w) PROVE IInv'
  <2>0. w \in Worker /\ V(w) \in Vcn /\ w \notin Launch
    BY <1>12, NetworkAssumption DEF ReadRoutes6, Worker, IInv, TypeOK, Placed
  <2>a. PICK s \in subnets[V(w)] : ReadsTable(w, s)
    BY <1>12 DEF ReadRoutes6, ReadsTable
  <2> DEFINE r == Table(s.table)
  <2>1. /\ w \in Worker /\ V(w) \in Vcn /\ r \in Reading /\ r.id \in RouteTable
        /\ r.rules = routes[r.id] /\ r.etag = etag[r.id] /\ etag[r.id] \in Nat
        /\ r.id = s.table
    BY <2>0 DEF IInv, TypeOK, Table, Reading
  <2>2. /\ step' \in [Worker -> Placed \cup {"idle", "choosing"}]
        /\ step'[w] \in {"address", "routing"}
        /\ step'[w] = "routing" => r.rules.v6 = None
        /\ \A u \in Worker \ {w} : step'[u] = step[u] /\ table'[u] = table[u]
        /\ table'[w] = r
    BY <2>a, <2>1 DEF ReadsTable, IInv, TypeOK, Placed
  <2>3. /\ target' \in [Worker -> Target]
        /\ \A u \in Worker \ {w} : target'[u] = target[u]
    BY <2>a, <2>1 DEF ReadsTable, IInv, TypeOK, Target
  <2>4. TypeOK'
    BY <1>12, <2>1, <2>2, <2>3 DEF ReadRoutes6, IInv, TypeOK, Placed, V, oci
  <2> HIDE DEF r
  <2>5. TableRead'
    BY <1>12, <2>0, <2>1, <2>2 DEF ReadRoutes6, IInv, TypeOK, TableRead, Overtaken, V, oci
  <2>6. NothingReplaced'
    BY <1>12, <2>0, <2>1, <2>2, <2>3 DEF ReadRoutes6, IInv, NothingReplaced, Worker
  <2> QED BY <2>4, <2>5, <2>6 DEF IInv
<1>13. ASSUME NEW w \in Ipv6, WriteRoute6(w) PROVE IInv'
  <2>1. w \in Worker /\ table[w].id \in RouteTable /\ step[w] = "routing"
    BY <1>13 DEF WriteRoute6, Worker, IInv, TableRead
  <2>2. CASE Overtaken(w)
    <3>1. /\ step' = [step EXCEPT ![w] = "idle"] /\ step'[w] = "idle"
          /\ \A u \in Worker \ {w} : step'[u] = step[u]
          /\ step' \in [Worker -> Placed \cup {"idle", "choosing"}]
          /\ Forget(w) /\ UNCHANGED <<routes, etag, gateways, subnets>>
      BY <1>13, <2>1, <2>2 DEF WriteRoute6, IInv, TypeOK
    <3>2. TypeOK'
      BY <1>a, <2>1, <3>1 DEF IInv, TypeOK, Placed, V
    <3> QED BY <1>a, <2>1, <3>1, <3>2, OthersUndisturbed
  <2>3. CASE ~Overtaken(w)
    <3>1. [table[w].rules EXCEPT !.v6 = target[w]] \in Rules
      BY <2>1 DEF IInv, TypeOK, Rules, Reading
    <3>2. /\ step'[w] = "address"
          /\ \A u \in Worker \ {w} : step'[u] = step[u]
          /\ step' \in [Worker -> Placed \cup {"idle", "choosing"}]
          /\ UNCHANGED <<at, table, target, gateways, subnets>>
      BY <1>13, <2>1, <2>3 DEF WriteRoute6, IInv, TypeOK, Placed
    <3>3. /\ routes' = [routes EXCEPT ![table[w].id] = [table[w].rules EXCEPT !.v6 = target[w]]]
          /\ etag' = [etag EXCEPT ![table[w].id] = @ + 1]
      BY <1>13, <2>3 DEF WriteRoute6
    <3>4. TypeOK'
      BY <2>1, <3>1, <3>2, <3>3 DEF IInv, TypeOK, Placed, V
    <3>5. TableRead'
      <4> SUFFICES ASSUME NEW u \in Worker \ {w}, step[u] \in {"enabling", "routing"}
                   PROVE  /\ table[u].etag <= etag'[table[u].id]
                          /\ etag'[table[u].id] = table[u].etag => table[u].rules = routes'[table[u].id]
        BY <3>2 DEF IInv, TableRead, Overtaken, V
      <4>1. /\ table[u].id \in RouteTable /\ etag[table[u].id] \in Nat /\ table[u].etag \in Nat
            /\ table[u].etag <= etag[table[u].id]
            /\ etag[table[u].id] = table[u].etag => table[u].rules = routes[table[u].id]
        BY DEF IInv, TypeOK, TableRead, Overtaken, Reading
      <4>2. CASE table[u].id = table[w].id
        BY <2>1, <3>3, <4>1, <4>2 DEF IInv, TypeOK
      <4>3. CASE table[u].id # table[w].id
        <5>1. etag'[table[u].id] = etag[table[u].id] /\ routes'[table[u].id] = routes[table[u].id]
          BY <2>1, <3>3, <4>1, <4>3 DEF IInv, TypeOK
        <5> QED BY <4>1, <5>1
      <4> QED BY <4>2, <4>3
    <3>6. NothingReplaced'
      BY <2>1, <3>2 DEF IInv, NothingReplaced, Worker
    <3> QED BY <3>4, <3>5, <3>6 DEF IInv
  <2> QED BY <2>2, <2>3
<1>14. ASSUME NEW w \in Worker, Answer(w) \/ Abort(w) PROVE IInv'
  <2>1. /\ step' = [step EXCEPT ![w] = "idle"] /\ step'[w] = "idle"
        /\ \A u \in Worker \ {w} : step'[u] = step[u]
        /\ step' \in [Worker -> Placed \cup {"idle", "choosing"}]
        /\ Forget(w) /\ UNCHANGED <<routes, etag, gateways, subnets>>
    BY <1>14 DEF Answer, Abort, IInv, TypeOK, oci
  <2>2. TypeOK'
    BY <1>a, <2>1 DEF IInv, TypeOK, Placed, V
  <2> QED BY <1>a, <2>1, <2>2, OthersUndisturbed
<1>15. ASSUME NEW v \in Vcn, NEW g \in Gateway, OwnerAddsGateway(v, g) PROVE IInv'
  BY <1>15 DEF OwnerAddsGateway, work, IInv, TypeOK, TableRead, NothingReplaced, Overtaken, V
<1>16. CASE UNCHANGED vars
  BY <1>16 DEF vars, work, oci, IInv, TypeOK, TableRead, NothingReplaced, Overtaken, V
<1> QED
  BY <1>1, <1>2, <1>3, <1>4, <1>5, <1>6, <1>7, <1>8, <1>9, <1>10, <1>11, <1>12, <1>13, <1>14,
     <1>15, <1>16 DEF Next, Worker

(* Only the two writes change a table. *)
LEMMA RoutesChange ==
  ASSUME IInv, [Next]_vars, NEW t \in RouteTable
  PROVE  \/ routes'[t] = routes[t]
         \/ \E w \in Launch : WriteDefault(w) /\ table[w].id = t
         \/ \E w \in Ipv6 : WriteRoute6(w) /\ table[w].id = t /\ ~Overtaken(w)
<1>1. ASSUME NEW w \in Launch, WriteDefault(w), table[w].id # t PROVE routes'[t] = routes[t]
  BY <1>1 DEF WriteDefault, IInv, TypeOK
<1>2. ASSUME NEW w \in Ipv6, WriteRoute6(w), table[w].id # t \/ Overtaken(w) PROVE routes'[t] = routes[t]
  BY <1>2 DEF WriteRoute6, IInv, TypeOK
<1>3. ASSUME NEW w \in Launch,
             \/ ListNetwork(w) \/ ReadGateways(w) \/ Enable(w) \/ CreateSubnet(w)
             \/ \E u \in Vcn : Choose(w, u) \/ CreateVcn(w, u)
             \/ \E g \in Gateway : CreateGateway(w, g)
      PROVE  routes' = routes
  BY <1>3 DEF ListNetwork, ReadGateways, Enable, CreateSubnet, Choose, CreateVcn, CreateGateway, oci
<1>4. ASSUME NEW w \in Ipv6,
             \/ \E u \in Vcn : BeginIpv6(w, u)
             \/ AddPrefix(w) \/ AddBlock(w) \/ ReadRoutes6(w) \/ CreateAddress(w) \/ Answer(w)
      PROVE  routes' = routes
  BY <1>4 DEF BeginIpv6, AddPrefix, AddBlock, ReadRoutes6, CreateAddress, Answer, oci
<1>5. ASSUME \/ \E w \in Worker : Abort(w)
             \/ \E u \in Vcn : Provisioned(u)
             \/ \E u \in Vcn, g \in Gateway : OwnerAddsGateway(u, g)
             \/ UNCHANGED vars
      PROVE  routes' = routes
  BY <1>5 DEF Abort, Provisioned, OwnerAddsGateway, vars, oci
<1> QED BY <1>1, <1>2, <1>3, <1>4, <1>5 DEF Next

(* A worker changes routes only by the entry it found empty, in the table it has read. *)
LEMMA RoutesStep ==
  ASSUME IInv, [Next]_vars, NEW t \in RouteTable,
         ~ \E w \in Launch : step[w] = "routing" /\ table[w].id = t /\ Overtaken(w)
  PROVE  /\ routes[t].v4 # None => routes'[t].v4 = routes[t].v4
         /\ routes[t].v6 # None => routes'[t].v6 = routes[t].v6
<1>1. ASSUME NEW w \in Launch, WriteDefault(w), table[w].id = t
      PROVE  routes[t].v4 = None /\ routes'[t].v6 = routes[t].v6
  <2>1. /\ w \in Worker /\ table[w].rules = routes[t] /\ table[w].rules.v4 = None
        /\ table[w].rules \in Rules
    BY <1>1 DEF WriteDefault, Worker, IInv, TypeOK, TableRead, NothingReplaced
  <2>2. routes'[t] = WithDefault(w)
    BY <1>1 DEF WriteDefault, IInv, TypeOK
  <2> QED BY <2>1, <2>2 DEF WithDefault, Rules
<1>2. ASSUME NEW w \in Ipv6, WriteRoute6(w), table[w].id = t, ~Overtaken(w)
      PROVE  routes[t].v6 = None /\ routes'[t].v4 = routes[t].v4
  <2>1. /\ w \in Worker /\ table[w].rules = routes[t] /\ table[w].rules.v6 = None
        /\ table[w].rules \in Rules
    BY <1>2 DEF WriteRoute6, Worker, IInv, TypeOK, TableRead, NothingReplaced
  <2>2. routes'[t] = [table[w].rules EXCEPT !.v6 = target[w]]
    BY <1>2 DEF WriteRoute6, IInv, TypeOK
  <2> QED BY <2>1, <2>2 DEF Rules
<1> QED BY <1>1, <1>2, RoutesChange

(* RoutesKept for every number of launches, IPv6 requests, VCNs and gateways: a table that
   was written after it had been read is the only way to lose a route. *)
THEOREM RoutesAreKept == Spec => RoutesKept
<1>1. IInv /\ [Next]_vars =>
        [\A t \in RouteTable :
           \/ /\ routes[t].v4 # None => routes'[t].v4 = routes[t].v4
              /\ routes[t].v6 # None => routes'[t].v6 = routes[t].v6
           \/ \E w \in Launch : step[w] = "routing" /\ table[w].id = t /\ Overtaken(w)]_vars
  BY RoutesStep
<1> QED BY InvInit, InvStep, <1>1, PTL DEF Spec, RoutesKept
-----------------------------------------------------------------------------
Shapes ==
  /\ subnets = [v \in Vcn |-> subnets[v]] /\ \A v \in Vcn : IsFiniteSet(subnets[v])
  /\ \A v \in Vcn : \A s, t \in subnets[v] : s.block = t.block => s = t
  /\ todo \in [Worker -> SUBSET Vcn] /\ known = [w \in Worker |-> known[w]]
  /\ online \in [Ipv6 -> BOOLEAN] /\ early \in BOOLEAN /\ vcns \subseteq Vcn

(* From the gateway that was found to the default route of the subnet. *)
RouteKnown(w) ==
  /\ step[w] = "enabling" /\ target[w] # None =>
       /\ target[w] \in gateways[V(w)]
       /\ table[w].rules.v4 = target[w] =>
            routes[Default(V(w))].v4 \in {target[w]} \cup (gateways[V(w)] \cap enabled)
  /\ step[w] = "routing" => target[w] \in gateways[V(w)] \cap enabled
  /\ step[w] = "subnet" => routes[Default(V(w))].v4 \in gateways[V(w)] \cap enabled
DefaultRoute == \A w \in Launch : RouteKnown(w)

(* A VCN of the program has public subnets only and a default route that a launch can use. *)
MadeVcns ==
  /\ made \subseteq vcns
  /\ \A v \in Vcn \ vcns : subnets[v] = {} /\ routes[Default(v)].v4 = None
  /\ \A v \in made : /\ \A s \in subnets[v] : s.public
                     /\ routes[Default(v)].v4 \in gateways[v] \cup {None}
  /\ \A w \in Worker : step[w] \in Placed => V(w) \in vcns
  /\ \A w \in Launch : todo[w] \subseteq vcns

(* A launch that is alone comes to the VCN of the program before it would make another. *)
Alone ==
  /\ \A v, w \in made : v = w
  /\ \A l, m \in Launch : step[l] # "idle" /\ step[m] # "idle" => l = m
  /\ \A l \in Launch : step[l] = "waiting" => V(l) \in made
  /\ \A l \in Launch : step[l] = "choosing" \/ (step[l] = "gateway" /\ V(l) \notin made) =>
       made \subseteq todo[l] /\ \A v \in made : known[l][v] = {}

(* What an IPv6 request has made, and found when it began. *)
Own(w) == {s \in subnets[V(w)] : s.block = at[w][2]}
RouteMade(w) ==
  \A s \in Own(w) : s.ingress /\ s.table \notin overtaken => routes[s.table].v6 # None
RequestKnown(w) ==
  /\ w \in address6 \/ step[w] \in {"route", "routing", "address", "done"} =>
       at[w] \in block6 /\ V(w) \in prefix
  /\ step[w] = "block" => V(w) \in prefix
  /\ step[w] \in Placed => /\ at[w][2] \in Taken(subnets[V(w)])
                           /\ online[w] => gateways[V(w)] \cap enabled # {}
  /\ step[w] = "routing" => target[w] # None /\ \A s \in Own(w) : s.table = table[w].id
  /\ step[w] \in {"address", "done"} /\ online[w] => RouteMade(w)
Ipv6Known == \A w \in Ipv6 : RequestKnown(w)
(* The request's own subnet has a route after the step. *)
StillMade(w) ==
  \A s \in Own(w) : s.ingress /\ s.table \notin overtaken' => routes'[s.table].v6 # None

LEMMA NetworkInit == Init => Shapes /\ DefaultRoute /\ MadeVcns /\ Alone /\ Ipv6Known
<1> SUFFICES ASSUME Init PROVE Shapes /\ DefaultRoute /\ MadeVcns /\ Alone /\ Ipv6Known
  OBVIOUS
<1>1. PICK ingress \in BOOLEAN, kind \in {"default", "own"} :
        subnets = [v \in Vcn |-> IF v \in vcns THEN {OwnersSubnet(v, ingress, kind)} ELSE {}]
  BY DEF Init
<1>2. Shapes
  <2>1. \A v \in Vcn : IsFiniteSet(subnets[v])
    BY <1>1, FS_EmptySet, FS_Singleton
  <2> QED BY <1>1, <2>1 DEF Init, Shapes
<1>3. \A w \in Worker : step[w] = "idle" /\ todo[w] = {}
  BY DEF Init
<1>4. DefaultRoute /\ Alone /\ Ipv6Known
  BY <1>3 DEF Init, DefaultRoute, RouteKnown, Alone, Ipv6Known, RequestKnown, Placed, Worker
<1>5. MadeVcns
  <2>1. PICK default \in [Vcn -> [v4 : Gateway \cup {Foreign, None}, v6 : {Foreign, None}]] :
          /\ \A v \in Vcn \ vcns : default[v] = NoRoutes
          /\ routes = [t \in RouteTable |-> IF t = Default(t[1]) THEN default[t[1]]
                                            ELSE [NoRoutes EXCEPT !.v4 = Foreign]]
    BY DEF Init
  <2>2. \A v \in Vcn : Default(v) \in RouteTable /\ Default(v)[1] = v
    BY DEF Default, RouteTable
  <2>3. \A v \in Vcn \ vcns : routes[Default(v)].v4 = None
    BY <2>1, <2>2 DEF NoRoutes
  <2> QED BY <1>1, <1>3, <2>3 DEF Init, MadeVcns, Placed, Worker
<1> QED BY <1>2, <1>4, <1>5

-----------------------------------------------------------------------------
LaunchActs(w) ==
  \/ ListNetwork(w) \/ ReadGateways(w) \/ Enable(w) \/ WriteDefault(w) \/ CreateSubnet(w)
  \/ \E v \in Vcn : Choose(w, v) \/ CreateVcn(w, v)
  \/ \E g \in Gateway : CreateGateway(w, g)
Ipv6Acts(w) ==
  \/ \E v \in Vcn : BeginIpv6(w, v)
  \/ AddPrefix(w) \/ AddBlock(w) \/ ReadRoutes6(w) \/ WriteRoute6(w) \/ CreateAddress(w) \/ Answer(w)

(* A worker's place and what it has read change by its own actions only. *)
Unmoved(w) == UNCHANGED <<step[w], at[w], table[w], target[w], todo[w], known[w]>>

LEMMA Locality ==
  ASSUME IInv, Shapes, [Next]_vars, NEW w \in Worker
  PROVE  \/ Unmoved(w) /\ (w \in Ipv6 => online'[w] = online[w])
         \/ w \in Launch /\ LaunchActs(w)
         \/ w \in Ipv6 /\ Ipv6Acts(w)
         \/ Abort(w)
         \/ /\ step[w] = "waiting" /\ step'[w] = "gateway"
            /\ UNCHANGED <<at[w], table[w], target[w], todo[w], known[w]>>
            /\ w \in Ipv6 => online'[w] = online[w]
<1> USE DEF IInv, TypeOK, Shapes, MoveTo, Unmoved, Worker
<1>1. ASSUME NEW u \in Worker, u # w, Forget(u)
      PROVE  /\ UNCHANGED <<at[w], table[w], target[w], todo[w], known[w]>>
             /\ w \in Ipv6 => online'[w] = online[w]
  BY <1>1 DEF Forget
<1>2. ASSUME NEW u \in Launch, u # w, LaunchActs(u)
      PROVE  Unmoved(w) /\ (w \in Ipv6 => online'[w] = online[w])
  <2>1. CASE ListNetwork(u)
    BY <1>2, <2>1 DEF ListNetwork
  <2>2. CASE ReadGateways(u)
    BY <1>2, <2>2 DEF ReadGateways
  <2>3. CASE Enable(u) \/ WriteDefault(u)
    BY <1>2, <2>3 DEF Enable, WriteDefault
  <2>4. CASE CreateSubnet(u)
    BY <1>1, <1>2, <2>4 DEF CreateSubnet
  <2>5. ASSUME NEW v \in Vcn, Choose(u, v) \/ CreateVcn(u, v) PROVE Unmoved(w) /\ online' = online
    BY <1>2, <2>5 DEF Choose, CreateVcn
  <2>6. ASSUME NEW g \in Gateway, CreateGateway(u, g) PROVE Unmoved(w) /\ online' = online
    BY <1>2, <2>6 DEF CreateGateway
  <2> QED BY <1>2, <2>1, <2>2, <2>3, <2>4, <2>5, <2>6 DEF LaunchActs
<1>3. ASSUME NEW u \in Ipv6, u # w, Ipv6Acts(u)
      PROVE  Unmoved(w) /\ (w \in Ipv6 => online'[w] = online[w])
  <2>1. ASSUME NEW v \in Vcn, BeginIpv6(u, v) PROVE Unmoved(w) /\ (w \in Ipv6 => online'[w] = online[w])
    BY <1>3, <2>1 DEF BeginIpv6
  <2>2. CASE AddPrefix(u) \/ AddBlock(u) \/ CreateAddress(u)
    BY <1>3, <2>2 DEF AddPrefix, AddBlock, CreateAddress
  <2>3. CASE ReadRoutes6(u)
    BY <1>3, <2>3 DEF ReadRoutes6
  <2>4. CASE WriteRoute6(u)
    BY <1>1, <1>3, <2>4 DEF WriteRoute6
  <2>5. CASE Answer(u)
    BY <1>1, <1>3, <2>5 DEF Answer
  <2> QED BY <1>3, <2>1, <2>2, <2>3, <2>4, <2>5 DEF Ipv6Acts
<1>4. ASSUME NEW u \in Worker, u # w, Abort(u)
      PROVE  Unmoved(w) /\ (w \in Ipv6 => online'[w] = online[w])
  BY <1>1, <1>4 DEF Abort
<1>5. ASSUME NEW v \in Vcn, Provisioned(v)
      PROVE  \/ Unmoved(w) /\ online' = online
             \/ /\ step[w] = "waiting" /\ step'[w] = "gateway" /\ online' = online
                /\ UNCHANGED <<at[w], table[w], target[w], todo[w], known[w]>>
  BY <1>5 DEF Provisioned
<1>6. ASSUME NEW v \in Vcn, NEW g \in Gateway, OwnerAddsGateway(v, g) PROVE Unmoved(w) /\ online' = online
  BY <1>6 DEF OwnerAddsGateway, work
<1>7. CASE UNCHANGED vars
  BY <1>7 DEF vars, work
<1>8. CASE \E u \in Launch : LaunchActs(u)
  BY <1>2, <1>8
<1>9. CASE \E u \in Ipv6 : Ipv6Acts(u)
  BY <1>3, <1>9
<1> QED BY <1>4, <1>5, <1>6, <1>7, <1>8, <1>9 DEF Next, LaunchActs, Ipv6Acts
LEMMA ShapesStep ==
  ASSUME IInv, Shapes, [Next]_vars
  PROVE  Shapes'
<1> USE DEF MoveTo
<1>1. CASE UNCHANGED <<subnets, todo, known, online, early, vcns>>
  BY <1>1 DEF Shapes
<1>2. ASSUME NEW w \in Worker, Forget(w)
      PROVE  /\ todo' \in [Worker -> SUBSET Vcn] /\ known' = [u \in Worker |-> known'[u]]
             /\ online' \in [Ipv6 -> BOOLEAN]
  BY <1>2 DEF Forget, Shapes
<1>3. ASSUME NEW w \in Launch, ListNetwork(w) PROVE Shapes'
  BY <1>3 DEF ListNetwork, Shapes, ToTry, oci, Worker
<1>9. ASSUME NEW w \in Launch, NEW v \in Vcn, CreateVcn(w, v) PROVE Shapes'
  BY <1>9 DEF CreateVcn, Shapes
<1>4. ASSUME NEW w \in Launch, NEW v \in Vcn, Choose(w, v) PROVE Shapes'
  BY <1>4 DEF Choose, Shapes, oci, Worker
<1>5. ASSUME NEW w \in Launch, CreateSubnet(w) PROVE Shapes'
  <2> DEFINE s == [block |-> at[w][2], public |-> TRUE, ingress |-> TRUE, table |-> Default(V(w))]
  <2>1. w \in Worker /\ Forget(w) /\ UNCHANGED <<early, vcns>>
    BY <1>5 DEF CreateSubnet, Worker
  <2>2. \/ subnets' = subnets
        \/ /\ subnets' = [subnets EXCEPT ![V(w)] = @ \cup {s}]
           /\ \A t \in subnets[V(w)] : t.block # s.block
    BY <1>5 DEF CreateSubnet, Taken
  <2> HIDE DEF s
  <2>3. \A v \in Vcn : IsFiniteSet(subnets[v] \cup {s})
    BY FS_AddElement DEF Shapes
  <2>4. subnets' = [v \in Vcn |-> subnets'[v]] /\ \A v \in Vcn : IsFiniteSet(subnets'[v])
    BY <2>2, <2>3 DEF Shapes
  <2>5. \A v \in Vcn : \A x, y \in subnets'[v] : x.block = y.block => x = y
    BY <2>2 DEF Shapes
  <2> QED BY <1>2, <2>1, <2>4, <2>5 DEF Shapes
<1>6. ASSUME NEW w \in Ipv6, NEW v \in Vcn, BeginIpv6(w, v) PROVE Shapes'
  BY <1>6 DEF BeginIpv6, Shapes, oci
<1>7. ASSUME NEW w \in Ipv6, WriteRoute6(w) PROVE Shapes'
  BY <1>1, <1>2, <1>7 DEF WriteRoute6, Shapes, Worker
<1>8. ASSUME NEW w \in Worker, Answer(w) \/ Abort(w) PROVE Shapes'
  BY <1>2, <1>8 DEF Answer, Abort, Shapes, oci
<1> QED
  BY <1>1, <1>3, <1>4, <1>5, <1>6, <1>7, <1>8, <1>9
  DEF Next, Worker, ReadGateways, Enable, CreateGateway, WriteDefault, AddPrefix, AddBlock,
      ReadRoutes6, CreateAddress, Provisioned, OwnerAddsGateway, vars, oci, work

(* Nothing that a worker relies on goes away. *)
LEMMA NetworkGrows ==
  ASSUME IInv, Shapes, [Next]_vars
  PROVE  /\ vcns \subseteq vcns' /\ made \subseteq made' /\ enabled \subseteq enabled'
         /\ prefix \subseteq prefix' /\ block6 \subseteq block6' /\ overtaken \subseteq overtaken'
         /\ early => early'
         /\ \A v \in Vcn : gateways[v] \subseteq gateways'[v] /\ subnets[v] \subseteq subnets'[v]
<1> USE DEF oci, Shapes, IInv, TypeOK
<1>1. ASSUME NEW w \in Launch, LaunchActs(w)
      PROVE  /\ UNCHANGED <<prefix, block6>>
             /\ vcns \subseteq vcns' /\ made \subseteq made' /\ enabled \subseteq enabled'
             /\ overtaken \subseteq overtaken'
             /\ early => early'
  <2>1. CASE ListNetwork(w)
    BY <2>1 DEF ListNetwork
  <2>4. CASE ReadGateways(w) \/ \E v \in Vcn : Choose(w, v)
    BY <2>4 DEF ReadGateways, Choose
  <2>2. CASE Enable(w) \/ WriteDefault(w) \/ CreateSubnet(w)
    BY <2>2 DEF Enable, WriteDefault, CreateSubnet
  <2>3. CASE \/ \E v \in Vcn : CreateVcn(w, v)
             \/ \E g \in Gateway : CreateGateway(w, g)
    BY <2>3 DEF CreateVcn, CreateGateway
  <2> QED BY <1>1, <2>1, <2>2, <2>3, <2>4 DEF LaunchActs
<1>2. ASSUME NEW w \in Launch, LaunchActs(w), NEW v \in Vcn
      PROVE  gateways[v] \subseteq gateways'[v] /\ subnets[v] \subseteq subnets'[v]
  <2>1. CASE CreateSubnet(w)
    BY <2>1 DEF CreateSubnet
  <2>2. CASE \E g \in Gateway : CreateGateway(w, g)
    BY <2>2 DEF CreateGateway
  <2> QED BY <1>2, <2>1, <2>2
          DEF LaunchActs, ListNetwork, ReadGateways, Choose, Enable, WriteDefault, CreateVcn
<1>3. ASSUME NEW w \in Ipv6, Ipv6Acts(w)
      PROVE  /\ UNCHANGED <<vcns, made, enabled, overtaken, early, gateways, subnets>>
             /\ prefix \subseteq prefix' /\ block6 \subseteq block6'
  BY <1>3 DEF Ipv6Acts, BeginIpv6, AddPrefix, AddBlock, ReadRoutes6, WriteRoute6, CreateAddress, Answer
<1>4. ASSUME NEW v \in Vcn, NEW g \in Gateway, OwnerAddsGateway(v, g)
      PROVE  /\ UNCHANGED <<vcns, made, overtaken, early, subnets, prefix, block6>>
             /\ enabled \subseteq enabled' /\ \A u \in Vcn : gateways[u] \subseteq gateways'[u]
  BY <1>4 DEF OwnerAddsGateway
<1>5. CASE \/ \E w \in Worker : Abort(w)
           \/ \E v \in Vcn : Provisioned(v)
           \/ UNCHANGED vars
  BY <1>5 DEF Abort, Provisioned, vars
<1>6. CASE \E w \in Launch : LaunchActs(w)
  BY <1>1, <1>2, <1>6
<1>7. CASE \E w \in Ipv6 : Ipv6Acts(w)
  BY <1>3, <1>7
<1> QED BY <1>4, <1>5, <1>6, <1>7 DEF Next, LaunchActs, Ipv6Acts

(* A subnet is only added by a launch, as a public one under a block that was free. *)
LEMMA SubnetsAdded ==
  ASSUME IInv, Shapes, [Next]_vars, NEW v \in Vcn
  PROVE  \/ subnets'[v] = subnets[v]
         \/ \E w \in Launch :
              /\ step[w] = "subnet" /\ V(w) = v
              /\ at[w][2] \notin Taken(subnets[v])
              /\ subnets'[v] = subnets[v] \cup {[block |-> at[w][2], public |-> TRUE, ingress |-> TRUE,
                                                  table |-> Default(v)]}
<1>1. CASE \E w \in Launch : CreateSubnet(w)
  BY <1>1 DEF CreateSubnet, Shapes
<1>2. \/ subnets' = subnets
      \/ \E w \in Launch : CreateSubnet(w)
  BY DEF Next, ListNetwork, ReadGateways, Enable, WriteDefault, Choose, CreateVcn, CreateGateway,
         BeginIpv6, AddPrefix, AddBlock, ReadRoutes6, WriteRoute6, CreateAddress, Answer, Abort,
         Provisioned, OwnerAddsGateway, vars, oci
<1> QED BY <1>1, <1>2
(* A default route leads where it did, or to a gateway a launch has found enabled. *)
LEMMA DefaultRoutes ==
  ASSUME IInv, Shapes, DefaultRoute, MadeVcns, [Next]_vars, NEW v \in Vcn
  PROVE  \/ routes'[Default(v)].v4 = routes[Default(v)].v4
         \/ v \in vcns /\ routes'[Default(v)].v4 \in gateways[v] \cap enabled
<1> DEFINE t == Default(v)
<1>0. t \in RouteTable /\ \A u : Default(u) = t => u = v
  BY DEF Default, RouteTable
<1>1. ASSUME NEW w \in Launch, WriteDefault(w), table[w].id = t
      PROVE  v \in vcns /\ routes'[t].v4 \in gateways[v] \cap enabled
  <2>1. w \in Worker /\ step[w] = "routing"
    BY <1>1 DEF WriteDefault, Worker
  <2>2. V(w) = v
    BY <1>0, <1>1, <2>1 DEF IInv, TableRead
  <2>3. table[w].rules \in Rules /\ routes'[t] = WithDefault(w)
    BY <1>0, <1>1, <2>1 DEF WriteDefault, IInv, TypeOK, Reading
  <2>4. target[w] \in gateways[v] \cap enabled /\ v \in vcns
    BY <2>1, <2>2 DEF DefaultRoute, RouteKnown, MadeVcns, Placed
  <2> HIDE DEF t
  <2> QED BY <2>3, <2>4 DEF WithDefault, Rules
<1>2. ASSUME NEW w \in Ipv6, WriteRoute6(w), table[w].id = t, ~Overtaken(w)
      PROVE  routes'[t].v4 = routes[t].v4
  <2> HIDE DEF t
  <2>1. w \in Worker /\ table[w].rules = routes[t] /\ table[w].rules \in Rules
    BY <1>2 DEF WriteRoute6, Worker, IInv, TypeOK, TableRead, Reading
  <2>2. routes'[t] = [table[w].rules EXCEPT !.v6 = target[w]]
    BY <1>0, <1>2 DEF WriteRoute6, IInv, TypeOK
  <2> QED BY <2>1, <2>2 DEF Rules
<1> QED BY <1>0, <1>1, <1>2, RoutesChange

(* An IPv6 route stays, unless the table was replaced unseen. *)
LEMMA Ipv6Routes ==
  ASSUME IInv, Ipv6Known, [Next]_vars, NEW t \in RouteTable \ overtaken', routes[t].v6 # None
  PROVE  routes'[t].v6 # None
<1>1. ASSUME NEW w \in Launch, WriteDefault(w), table[w].id = t
      PROVE  routes'[t].v6 = routes[t].v6
  <2>1. ~Overtaken(w)
    BY <1>1 DEF WriteDefault
  <2>2. w \in Worker /\ table[w].rules = routes[t] /\ table[w].rules \in Rules
    BY <1>1, <2>1 DEF WriteDefault, Worker, IInv, TypeOK, TableRead, Reading
  <2>3. routes'[t] = WithDefault(w)
    BY <1>1 DEF WriteDefault, IInv, TypeOK
  <2> QED BY <2>2, <2>3 DEF WithDefault, Rules
<1>2. ASSUME NEW w \in Ipv6, WriteRoute6(w), table[w].id = t, ~Overtaken(w)
      PROVE  routes'[t].v6 # None
  <2>1. w \in Worker /\ table[w].rules \in Rules /\ target[w] # None
    BY <1>2 DEF WriteRoute6, Worker, IInv, TypeOK, Ipv6Known, RequestKnown, Reading
  <2>2. routes'[t] = [table[w].rules EXCEPT !.v6 = target[w]]
    BY <1>2 DEF WriteRoute6, IInv, TypeOK
  <2> QED BY <2>1, <2>2 DEF Rules
<1> QED BY <1>1, <1>2, RoutesChange
LEMMA DefaultRouteStep ==
  ASSUME IInv, Shapes, DefaultRoute, MadeVcns, [Next]_vars
  PROVE  DefaultRoute'
<1> SUFFICES ASSUME NEW w \in Launch PROVE RouteKnown(w)'
  BY DEF DefaultRoute
<1> USE DEF MoveTo
<1>1. /\ w \in Worker /\ w \notin Ipv6 /\ RouteKnown(w)
      /\ step[w] \in Placed => V(w) \in Vcn
  BY NetworkAssumption DEF Worker, DefaultRoute, IInv, TypeOK
<1>2. \A v \in Vcn : /\ enabled \subseteq enabled' /\ gateways[v] \subseteq gateways'[v]
                     /\ \/ routes'[Default(v)].v4 = routes[Default(v)].v4
                        \/ routes'[Default(v)].v4 \in gateways[v] \cap enabled
  BY NetworkGrows, DefaultRoutes
<1>3. CASE Unmoved(w)
  BY <1>1, <1>2, <1>3 DEF Unmoved, RouteKnown, V, Placed
<1>4. CASE step'[w] \in {"idle", "choosing", "waiting", "gateway"}
  BY <1>4 DEF RouteKnown
<1>5. CASE ReadGateways(w)
  <2>1. /\ V(w) \in Vcn /\ V(w)' = V(w) /\ UNCHANGED <<gateways, routes, enabled>>
        /\ step'[w] \in {"choosing", "enabling"} /\ table'[w] = Table(Default(V(w)))
    BY <1>1, <1>5 DEF ReadGateways, V, oci, IInv, TypeOK, Placed
  <2>2. target'[w] # None /\ step'[w] = "enabling" => target'[w] \in gateways[V(w)]
    BY <1>1, <1>5 DEF ReadGateways, IInv, TypeOK
  <2> QED BY <2>1, <2>2 DEF RouteKnown, Table
<1>6. CASE Enable(w)
  <2>1. /\ V(w) \in Vcn /\ V(w)' = V(w) /\ UNCHANGED <<gateways, routes, target>>
        /\ step[w] = "enabling" /\ target[w] # None /\ target[w] \in enabled'
        /\ step'[w] = IF table[w].rules.v4 = target[w] THEN "subnet" ELSE "routing"
    BY <1>1, <1>6 DEF Enable, V, IInv, TypeOK, Placed
  <2> QED BY <1>1, <1>2, <2>1 DEF RouteKnown
<1>7. CASE WriteDefault(w)
  <2>1. /\ V(w) \in Vcn /\ V(w)' = V(w) /\ UNCHANGED <<gateways, enabled>>
        /\ step[w] = "routing" /\ step'[w] = "subnet"
        /\ table[w].id = Default(V(w)) /\ Default(V(w)) \in RouteTable
        /\ routes' = [routes EXCEPT ![Default(V(w))] = WithDefault(w)] /\ table[w].rules \in Rules
    BY <1>1, <1>7 DEF WriteDefault, V, IInv, TypeOK, TableRead, Reading, Placed
  <2>2. routes'[Default(V(w))].v4 = target[w]
    BY <2>1 DEF WithDefault, Rules, IInv, TypeOK
  <2> QED BY <1>1, <2>1, <2>2 DEF RouteKnown
<1>8. ASSUME NEW g \in Gateway, CreateGateway(w, g) PROVE RouteKnown(w)'
  <2>1. /\ V(w) \in Vcn /\ V(w)' = V(w) /\ step'[w] = "routing" /\ target'[w] = g
        /\ g \in gateways'[V(w)] \cap enabled'
    BY <1>1, <1>8 DEF CreateGateway, V, IInv, TypeOK, Placed
  <2> QED BY <2>1 DEF RouteKnown
<1>9. CASE ListNetwork(w) \/ CreateSubnet(w) \/ Abort(w)
  BY <1>1, <1>4, <1>9 DEF ListNetwork, CreateSubnet, Abort, IInv, TypeOK
<1>10. ASSUME NEW v \in Vcn, Choose(w, v) \/ CreateVcn(w, v) PROVE RouteKnown(w)'
  BY <1>1, <1>4, <1>10 DEF Choose, CreateVcn, IInv, TypeOK
<1> QED BY <1>1, <1>3, <1>4, <1>5, <1>6, <1>7, <1>8, <1>9, <1>10, Locality DEF LaunchActs

LEMMA MadeVcnsStep ==
  ASSUME IInv, Shapes, DefaultRoute, MadeVcns, [Next]_vars
  PROVE  MadeVcns'
<1> USE DEF MoveTo
<1>1. \A w \in Worker : step[w] \in Placed => V(w) \in vcns
  BY DEF MadeVcns
<1>2. made' \subseteq vcns' /\ made' \subseteq made \cup (vcns' \ vcns)
  <2>1. UNCHANGED <<made, vcns>> \/ \E w \in Launch, v \in Vcn : CreateVcn(w, v)
    BY DEF Next, ListNetwork, ReadGateways, Enable, WriteDefault, Choose, CreateSubnet, CreateGateway,
           BeginIpv6, AddPrefix, AddBlock, ReadRoutes6, WriteRoute6, CreateAddress, Answer, Abort,
           Provisioned, OwnerAddsGateway, vars, oci
  <2> QED BY <2>1 DEF CreateVcn, MadeVcns
<1>3. \A v \in Vcn \ vcns : subnets'[v] = {} /\ routes'[Default(v)].v4 = None
  <2> SUFFICES ASSUME NEW v \in Vcn \ vcns PROVE subnets'[v] = {} /\ routes'[Default(v)].v4 = None
    OBVIOUS
  <2>1. subnets'[v] = subnets[v]
    BY <1>1, SubnetsAdded DEF Worker, Placed
  <2> QED BY <2>1, DefaultRoutes DEF MadeVcns
<1>4. \A v \in made' : /\ \A s \in subnets'[v] : s.public
                       /\ routes'[Default(v)].v4 \in gateways'[v] \cup {None}
  <2> SUFFICES ASSUME NEW v \in made'
               PROVE  /\ \A s \in subnets'[v] : s.public
                      /\ routes'[Default(v)].v4 \in gateways'[v] \cup {None}
    OBVIOUS
  <2>1. v \in Vcn
    BY <1>2, ShapesStep DEF Shapes
  <2>2. CASE v \in Vcn \ vcns
    BY <1>3, <2>2
  <2>3. CASE v \in made
    <3>1. \A s \in subnets[v] : s.public
      BY <2>3 DEF MadeVcns
    <3>2. \A s \in subnets'[v] : s.public
      BY <2>1, <3>1, SubnetsAdded
    <3>3. routes'[Default(v)].v4 = routes[Default(v)].v4 \/ routes'[Default(v)].v4 \in gateways[v]
      BY <2>1, DefaultRoutes
    <3> QED BY <2>1, <2>3, <3>2, <3>3, NetworkGrows DEF MadeVcns
  <2> QED BY <1>2, <2>1, <2>2, <2>3
<1>5. ASSUME NEW w \in Launch PROVE todo'[w] \subseteq vcns'
  <2>1. w \in Worker /\ w \notin Ipv6 /\ todo[w] \subseteq vcns /\ vcns \subseteq vcns'
    BY NetworkAssumption, NetworkGrows DEF Worker, MadeVcns
  <2>2. CASE Unmoved(w) \/ UNCHANGED <<at[w], table[w], target[w], todo[w], known[w]>>
    BY <2>1, <2>2 DEF Unmoved
  <2>3. CASE ListNetwork(w)
    BY <2>1, <2>3 DEF ListNetwork, ToTry, Shapes
  <2>4. CASE ReadGateways(w) \/ Enable(w) \/ WriteDefault(w) \/ \E g \in Gateway : CreateGateway(w, g)
    BY <2>1, <2>4 DEF ReadGateways, Enable, WriteDefault, CreateGateway
  <2>5. CASE CreateSubnet(w) \/ Abort(w)
    BY <2>1, <2>5 DEF CreateSubnet, Abort, Forget, Shapes
  <2>6. ASSUME NEW v \in Vcn, Choose(w, v) \/ CreateVcn(w, v) PROVE todo'[w] \subseteq vcns'
    BY <2>1, <2>6 DEF Choose, CreateVcn, Shapes
  <2> QED BY <2>1, <2>2, <2>3, <2>4, <2>5, <2>6, Locality DEF LaunchActs
<1>6. ASSUME NEW w \in Worker, step'[w] \in Placed PROVE V(w)' \in vcns'
  <2>1. vcns \subseteq vcns' /\ (step[w] \in Placed => V(w) \in vcns)
    BY NetworkGrows DEF MadeVcns
  <2>2. CASE Unmoved(w) \/ (step[w] = "waiting" /\ UNCHANGED at[w])
    BY <1>6, <2>1, <2>2 DEF Unmoved, V, Placed
  <2>3. CASE ListNetwork(w) \/ CreateSubnet(w) \/ Abort(w) \/ Answer(w)
    BY <1>6, <2>3 DEF ListNetwork, CreateSubnet, Abort, Answer, Placed, IInv, TypeOK
  <2>4. CASE ReadGateways(w) \/ Enable(w) \/ WriteDefault(w) \/ \E g \in Gateway : CreateGateway(w, g)
    BY <2>1, <2>4 DEF ReadGateways, Enable, WriteDefault, CreateGateway, V, Placed
  <2>5. ASSUME NEW v \in Vcn, w \in Launch, Choose(w, v) PROVE V(w)' \in vcns'
    <3>1. CASE UNCHANGED <<step, at>>
      BY <1>6, <2>5, <3>1 DEF Choose, Placed
    <3>2. CASE \E b : at' = [at EXCEPT ![w] = <<v, b>>]
      BY <2>1, <2>5, <3>2 DEF Choose, V, MadeVcns, IInv, TypeOK
    <3> QED BY <2>5, <3>1, <3>2 DEF Choose
  <2>6. ASSUME NEW v \in Vcn, CreateVcn(w, v) \/ BeginIpv6(w, v) PROVE V(w)' \in vcns'
    BY <2>1, <2>6 DEF CreateVcn, BeginIpv6, V, IInv, TypeOK, oci
  <2>7. CASE AddPrefix(w) \/ AddBlock(w) \/ ReadRoutes6(w) \/ CreateAddress(w)
    BY <2>1, <2>7 DEF AddPrefix, AddBlock, ReadRoutes6, CreateAddress, V, Placed
  <2>8. CASE WriteRoute6(w)
    <3>1. step[w] = "routing" /\ (step'[w] = "idle" \/ at' = at)
      BY <2>8 DEF WriteRoute6, IInv, TypeOK
    <3> QED BY <1>6, <2>1, <3>1 DEF V, Placed
  <2> QED BY <2>2, <2>3, <2>4, <2>5, <2>6, <2>7, <2>8, Locality DEF LaunchActs, Ipv6Acts
<1> QED BY <1>2, <1>3, <1>4, <1>5, <1>6, ShapesStep, NetworkGrows DEF MadeVcns
LEMMA AloneStep ==
  ASSUME IInv, Shapes, DefaultRoute, MadeVcns, Alone, [Next]_vars, ~early'
  PROVE  Alone'
<1> USE DEF MoveTo
<1>1. \A w \in Launch : w \in Worker /\ w \notin Ipv6
  BY NetworkAssumption DEF Worker
<1>2. ASSUME NEW w \in Launch, step'[w] # "idle" PROVE step[w] # "idle" \/ ListNetwork(w)
  <2>1. CASE Unmoved(w) \/ step[w] = "waiting"
    BY <1>2, <2>1 DEF Unmoved
  <2>2. CASE Abort(w)
    BY <1>1, <1>2, <2>2 DEF Abort, IInv, TypeOK
  <2>3. CASE LaunchActs(w)
    BY <2>3 DEF LaunchActs, ReadGateways, Enable, WriteDefault, CreateSubnet, Choose, CreateVcn,
                CreateGateway
  <2> QED BY <1>1, <2>1, <2>2, <2>3, Locality
<1>3. ASSUME NEW w \in Launch, ListNetwork(w)
      PROVE  /\ new = {} /\ \A l \in Launch \ {w} : step'[l] = "idle"
             /\ UNCHANGED made
  <2>1. early' = (early \/ new # {} \/ \E l \in Launch \ {w} : step[l] # "idle")
    BY <1>3 DEF ListNetwork
  <2>2. new = {} /\ \A l \in Launch \ {w} : step[l] = "idle"
    BY <2>1
  <2>3. \A l \in Launch \ {w} : step'[l] = step[l]
    BY <1>1, <1>3 DEF ListNetwork, IInv, TypeOK
  <2> QED BY <1>3, <2>2, <2>3 DEF ListNetwork
<1>4. \A l, m \in Launch : step'[l] # "idle" /\ step'[m] # "idle" => l = m
  BY <1>2, <1>3 DEF Alone
<1>5. ASSUME NEW w \in Launch, NEW v \in Vcn, CreateVcn(w, v)
      PROVE  made = {} /\ made' = {v} /\ step'[w] = "waiting" /\ V(w)' = v
  BY <1>1, <1>5 DEF CreateVcn, Alone, IInv, TypeOK, V
<1>6. \/ UNCHANGED made
      \/ \E w \in Launch, v \in Vcn : CreateVcn(w, v)
  BY DEF Next, ListNetwork, ReadGateways, Enable, WriteDefault, Choose, CreateSubnet, CreateGateway,
         BeginIpv6, AddPrefix, AddBlock, ReadRoutes6, WriteRoute6, CreateAddress, Answer, Abort,
         Provisioned, OwnerAddsGateway, vars
<1>7. \A v, w \in made' : v = w
  BY <1>5, <1>6 DEF Alone
<1>8. ASSUME NEW l \in Launch, step'[l] = "waiting" PROVE V(l)' \in made'
  <2>1. CASE Unmoved(l)
    BY <1>8, <2>1, NetworkGrows DEF Unmoved, V, Alone
  <2>2. CASE Abort(l) \/ step'[l] = "gateway"
    BY <1>1, <1>8, <2>2 DEF Abort, IInv, TypeOK
  <2>3. CASE \E v \in Vcn : CreateVcn(l, v)
    BY <1>5, <2>3
  <2>4. CASE LaunchActs(l) /\ ~ \E v \in Vcn : CreateVcn(l, v)
    BY <1>1, <1>8, <2>4
    DEF LaunchActs, ListNetwork, ReadGateways, Enable, WriteDefault, CreateSubnet, Choose,
        CreateGateway, IInv, TypeOK
  <2> QED BY <1>1, <2>1, <2>2, <2>3, <2>4, Locality
<1>9. ASSUME NEW l \in Launch, step'[l] = "choosing" \/ (step'[l] = "gateway" /\ V(l)' \notin made')
      PROVE  made' \subseteq todo'[l] /\ \A v \in made' : known'[l][v] = {}
  <2>1. UNCHANGED made
    BY <1>4, <1>5, <1>6, <1>9
  <2>2. CASE Unmoved(l)
    BY <1>9, <2>1, <2>2 DEF Unmoved, V, Alone
  <2>3. CASE step[l] = "waiting" /\ step'[l] = "gateway" /\ UNCHANGED at[l]
    BY <1>9, <2>1, <2>3 DEF V, Alone
  <2>4. CASE ListNetwork(l)
    <3>1. /\ step[l] = "idle" /\ new = {} /\ made \subseteq vcns
          /\ \A v \in made : \A s \in subnets[v] : s.public
      BY <1>3, <2>4 DEF ListNetwork, MadeVcns
    <3>2. /\ \A v \in vcns : \A s \in subnets[v] : ~s.public
          /\ todo' = [todo EXCEPT ![l] = ToTry] /\ known' = [known EXCEPT ![l] = subnets]
      BY <1>9, <2>4, <3>1 DEF ListNetwork
    <3>3. \A v \in made : subnets[v] = {}
      BY <3>1, <3>2
    <3> QED BY <1>1, <2>1, <3>1, <3>2, <3>3 DEF ToTry, Shapes
  <2>5. ASSUME NEW v \in Vcn, Choose(l, v)
        PROVE  made' \subseteq todo'[l] /\ \A u \in made' : known'[l][u] = {}
    <3>1. /\ made \subseteq todo[l] /\ \A u \in made : known[l][u] = {}
          /\ todo'[l] = todo[l] \ {v} /\ known' = known
      BY <1>1, <2>5 DEF Choose, Alone, Shapes
    <3>2. CASE v \in made
      <4>1. Block \ Taken(known[l][v]) # {}
        BY <3>1, <3>2, NetworkAssumption DEF Taken
      <4>2. step'[l] = "gateway" /\ V(l)' = v
        BY <1>1, <2>5, <4>1 DEF Choose, IInv, TypeOK, V
      <4> QED BY <1>9, <2>1, <3>2, <4>2
    <3>3. CASE v \notin made
      BY <2>1, <3>1, <3>3
    <3> QED BY <3>2, <3>3
  <2>6. CASE ReadGateways(l)
    <3>1. /\ step'[l] = "choosing" /\ step[l] = "gateway" /\ UNCHANGED <<todo, known>>
          /\ routes[Default(V(l))].v4 # None /\ gateways[V(l)] \cap {routes[Default(V(l))].v4} = {}
      BY <1>1, <1>9, <2>6 DEF ReadGateways, IInv, TypeOK
    <3>2. V(l) \notin made
      BY <3>1 DEF MadeVcns
    <3> QED BY <2>1, <3>1, <3>2 DEF Alone
  <2>7. CASE Abort(l) \/ \E v \in Vcn : CreateVcn(l, v)
    BY <1>1, <1>9, <2>7 DEF Abort, CreateVcn, IInv, TypeOK
  <2>8. CASE Enable(l) \/ WriteDefault(l) \/ CreateSubnet(l) \/ \E g \in Gateway : CreateGateway(l, g)
    BY <1>1, <1>9, <2>8 DEF Enable, WriteDefault, CreateSubnet, CreateGateway, IInv, TypeOK
  <2> QED BY <1>1, <2>2, <2>3, <2>4, <2>5, <2>6, <2>7, <2>8, Locality DEF LaunchActs
<1> QED BY <1>4, <1>7, <1>8, <1>9 DEF Alone
LEMMA Ipv6Step ==
  ASSUME IInv, Shapes, MadeVcns, Ipv6Known, [Next]_vars
  PROVE  Ipv6Known'
<1> SUFFICES ASSUME NEW w \in Ipv6 PROVE RequestKnown(w)'
  BY DEF Ipv6Known
<1> USE DEF MoveTo
<1>1. /\ w \in Worker /\ w \notin Launch /\ RequestKnown(w)
      /\ step[w] \in Placed \cup {"idle", "choosing"}
      /\ step[w] \in Placed => V(w) \in Vcn
  BY NetworkAssumption DEF Worker, Ipv6Known, IInv, TypeOK
<1>2. /\ prefix \subseteq prefix' /\ block6 \subseteq block6' /\ overtaken \subseteq overtaken'
      /\ enabled \subseteq enabled'
      /\ \A v \in Vcn : gateways[v] \subseteq gateways'[v] /\ subnets[v] \subseteq subnets'[v]
  BY NetworkGrows
(* What was found when the request began is still there. *)
<1>3. ASSUME step[w] \in Placed, UNCHANGED at[w], at[w][2] \in Taken(subnets[V(w)])
      PROVE  /\ V(w)' = V(w) /\ at[w][2] \in Taken(subnets'[V(w)])
             /\ Own(w)' = Own(w)
  <2>1. V(w)' = V(w) /\ V(w) \in Vcn
    BY <1>1, <1>3 DEF V
  <2>2. at[w][2] \in Taken(subnets'[V(w)])
    BY <1>2, <1>3, <2>1 DEF Taken
  <2>3. \A s \in subnets'[V(w)] : s.block = at[w][2] => s \in subnets[V(w)]
    BY <1>3, <2>1, SubnetsAdded DEF Taken
  <2> QED BY <1>2, <1>3, <2>1, <2>2, <2>3 DEF Own
<1>4. w \in address6' => at[w] \in block6' /\ V(w) \in prefix'
  <2>1. w \in address6' => w \in address6 \/ step[w] = "address"
    <3>1. UNCHANGED address6 \/ \E u \in Ipv6 : CreateAddress(u)
      BY DEF Next, ListNetwork, ReadGateways, Enable, WriteDefault, Choose, CreateVcn, CreateSubnet,
             CreateGateway, BeginIpv6, AddPrefix, AddBlock, ReadRoutes6, WriteRoute6, Answer, Abort,
             Provisioned, OwnerAddsGateway, vars, oci
    <3> QED BY <3>1 DEF CreateAddress
  <2> QED BY <1>1, <1>2, <2>1 DEF RequestKnown
(* The request stays in its place, or takes a step there. *)
<1>5. ASSUME step[w] \in Placed, step'[w] \in Placed, UNCHANGED at[w], online'[w] = online[w],
             step'[w] \in {"route", "routing", "address", "done"} =>
               at[w] \in block6' /\ V(w) \in prefix',
             step'[w] = "block" => V(w) \in prefix',
             step'[w] = "routing" => target'[w] # None /\ \A s \in Own(w) : s.table = table'[w].id,
             step'[w] \in {"address", "done"} /\ online[w] => StillMade(w)
      PROVE  RequestKnown(w)'
  <2>1. /\ V(w) \in Vcn /\ at[w][2] \in Taken(subnets[V(w)])
        /\ online[w] => gateways[V(w)] \cap enabled # {}
    BY <1>1, <1>5 DEF RequestKnown
  <2>2. V(w)' = V(w) /\ at[w][2] \in Taken(subnets'[V(w)]) /\ Own(w)' = Own(w)
    BY <1>3, <1>5, <2>1
  <2>3. Taken(subnets[V(w)])' = Taken(subnets'[V(w)])
    BY <2>2 DEF Taken
  <2>4. /\ step'[w] \in Placed => /\ at'[w][2] \in Taken(subnets[V(w)])'
                                  /\ online'[w] => gateways'[V(w)] \cap enabled' # {}
    BY <1>2, <1>5, <2>1, <2>2 DEF Taken
  <2>5. step'[w] \in {"address", "done"} /\ online'[w] => RouteMade(w)'
    BY <1>5, <2>2 DEF RouteMade, StillMade
  <2>6. step'[w] = "routing" => target'[w] # None /\ \A s \in Own(w)' : s.table = table'[w].id
    BY <1>5, <2>2
  <2> QED BY <1>4, <1>5, <2>1, <2>2, <2>4, <2>5, <2>6 DEF RequestKnown
<1>6. ASSUME step'[w] = "idle", at'[w] = at[w] \/ w \notin address6'
      PROVE  RequestKnown(w)'
  BY <1>4, <1>6 DEF RequestKnown, Placed, V
<1>7. ASSUME Forget(w), UNCHANGED address6 PROVE at'[w] = at[w] \/ w \notin address6'
  BY <1>7 DEF Forget
<1>8. CASE Unmoved(w) /\ online'[w] = online[w]
  <2>1. CASE step[w] \in Placed
    <3>1. step'[w] \in {"address", "done"} /\ online[w] => StillMade(w)
      <4> SUFFICES ASSUME RouteMade(w), NEW s \in Own(w), s.ingress, s.table \notin overtaken'
                   PROVE  routes'[s.table].v6 # None
        BY <1>1, <1>8, <2>1 DEF RequestKnown, Unmoved, StillMade
      <4>1. s.table \in RouteTable
        BY <1>1, <2>1 DEF Own, IInv, TypeOK
      <4>2. routes[s.table].v6 # None
        BY <1>2 DEF RouteMade
      <4> QED BY <4>1, <4>2, Ipv6Routes
    <3> QED BY <1>1, <1>2, <1>5, <1>8, <2>1, <3>1 DEF RequestKnown, Unmoved
  <2>2. CASE step[w] \notin Placed
    BY <1>4, <1>8, <2>2 DEF RequestKnown, Unmoved, Placed, V
  <2> QED BY <2>1, <2>2
<1>9. ASSUME NEW v \in Vcn, BeginIpv6(w, v) PROVE RequestKnown(w)'
  <2>1. PICK s \in subnets[v] : /\ w \in address6 => at[w] = <<v, s.block>>
                                /\ at' = [at EXCEPT ![w] = <<v, s.block>>]
    BY <1>9 DEF BeginIpv6
  <2>2. /\ at'[w] = <<v, s.block>> /\ V(w)' = v /\ UNCHANGED oci
        /\ step'[w] = (IF w \in address6 THEN "route" ELSE "prefix")
        /\ online'[w] = (gateways[v] \cap enabled # {})
    BY <1>1, <1>9, <2>1 DEF BeginIpv6, FirstStep, IInv, TypeOK, Shapes, V
  <2>3. at'[w][2] \in Taken(subnets[v])
    BY <2>1, <2>2 DEF Taken
  <2>4. w \in address6' => at'[w] \in block6' /\ V(w)' \in prefix'
    <3>1. w \in address6' => w \in address6 /\ at'[w] = at[w] /\ UNCHANGED <<block6, prefix>>
      BY <2>1, <2>2 DEF oci
    <3> QED BY <1>1, <3>1 DEF RequestKnown, V
  <2>5. /\ step'[w] = "route" => w \in address6'
        /\ step'[w] \in {"route", "prefix"}
    BY <2>2 DEF oci
  <2>6. at'[w][2] \in Taken(subnets[V(w)])'
    BY <2>2, <2>3 DEF Taken, oci
  <2>7. online'[w] => gateways'[V(w)'] \cap enabled' # {}
    BY <2>2 DEF oci
  <2> QED BY <2>4, <2>5, <2>6, <2>7 DEF RequestKnown
<1>10. CASE AddPrefix(w) \/ AddBlock(w)
  <2>1. \/ step[w] = "prefix" /\ step'[w] = "block" /\ V(w) \in prefix'
        \/ /\ step[w] = "block" /\ step'[w] = "route"
           /\ at[w] \in block6' /\ UNCHANGED prefix
    BY <1>1, <1>10 DEF AddPrefix, AddBlock, IInv, TypeOK
  <2>2. UNCHANGED <<at, online>>
    BY <1>10 DEF AddPrefix, AddBlock
  <2> QED BY <1>1, <1>5, <2>1, <2>2 DEF RequestKnown, Placed
<1>11. CASE ReadRoutes6(w)
  <2>1. /\ step[w] = "route" /\ UNCHANGED <<at, online, routes, overtaken, prefix, block6>>
        /\ V(w) \in Vcn
    BY <1>1, <1>11 DEF ReadRoutes6, oci, Placed
  <2>2. PICK s \in subnets[V(w)] : ReadsTable(w, s)
    BY <1>11 DEF ReadRoutes6, ReadsTable
  <2>3. Own(w) = {s} /\ table'[w].id = s.table
    BY <1>1, <2>1, <2>2 DEF ReadsTable, Own, Shapes, IInv, TypeOK, Table
  <2>4. \A g \in gateways[V(w)] : g # None
    BY <2>1, NetworkAssumption DEF IInv, TypeOK
  <2>5. CASE step'[w] = "address"
    <3>1. ~s.ingress \/ routes[s.table].v6 # None \/ gateways[V(w)] \cap enabled = {}
      BY <1>1, <2>2, <2>5 DEF ReadsTable, IInv, TypeOK
    <3>2. online[w] => StillMade(w)
      BY <1>1, <2>1, <2>3, <3>1 DEF RequestKnown, StillMade, Placed
    <3> QED BY <1>1, <1>5, <2>1, <2>5, <3>2 DEF RequestKnown, Placed
  <2>6. CASE step'[w] = "routing"
    <3>1. target'[w] # None
      BY <1>1, <2>2, <2>4, <2>6 DEF ReadsTable, IInv, TypeOK
    <3> QED BY <1>1, <1>5, <2>1, <2>3, <2>6, <3>1 DEF RequestKnown, Placed
  <2> QED BY <1>1, <2>2, <2>5, <2>6 DEF ReadsTable, IInv, TypeOK
<1>12. CASE WriteRoute6(w)
  <2>1. CASE Overtaken(w)
    BY <1>1, <1>6, <1>7, <1>12, <2>1 DEF WriteRoute6, IInv, TypeOK
  <2>2. CASE ~Overtaken(w)
    <3>1. /\ step[w] = "routing" /\ step'[w] = "address" /\ UNCHANGED <<at, online>>
          /\ table[w].rules \in Rules /\ target[w] # None /\ table[w].id \in RouteTable
          /\ routes' = [routes EXCEPT ![table[w].id] = [table[w].rules EXCEPT !.v6 = target[w]]]
      BY <1>1, <1>12, <2>2 DEF WriteRoute6, IInv, TypeOK, TableRead, Reading, RequestKnown
    <3>2. routes'[table[w].id].v6 # None
      BY <3>1 DEF Rules, IInv, TypeOK
    <3>3. step[w] = "routing" /\ step'[w] = "address" /\ at'[w] = at[w] /\ online'[w] = online[w]
      BY <3>1
    <3>4. at[w] \in block6' /\ V(w) \in prefix'
      BY <1>1, <1>2, <3>3 DEF RequestKnown
    <3>5. StillMade(w)
      BY <1>1, <3>2, <3>3 DEF RequestKnown, StillMade
    <3> QED BY <1>5, <3>3, <3>4, <3>5 DEF Placed
  <2> QED BY <2>1, <2>2
<1>13. CASE CreateAddress(w)
  <2>1. /\ step[w] = "address" /\ step'[w] = "done"
        /\ UNCHANGED <<at, online, routes, overtaken, subnets, prefix, block6>>
    BY <1>1, <1>13 DEF CreateAddress, IInv, TypeOK
  <2>2. online[w] => StillMade(w)
    BY <1>1, <2>1 DEF RequestKnown, RouteMade, StillMade
  <2> QED BY <1>1, <1>5, <2>1, <2>2 DEF RequestKnown, Placed
<1>14. CASE Answer(w) \/ Abort(w)
  BY <1>1, <1>6, <1>7, <1>14 DEF Answer, Abort, IInv, TypeOK, oci
<1>15. CASE step[w] = "waiting" /\ step'[w] = "gateway" /\ UNCHANGED at[w] /\ online'[w] = online[w]
  BY <1>5, <1>15 DEF Placed
<1> QED
  BY <1>1, <1>8, <1>9, <1>10, <1>11, <1>12, <1>13, <1>14, <1>15, Locality DEF Ipv6Acts
-----------------------------------------------------------------------------
NetworkInv == IInv /\ Shapes /\ DefaultRoute /\ MadeVcns /\ (early \/ Alone) /\ Ipv6Known

LEMMA NetworkStep == NetworkInv /\ [Next]_vars => NetworkInv'
<1> SUFFICES ASSUME NetworkInv, [Next]_vars PROVE NetworkInv'
  OBVIOUS
<1> USE DEF NetworkInv
<1>1. IInv' /\ Shapes' /\ DefaultRoute' /\ MadeVcns' /\ Ipv6Known'
  BY InvStep, ShapesStep, DefaultRouteStep, MadeVcnsStep, Ipv6Step
<1>2. early' \/ Alone'
  BY AloneStep, NetworkGrows
<1> QED BY <1>1, <1>2

LEMMA NetworkInvariance == Spec => []NetworkInv
  BY InvInit, NetworkInit, NetworkStep, PTL DEF Spec, NetworkInv

(* A launch creates a subnet only when the default route of its VCN leads to an enabled      *)
(* gateway, although other launches, requests and the owner change the VCN between its calls. *)
THEOREM CreatedSubnetsAreOnline == Spec => CreatedSubnetIsOnline
<1>1. ASSUME NetworkInv, [Next]_vars, NEW v \in Vcn, Cardinality(subnets'[v]) > Cardinality(subnets[v])
      PROVE  routes[Default(v)].v4 \in gateways[v] \cap enabled
  <2>1. Cardinality(subnets[v]) \in Nat
    BY <1>1, FS_CardinalityType DEF NetworkInv, Shapes
  <2>2. subnets'[v] # subnets[v]
    BY <1>1, <2>1
  <2>3. PICK w \in Launch : step[w] = "subnet" /\ V(w) = v
    BY <1>1, <2>2, SubnetsAdded DEF NetworkInv
  <2> QED BY <1>1, <2>3 DEF NetworkInv, DefaultRoute, RouteKnown
<1>2. NetworkInv /\ [Next]_vars =>
        [\A v \in Vcn : Cardinality(subnets'[v]) > Cardinality(subnets[v]) =>
           routes[Default(v)].v4 \in gateways[v] \cap enabled]_vars
  BY <1>1
<1> QED BY NetworkInvariance, <1>2, PTL DEF Spec, CreatedSubnetIsOnline

(* Attempts that fail anywhere and are repeated make one VCN at most, for any number of VCNs *)
(* there, unless one begins during another or before a new VCN is shown.                     *)
THEOREM OneVcnIsEnough == Spec => []AtMostOneVcn
<1>1. NetworkInv => AtMostOneVcn
  <2> SUFFICES ASSUME NetworkInv, ~early PROVE Cardinality(made) <= 1
    BY DEF AtMostOneVcn
  <2>1. \A v, w \in made : v = w
    BY DEF NetworkInv, Alone
  <2>2. CASE made = {}
    BY <2>2, FS_EmptySet
  <2>3. ASSUME NEW v \in made PROVE Cardinality(made) <= 1
    <3>1. made = {v} /\ Cardinality({v}) = 1
      BY <2>1, <2>3, FS_Singleton
    <3> QED BY <3>1
  <2> QED BY <2>2, <2>3
<1> QED BY NetworkInvariance, <1>1, PTL

(* An address that create_ipv6 answers has a block, a prefix and, if the VCN was online, a    *)
(* route, whatever launches and other requests did between its calls.                        *)
THEOREM AddressesAreOnline == Spec => []Ipv6IsOnline
<1>1. NetworkInv => Ipv6IsOnline
  BY DEF NetworkInv, Ipv6Known, RequestKnown, RouteMade, Own, Ipv6IsOnline
<1> QED BY NetworkInvariance, <1>1, PTL
=============================================================================
