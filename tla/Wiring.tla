-------------------------------- MODULE Wiring --------------------------------
(***************************************************************************)
(* The objects the reconcilers keep in one namespace, and how they refer   *)
(* to each other: a NodeCluster, an Indexer of it, a Gateway to it, an     *)
(* Explorer of the Indexer, a Bridge and a Cloud.  Each reconciler writes  *)
(* the objects of its own resource, knowing of the others what it reads    *)
(* when it happens to run.  Workload and NodeCluster have the single calls *)
(* of a pass, its failures and its queue; here a pass is one step, and the *)
(* matter is what the objects of different passes make together.           *)
(***************************************************************************)
EXTENDS Manifests

CONSTANTS
  Stacks,      \* the sets of kinds an instance starts with
  Specs,       \* for each kind, the specs users submit
  LabelSets,   \* the labels users put on pods
  Blockchains, \* what the P-chain of a lux node lists
  MaxEdits     \* bounds the edits, and with them the submissions after the start

Kinds == {"NodeCluster", "Indexer", "Gateway", "Explorer", "Bridge", "Cloud"}

(***************************************************************************)
(* What the reconcilers read of a spec; <<>> is an optional part left out. *)
(***************************************************************************)
NamedPort == [name : STRING, port : Nat]
IngressSpec == [hosts : SUBSET Seq(STRING), tls : BOOLEAN]
AutoscalingSpec == [enabled : BOOLEAN, min : Nat, max : Nat]
BrandConfig == [name : STRING, domain : Seq(STRING)]

NodeClusterSpec ==
  [protocol : STRING, role : {"validator", "fullnode", "archive"},
   rpc : Nat, p2p : Nat, metrics : Nat, additional : SUBSET NamedPort,
   keys : BOOLEAN, plugins : BOOLEAN, chains : BOOLEAN, config : BOOLEAN,
   restore : BOOLEAN, userListens : SUBSET Nat, replicas : 1 .. Len(Ordinals),
   perPod : BOOLEAN, labels : LabelSets]

Exposable == {<<>>} \union IngressSpec
IndexerSpec == [port : Nat, storage : BOOLEAN, restore : BOOLEAN, ingress : Exposable]
GatewaySpec ==
  [autoRoutes : BOOLEAN, indexers : SUBSET Seq(STRING), ingress : Exposable]
ExplorerSpec == [front : BOOLEAN, ingress : Exposable]
BridgeSpec == [front : BOOLEAN, ingress : Exposable]
CloudSpec ==
  [brands : SUBSET BrandConfig, labels : LabelSets, targets : Seq(STRING),
   hpa : AutoscalingSpec, web : AutoscalingSpec, ingress : {<<>>} \union [tls : BOOLEAN]]

ASSUME SpecsAssumption ==
  /\ Specs["NodeCluster"] \subseteq NodeClusterSpec
  /\ Specs["Indexer"] \subseteq IndexerSpec
  /\ Specs["Gateway"] \subseteq GatewaySpec
  /\ Specs["Explorer"] \subseteq ExplorerSpec
  /\ Specs["Bridge"] \subseteq BridgeSpec
  /\ Specs["Cloud"] \subseteq CloudSpec
  /\ \A s \in Specs["Cloud"] : Len(s.targets) <= Len(Ordinals)
\* What no builder looks at, and users see to: a command of their own listens
\* where its NodeCluster says, a brand goes by its name, has a domain of its own
\* and is the target of one cluster, and the hosts are a list.
ASSUME UsersAssumption ==
  /\ \A s \in Specs["NodeCluster"] :
       s.protocol = "generic" => OrDefault(s.rpc, 8545) \in s.userListens
  /\ \A s \in Specs["Cloud"] : \A a, b \in s.brands :
       Len(a.domain) > 1 /\ (a.name = b.name \/ a.domain = b.domain => a = b)
  /\ \A s \in Specs["Cloud"] : \A i, j \in DOMAIN s.targets :
       KubeconfigPath(s.targets[i]) = KubeconfigPath(s.targets[j]) => i = j
  /\ \A kind \in Kinds \ {"NodeCluster", "Cloud"} : \A s \in Specs[kind] :
       s.ingress # <<>> => IsFiniteSet(s.ingress.hosts)
ASSUME StacksAssumption == Stacks \subseteq SUBSET Kinds

VARIABLES
  spec,    \* the resource of each kind, <<>> where there is none
  queued,  \* the kinds whose resource is queued to its reconciler
  api,     \* the objects in the API
  edits    \* how many edits there have been

vars == <<spec, queued, api, edits>>

Init ==
  /\ \E stack \in Stacks :
       LET Choices(kind) == IF kind \in stack THEN Specs[kind] ELSE {<<>>}
       IN  /\ spec \in [NodeCluster : Choices("NodeCluster"), Indexer : Choices("Indexer"),
                        Gateway : Choices("Gateway"), Explorer : Choices("Explorer"),
                        Bridge : Choices("Bridge"), Cloud : Choices("Cloud")]
           /\ queued = stack
  /\ api = {}
  /\ edits = 0

Present(kind) == spec[kind] # <<>>

\* The names of the resources; the specs refer to one another by them.
Node == <<"n">>
TheIndexer == <<"i">>

(***************************************************************************)
(* What a pass of each reconciler writes.                                  *)
(***************************************************************************)
NodeClusterObjects(s) ==
  If(s.protocol \in Protocols,
     {NodeStatefulSet(Node, s), NodeHeadlessService(Node, s), NodeService(Node, s)}
       \union If(Driver(s).script, {NodeConfigMap(Node, s)})
       \union If(s.replicas > 1, {PDB(Node)})
       \union If(s.perPod, {PerPodService(Node, s, Ordinals[i]) : i \in 1 .. s.replicas}))

\* resolveEndpoints: the first pod of the NodeCluster, by its own DNS name.
ResolvedEndpoint(s) ==
  [service |-> Node \o <<"headless">>, pod |-> Node \o <<Ordinals[1]>>,
   port |-> IF Present("NodeCluster") THEN OrDefault(spec.NodeCluster.rpc, 9650) ELSE 9650]

IndexerObjects(s) ==
  LET port == OrDefault(s.port, 8091)
  IN  {IndexerPVC(TheIndexer),
       AugmentIndexerDeployment(BuildIndexerDeployment(TheIndexer, s), TheIndexer, s, port,
                                ResolvedEndpoint(s)),
       CloudService(TheIndexer, port)}
        \union If(s.ingress # <<>>, {BuildIngress(TheIndexer, s.ingress, TheIndexer, port)})

\* discoverSubnetChains: the chains beside the primary network's that have an ID.
SubnetChains(listed) == {chain \in listed : ~chain.primary /\ chain.id # ""}

Route(endpoint, backend) == [endpoint |-> endpoint, backend |-> backend]

\* buildGatewayConfig, without the routes the spec gives whole.  Those to Indexers
\* go to port 8080, whatever the Indexer.
GatewayRoutes(s, chains) ==
  LET node == spec.NodeCluster
      backend == [service |-> Node \o <<"headless">>, pod |-> <<>>, port |-> OrDefault(node.rpc, 8545)]
      lux == {<<"C", "rpc">>, <<"C", "ws">>, <<"X">>, <<"P">>, <<"info">>, <<"health">>}
               \union {<<chain.id, end>> : chain \in chains, end \in {"rpc", "ws"}}
  IN  If(s.autoRoutes /\ Present("NodeCluster"),
         {Route(path, backend) :
            path \in IF node.protocol = "lux" THEN lux ELSE {<<"rpc">>}})
        \union {Route(<<"api", "indexer">> \o ref, [service |-> ref, pod |-> <<>>, port |-> 8080])
                  : ref \in s.indexers}

GatewayObjects(s, chains) ==
  LET g == <<"g">>
  IN  {[kind |-> "ConfigMap", name |-> g \o <<"config">>,
        data |-> [listens |-> {8080}, paths |-> {}, routes |-> GatewayRoutes(s, chains)]],
       GatewayDeployment(g),
       Service(g, SelectorLabels(g), {[name |-> "http", port |-> 80, target |-> "http"]})}
        \union If(s.ingress # <<>>, {BuildIngress(g, s.ingress, g, 80)})

\* The Service of a Deployment that declares no ports.
SideService(name, port) ==
  Service(name, SelectorLabels(name), {[name |-> "http", port |-> port, target |-> ""]})

Fronted(name, s, back, backPort, front) ==
  {SideService(name \o <<back>>, backPort)}
    \union If(s.front, {SideService(name \o <<front>>, 3000)})
    \union If(s.ingress # <<>>,
              {IF s.front THEN BuildIngress(name, s.ingress, name \o <<front>>, 3000)
                          ELSE BuildIngress(name, s.ingress, name \o <<back>>, backPort)})

\* The Indexer's Service, at the port an Indexer has by default.
IndexerEndpoint == [service |-> TheIndexer, pod |-> <<>>, port |-> 8091]

ExplorerObjects(s) ==
  {[d EXCEPT !.pod.reaches = {IndexerEndpoint}] : d \in ExplorerDeployments(<<"e">>, s)}
    \union Fronted(<<"e">>, s, "backend", 4000, "frontend")

BridgeObjects(s) ==
  BridgeDeployments(<<"b">>, s) \union Fronted(<<"b">>, s, "server", 8080, "ui")

CloudObjects(s) ==
  LET c == <<"c">>
      api_ == c \o <<"api">>
      Web(brand) ==
        {CloudWebDeployment(c, s, brand), CloudService(WebName(c, brand), 3001)}
          \union If(s.web.enabled, {CloudHPA(WebName(c, brand), WebName(c, brand), s.web)})
          \union If(s.ingress # <<>>, {CloudWebIngress(c, s, brand)})
  IN  {CloudAPIDeployment(c, s), CloudService(api_, 8000), PDB(api_)}
        \union If(s.hpa.enabled, {CloudHPA(api_, api_, s.hpa)})
        \union If(s.ingress # <<>>, {CloudAPIIngress(c, s)})
        \union UNION {Web(brand) : brand \in s.brands}

Objects(kind, chains) ==
  CASE kind = "NodeCluster" -> NodeClusterObjects(spec.NodeCluster)
    [] kind = "Indexer" -> IndexerObjects(spec.Indexer)
    [] kind = "Gateway" -> GatewayObjects(spec.Gateway, chains)
    [] kind = "Explorer" -> ExplorerObjects(spec.Explorer)
    [] kind = "Bridge" -> BridgeObjects(spec.Bridge)
    [] kind = "Cloud" -> CloudObjects(spec.Cloud)

(***************************************************************************)
(* Steps.                                                                  *)
(***************************************************************************)
SameKey(a, b) == a.kind = b.kind /\ a.name = b.name

\* CreateOrUpdate of every object; what is not desired any more stays.
Applied(objects) ==
  LET Old(new) == {old \in api : SameKey(old, new)}
  IN  {old \in api : \A new \in objects : ~SameKey(old, new)}
        \union {Mutated(IF Old(new) = {} THEN <<>> ELSE CHOOSE old \in Old(new) : TRUE, new)
                  : new \in objects}

\* A bug: no reconciler comes back to its resource by itself.
ResyncsNever == {}

\* The reconcilers that ask to be run again a minute later.
Resyncs == {"Indexer", "Gateway"}

Reconcile(kind) ==
  /\ kind \in queued \/ (kind \in Resyncs /\ Present(kind))
  /\ \E chains \in {SubnetChains(Blockchains), {}} : api' = Applied(Objects(kind, chains))
  /\ queued' = queued \ {kind}
  /\ UNCHANGED <<spec, edits>>

\* A user submits a resource or edits it.
Edit(kind) ==
  /\ edits < MaxEdits
  /\ edits' = edits + 1
  /\ \E s \in Specs[kind] \ {spec[kind]} : spec' = [spec EXCEPT ![kind] = s]
  /\ queued' = queued \union {kind}
  /\ UNCHANGED api

Next == \E kind \in Kinds : Reconcile(kind) \/ Edit(kind)

\* Every reconciler has a worker of its own, which gets to what is queued, and
\* what is to be run again a minute later is queued again a minute later.
Fairness == \A kind \in Kinds : WF_vars(Reconcile(kind))

Spec == Init /\ [][Next]_vars
FairSpec == Spec /\ Fairness

(***************************************************************************)
(* Properties.                                                             *)
(***************************************************************************)
Of(kind) == {object \in api : object.kind = kind}
Workloads == Of("StatefulSet") \union Of("Deployment")

\* What the pod's process listens on and reads: of the script in its ConfigMap
\* when it is started by one.
Process(w) ==
  IF w.pod.script
    THEN CHOOSE data \in {cm.data : cm \in {o \in Of("ConfigMap") : o.name = w.pod.configMap}} : TRUE
    ELSE w.pod

\* Whatever protocol and options a resource has, and had before, its pods can
\* start and pass their probes: every volume mounted is there, no path is mounted
\* twice, every ConfigMap and claim exists, every directory the command names is
\* mounted, what is probed is listened on, and no limit is below its request.  A
\* solana node without a secret is given no identity: its /keys is the exception.
PodsAreWhole ==
  \A w \in Workloads :
    LET pod == w.pod
        mounted == {m[2] : m \in pod.mounts}
    IN  /\ {m[1] : m \in pod.mounts \union UNION {c.mounts : c \in pod.init}} \subseteq pod.volumes
        /\ \A m, n \in pod.mounts : m[2] = n[2] => m = n
        /\ pod.configMap # <<>> => \E cm \in Of("ConfigMap") : cm.name = pod.configMap
        /\ pod.claim # <<>> => \E pvc \in Of("PersistentVolumeClaim") : pvc.name = pod.claim
        /\ (pod.paths \union Process(w).paths) \ {"/keys"} \subseteq mounted
        /\ pod.probed \subseteq Process(w).listens
        /\ pod.probed \subseteq {p.port : p \in pod.ports}
        /\ \A i \in 1 .. 2 : pod.requests[i] <= pod.limits[i]

\* The labels a pod of the workload may have: those of the template, and of a
\* StatefulSet its name.
PodLabels(w) ==
  IF w.kind = "Deployment" THEN {w.pod.labels}
  ELSE {MergeLabels(w.pod.labels, [pod_name |-> w.name \o <<Ordinals[i]>>]) : i \in DOMAIN Ordinals}

Selected(selector) ==
  {w \in Workloads : \E labels \in PodLabels(w) : Selects(selector, labels)}

\* With several resources in the namespace and labels of the user's own on the
\* pods, every selector still finds the pods of one workload and no other, and
\* every port of a Service comes out at a port those pods declare; a node's RPC
\* and others' HTTP, where something listens.  A workload selects its own pods, and
\* an autoscaler scales a workload that exists.
SelectorsFindTheirPods ==
  /\ \A w \in Workloads : Selected(w.selector) = {w}
  /\ \A pdb \in Of("PodDisruptionBudget") : Cardinality(Selected(pdb.selector)) = 1
  /\ \A hpa \in Of("HorizontalPodAutoscaler") : \E w \in Of("Deployment") : w.name = hpa.target
  /\ \A svc \in Of("Service") :
       \E w \in Workloads :
         /\ Selected(svc.selector) = {w}
         /\ \A p \in svc.ports :
              p.target # "" =>
                \E q \in w.pod.ports :
                  /\ q.name = p.target
                  /\ p.name = (IF w.kind = "StatefulSet" THEN "rpc" ELSE "http") =>
                       q.port \in Process(w).listens

\* The Ingresses that resources ask for: those of a resource that no longer
\* does stay behind.
Asked(ingress) ==
  \E kind \in {"Indexer", "Gateway", "Explorer", "Bridge", "Cloud"} :
    /\ Present(kind) /\ kind \notin queued
    /\ spec[kind].ingress # <<>>
    /\ Head(ingress.name) = [Indexer |-> "i", Gateway |-> "g", Explorer |-> "e",
                             Bridge |-> "b", Cloud |-> "c"][kind]

\* Every host an Ingress routes goes to a port of a Service that is there, also
\* after the frontend it went to is given up.  With TLS it is on exactly one
\* certificate, that certificate has only hosts of one registered domain, so
\* that one domain that fails to validate takes no other with it, and no two
\* certificates share a secret.
IngressesAreServed ==
  LET asked == {i \in Of("Ingress") : Asked(i)}
  IN  /\ \A i \in asked : \A rule \in i.rules :
           \E svc \in Of("Service") :
             svc.name = rule.service /\ \E p \in svc.ports : p.port = rule.port
      /\ \A i \in asked :
           i.tls # {} =>
             \A rule \in i.rules : Cardinality({t \in i.tls : rule.host \in t.hosts}) = 1
      /\ \A i \in asked : \A t \in i.tls :
           Cardinality({RegisteredDomain(host) : host \in t.hosts}) = 1
      /\ \A i, j \in asked : \A t \in i.tls, u \in j.tls :
           t.secret = u.secret => i = j /\ t = u

\* The NodeCluster's pods, once it has some, listen on the port.
NodeListens(port) ==
  \A w \in Of("StatefulSet") : port \in Process(w).listens

\* A Service is there for the address, and has its port.
Served(address) ==
  \E svc \in Of("Service") :
    svc.name = address.service /\ \E p \in svc.ports : p.port = address.port

\* Where the Gateway sends what is for the Indexer.
IndexerRoutes ==
  {backend \in UNION {{route.backend : route \in cm.data.routes} : cm \in Of("ConfigMap")} :
     backend.service = TheIndexer}

\* However the NodeCluster, the Indexer and the Gateway are edited and in
\* whatever order they are reconciled, in the end the addresses in the Indexer
\* and in the Gateway's configuration are those of the NodeCluster as it is,
\* whether or not the discovery of its chains works.  This is for NodeClusters
\* that give their RPC port, or lux ones for the Indexer: for others the three
\* take different defaults.  An Explorer and a Gateway each reach the Indexer
\* when it is at the port they fix, 8091 and 8080: they look at no other, so no
\* Indexer is reached by both (RoutesReachIndexers).
Wired ==
  /\ Present("NodeCluster") /\ spec.NodeCluster.protocol \in Protocols =>
       /\ (spec.NodeCluster.rpc > 0 \/ spec.NodeCluster.protocol = "lux") =>
            \A w \in Of("Deployment") : \A a \in w.pod.reaches :
              a.pod # <<>> => NodeListens(a.port)
       /\ spec.NodeCluster.rpc > 0 /\ Present("Gateway") =>
            \E cm \in Of("ConfigMap") :
              /\ cm.name = <<"g", "config">>
              /\ \A route \in cm.data.routes :
                   route.backend.service = Node \o <<"headless">> => NodeListens(route.backend.port)
              /\ spec.Gateway.autoRoutes =>
                   (<<"C", "rpc">> \in {route.endpoint : route \in cm.data.routes})
                     = (spec.NodeCluster.protocol = "lux")
  /\ Present("Indexer") /\ OrDefault(spec.Indexer.port, 8091) = 8091 =>
       \A w \in Of("Deployment") : \A a \in w.pod.reaches :
         a.service = TheIndexer => Served(a)
  /\ Present("Indexer") /\ spec.Indexer.port = 8080 =>
       \A address \in IndexerRoutes : Served(address)

EventuallyWired == <>[]Wired

\* What a Gateway sends to an Indexer gets to it, once both are reconciled: the
\* Services of Indexers listen on the port its routes have.
RoutesReachIndexers ==
  Present("Indexer") /\ queued = {} => \A address \in IndexerRoutes : Served(address)

\* The pods a NodeCluster's own Service and an Indexer's address name have that
\* name: their StatefulSet says that the headless Service is its governing one.
PodNamesResolve ==
  \A w \in Of("StatefulSet") : \A d \in Of("Deployment") : \A a \in d.pod.reaches :
    a.pod = w.name \o <<Ordinals[1]>> => w.serviceName = a.service
=============================================================================
