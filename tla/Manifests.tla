------------------------------ MODULE Manifests ------------------------------
(***************************************************************************)
(* The manifest builders (src/internal/manifests, and the ones that live   *)
(* with their controllers): the Kubernetes objects made of a spec, reduced *)
(* to what refers to something else.  A name is the sequence of the parts  *)
(* the code joins with "-" or ".", so <<"n", "headless">> is n-headless.   *)
(* Every object has a kind and a name, and beside them                     *)
(*   StatefulSet, Deployment  selector, pod, serviceName                   *)
(*   Service                  selector, ports [name, port, target]; a      *)
(*                            target is a port's name, "" the port itself  *)
(*   Ingress                  rules [host, service, port], tls             *)
(*   ConfigMap                data                                         *)
(*   HorizontalPodAutoscaler  target, min, max                             *)
(*   PodDisruptionBudget      selector                                     *)
(* Images, environment, annotations, the labels of the objects themselves, *)
(* probes' timings and security contexts are left out.                     *)
(***************************************************************************)
EXTENDS Protocols, Sequences, FiniteSets

\* The numerals from "0" on: what the names of a StatefulSet's pods and of a
\* Cloud's volumes end in.
CONSTANT Ordinals

ASSUME OrdinalsAssumption ==
  Len(Ordinals) > 0 /\ Ordinals \in Seq(STRING \ {"headless", "config", "pdb"})

(***************************************************************************)
(* labels.go.                                                              *)
(***************************************************************************)
NoLabels == [key \in {} |-> <<>>]

\* The later map takes precedence.
MergeLabels(first, second) ==
  [key \in DOMAIN first \union DOMAIN second |->
     IF key \in DOMAIN second THEN second[key] ELSE first[key]]

StandardLabels(name, component, partOf) ==
  MergeLabels([name |-> name, instance |-> name, managed_by |-> <<"nchain-operator">>,
               component |-> <<component>>],
              IF partOf = <<>> THEN NoLabels ELSE [part_of |-> partOf])

SelectorLabels(name) == [name |-> name, instance |-> name]

Selects(selector, labels) ==
  \A key \in DOMAIN selector : key \in DOMAIN labels /\ labels[key] = selector[key]

(***************************************************************************)
(* builder.go: the pods and Services of a NodeCluster.                     *)
(***************************************************************************)
PlainPod(labels) ==
  [labels |-> labels, ports |-> {}, probed |-> {}, listens |-> {}, paths |-> {},
   mounts |-> {}, volumes |-> {}, init |-> {}, configMap |-> <<>>, claim |-> <<>>,
   script |-> FALSE, reaches |-> {}, requests |-> <<0, 0>>, limits |-> <<0, 0>>]

Port(name, port) == [name |-> name, port |-> port]

\* A bug: the ports the spec adds are forgotten.
ContainerPortsOfDriver(s) ==
  LET defaults == Driver(s).ports
  IN  {Port("rpc", OrDefault(s.rpc, defaults.rpc)), Port("p2p", OrDefault(s.p2p, defaults.p2p)),
       Port("metrics", OrDefault(s.metrics, defaults.metrics))} \union defaults.additional

ContainerPorts(s) ==
  LET defaults == Driver(s).ports
      given == {p.name : p \in s.additional}
  IN  {Port("rpc", OrDefault(s.rpc, defaults.rpc)), Port("p2p", OrDefault(s.p2p, defaults.p2p)),
       Port("metrics", OrDefault(s.metrics, defaults.metrics))}
        \union s.additional
        \union {p \in defaults.additional : p.name \notin given}

To(name, port) == [name |-> name, port |-> port, target |-> name]

\* The defaults are those of an EVM node, whatever the protocol.
ServicePorts(s) ==
  {To("rpc", OrDefault(s.rpc, 8545)), To("p2p", OrDefault(s.p2p, 30303)),
   To("metrics", OrDefault(s.metrics, 9090))}
    \union {To(p.name, p.port) : p \in s.additional}

NodePod(name, s) ==
  LET driver == Driver(s)
      labels == MergeLabels(StandardLabels(name, "node", name), s.labels)
  IN  [PlainPod(MergeLabels(labels, SelectorLabels(name)))
         EXCEPT !.ports = ContainerPorts(s), !.probed = {driver.rpc},
                !.listens = driver.command.listens, !.paths = driver.command.paths,
                !.script = driver.script,
                !.mounts = driver.mounts, !.volumes = driver.volumes \union {"data"},
                !.init = driver.init,
                !.configMap = IF "config" \in driver.volumes THEN name \o <<"config">> ELSE <<>>,
                !.requests = driver.resources.requests, !.limits = driver.resources.limits]

NodeStatefulSet(name, s) ==
  [kind |-> "StatefulSet", name |-> name, selector |-> SelectorLabels(name),
   serviceName |-> name \o <<"headless">>, pod |-> NodePod(name, s)]

Service(name, selector, ports) ==
  [kind |-> "Service", name |-> name, selector |-> selector, ports |-> ports]

NodeHeadlessService(name, s) ==
  Service(name \o <<"headless">>, SelectorLabels(name), ServicePorts(s))

NodeService(name, s) == Service(name, SelectorLabels(name), ServicePorts(s))

\* network_snapshot.go: one Service per pod, for the ports the reconciler resolved.
PerPodService(name, s, i) ==
  LET defaults == Driver(s).ports
  IN  Service(name \o <<i>>,
              MergeLabels(SelectorLabels(name), [pod_name |-> name \o <<i>>]),
              {To("rpc", OrDefault(s.rpc, defaults.rpc)), To("p2p", OrDefault(s.p2p, defaults.p2p))})

\* Only the lux driver has one: startup.sh.
NodeConfigMap(name, s) ==
  [kind |-> "ConfigMap", name |-> name \o <<"config">>,
   data |-> [listens |-> LuxStartupScript(s).listens, paths |-> LuxStartupScript(s).paths,
             routes |-> {}]]

PDB(name) ==
  [kind |-> "PodDisruptionBudget", name |-> name \o <<"pdb">>, selector |-> SelectorLabels(name)]

(***************************************************************************)
(* Deployments.                                                            *)
(***************************************************************************)
Deployment(name, pod) ==
  [kind |-> "Deployment", name |-> name, selector |-> SelectorLabels(name), pod |-> pod]

\* The pod of one Deployment of an Explorer or a Bridge: its image declares no ports.
SidePod(name, component, of) ==
  PlainPod(MergeLabels(StandardLabels(name, component, of), SelectorLabels(name)))

ExplorerDeployments(name, s) ==
  {Deployment(name \o <<"backend">>, SidePod(name \o <<"backend">>, "explorer-backend", name))}
    \union If(s.front, {Deployment(name \o <<"frontend">>,
                                   SidePod(name \o <<"frontend">>, "explorer-frontend", name))})

BridgeDeployments(name, s) ==
  {Deployment(name \o <<"server">>, SidePod(name \o <<"server">>, "bridge-server", name))}
    \union If(s.front, {Deployment(name \o <<"ui">>, SidePod(name \o <<"ui">>, "bridge-ui", name))})

BuildIndexerDeployment(name, s) ==
  Deployment(name,
    [PlainPod(MergeLabels(StandardLabels(name, "indexer", <<>>), SelectorLabels(name)))
       EXCEPT !.mounts = If(s.storage, {Data})])

IndexerSeedRestoreInit(s) == If(s.restore, {[name |-> "seed-restore", mounts |-> {Data}]})

\* indexer_controller.go: what is layered on the Deployment of the builder.
AugmentIndexerDeployment(dep, name, s, port, endpoint) ==
  [dep EXCEPT !.pod =
     [dep.pod EXCEPT !.reaches = {endpoint}, !.mounts = dep.pod.mounts \union {Data},
                     !.volumes = {"data"}, !.claim = name \o <<"data">>,
                     !.paths = {"/data"}, !.listens = {port}, !.ports = {Port("http", port)},
                     !.probed = {port},
                     !.init = IndexerSeedRestoreInit(s)]]

IndexerPVC(name) == [kind |-> "PersistentVolumeClaim", name |-> name \o <<"data">>]

\* gateway_controller.go.
GatewayDeployment(name) ==
  Deployment(name,
    [PlainPod(MergeLabels(StandardLabels(name, "gateway", <<>>), SelectorLabels(name)))
       EXCEPT !.ports = {Port("http", 8080)}, !.listens = {8080}, !.probed = {8080},
              !.mounts = {<<"config", "/etc/gateway">>}, !.paths = {"/etc/gateway"},
              !.volumes = {"config"}, !.configMap = name \o <<"config">>])

(***************************************************************************)
(* Ingresses.  A host is the sequence of its labels.                       *)
(***************************************************************************)
RegisteredDomain(host) ==
  IF Len(host) < 2 THEN host ELSE SubSeq(host, Len(host) - 1, Len(host))

\* A bug, and what the grouping replaced: one certificate for every host.
TLSBundle(name, hosts) == {[hosts |-> hosts, secret |-> name \o <<"tls">>]}

TLSPerRegisteredDomain(name, hosts) ==
  LET domains == {RegisteredDomain(h) : h \in hosts}
  IN  {[hosts |-> {h \in hosts : RegisteredDomain(h) = d},
        secret |-> IF Cardinality(domains) > 1 THEN name \o d \o <<"tls">> ELSE name \o <<"tls">>]
         : d \in domains}

Rule(host, service, port) == [host |-> host, service |-> service, port |-> port]

BuildIngress(name, spec, service, port) ==
  [kind |-> "Ingress", name |-> name, rules |-> {Rule(h, service, port) : h \in spec.hosts},
   tls |-> If(spec.tls /\ spec.hosts # {}, TLSPerRegisteredDomain(name, spec.hosts))]

(***************************************************************************)
(* The Cloud: one API for all brands, one web frontend per brand.          *)
(***************************************************************************)
KubeconfigPath(brand) == "/etc/kubeconfig/" \o brand

\* A volume goes by the place of its target in the list, a path by its brand.
CloudAPIDeployment(name, s) ==
  LET api == name \o <<"api">>
      labels == MergeLabels(StandardLabels(api, "cloud-api", name), s.labels)
      Volume(i) == "kubeconfig-" \o Ordinals[i]
      Path(i) == KubeconfigPath(s.targets[i])
      targets == DOMAIN s.targets
  IN  Deployment(api,
        [PlainPod(MergeLabels(labels, SelectorLabels(api)))
           EXCEPT !.ports = {Port("http", 8000)}, !.listens = {8000}, !.probed = {8000},
                  !.volumes = {Volume(i) : i \in targets},
                  !.mounts = {<<Volume(i), Path(i)>> : i \in targets},
                  !.paths = {Path(i) : i \in targets}])

WebName(name, brand) == name \o <<"web", brand.name>>

CloudWebDeployment(name, s, brand) ==
  LET web == WebName(name, brand)
      labels == MergeLabels(MergeLabels(StandardLabels(web, "cloud-web", name), s.labels),
                            [brand |-> <<brand.name>>])
  IN  Deployment(web,
        [PlainPod(MergeLabels(labels, SelectorLabels(web)))
           EXCEPT !.ports = {Port("http", 3001)}, !.listens = {3001}, !.probed = {3001}])

CloudService(name, port) ==
  Service(name, SelectorLabels(name), {[name |-> "http", port |-> port, target |-> "http"]})

\* An autoscaler's bounds of 0 are bounds not given.
CloudHPA(name, target, spec) ==
  [kind |-> "HorizontalPodAutoscaler", name |-> name \o <<"hpa">>, target |-> target,
   min |-> OrDefault(spec.min, 2), max |-> OrDefault(spec.max, 20)]

CloudAPIIngress(name, s) ==
  LET api == name \o <<"api">>
      Hosts(brand) == {<<"api">> \o brand.domain, <<"ws">> \o brand.domain}
  IN  [kind |-> "Ingress", name |-> api,
       rules |-> {Rule(h, api, 8000) : h \in UNION {Hosts(b) : b \in s.brands}},
       tls |-> If(s.ingress.tls,
                  {[hosts |-> Hosts(b), secret |-> api \o <<b.name, "tls">>] : b \in s.brands})]

CloudWebIngress(name, s, brand) ==
  LET web == WebName(name, brand)
  IN  [kind |-> "Ingress", name |-> web, rules |-> {Rule(brand.domain, web, 3001)},
       tls |-> If(s.ingress.tls, {[hosts |-> {brand.domain}, secret |-> web \o <<"tls">>]})]

(***************************************************************************)
(* mutate.go: what an update of an object takes from the desired one.  An  *)
(* object that did not exist is created of what is taken, no more: the     *)
(* service name of a StatefulSet is not.  The claim of an Indexer is       *)
(* created once, without it, and left alone.                               *)
(***************************************************************************)
Mutated(old, desired) ==
  CASE desired.kind = "StatefulSet" ->
         [desired EXCEPT !.selector = IF old = <<>> THEN desired.selector ELSE old.selector,
                         !.serviceName = IF old = <<>> THEN <<>> ELSE old.serviceName]
    [] desired.kind = "Deployment" ->
         [desired EXCEPT !.selector = IF old = <<>> THEN desired.selector ELSE old.selector]
    [] desired.kind = "PersistentVolumeClaim" -> IF old = <<>> THEN desired ELSE old
    [] OTHER -> desired
=============================================================================
