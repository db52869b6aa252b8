----------------------------- MODULE WiringProofs -----------------------------
(***************************************************************************)
(* Proofs about Wiring: pods are whole, selectors find the pods of one     *)
(* workload and Ingresses are served, for every set of specs and labels    *)
(* users may submit, and however often they edit them.                     *)
(***************************************************************************)
EXTENDS Wiring, SequenceTheorems, FiniteSetTheorems, TLAPS

(***************************************************************************)
(* Every object belongs to the resource whose letter its name begins with, *)
(* and a pass touches no other's.  What a pass makes is of a shape that    *)
(* depends on its key alone, except the objects of the NodeCluster, which  *)
(* are all of one spec, and the port of the Indexer.  What an object needs *)
(* of another is an object of some key, and keys never go.                 *)
(***************************************************************************)
Letter ==
  [NodeCluster |-> "n", Indexer |-> "i", Gateway |-> "g", Explorer |-> "e",
   Bridge |-> "b", Cloud |-> "c"]

HasKey(objects, kind, name) == \E o \in objects : o.kind = kind /\ o.name = name

Keyed(objects) == \A a, b \in objects : SameKey(a, b) => a = b

Wears(labels, name) ==
  /\ "name" \in DOMAIN labels /\ labels["name"] = name
  /\ "instance" \in DOMAIN labels /\ labels["instance"] = name

\* What PodsAreWhole asks of a pod and the process it starts, other objects apart.
Fit(pod, process) ==
  /\ \A m \in pod.mounts : m[1] \in pod.volumes
  /\ \A c \in pod.init : \A m \in c.mounts : m[1] \in pod.volumes
  /\ \A m, n \in pod.mounts : m[2] = n[2] => m = n
  /\ \A path \in pod.paths \union process.paths :
       path = "/keys" \/ \E m \in pod.mounts : m[2] = path
  /\ \A port \in pod.probed :
       port \in process.listens /\ \E p \in pod.ports : p.port = port
  /\ \A i \in 1 .. 2 : pod.requests[i] <= pod.limits[i]

DeploymentShape(o) ==
  /\ o = Deployment(o.name, o.pod)
  /\ Wears(o.pod.labels, o.name)
  /\ Fit(o.pod, o.pod)
  /\ ~o.pod.script
  /\ o.name[1] \in {"i", "g", "c"} =>
       \E q \in o.pod.ports : q.name = "http" /\ q.port \in o.pod.listens

\* The port of a Service, of which only the Indexer's is a matter of the spec.
SidePort(name) ==
  CASE name[1] = "g" -> 80
    [] name[1] = "e" -> IF name[2] = "backend" THEN 4000 ELSE 3000
    [] name[1] = "b" -> IF name[2] = "server" THEN 8080 ELSE 3000
    [] name[1] = "c" -> IF name[2] = "api" THEN 8000 ELSE 3001

ServiceShape(o) ==
  /\ o.selector = SelectorLabels(o.name)
  /\ \A p \in o.ports :
       p.target # "" =>
         p.target = "http" /\ p.name = "http" /\ o.name[1] \in {"i", "g", "c"}
  /\ o.name[1] # "i" => \E p \in o.ports : p.port = SidePort(o.name)

\* A secret begins with the name of its Ingress.
Bearer(secret) ==
  IF secret[1] # "c" THEN <<secret[1]>>
  ELSE IF secret[2] = "api" THEN <<"c", "api">> ELSE <<"c", "web", secret[3]>>

CertificatesShape(rules, tls) ==
  /\ tls # {} => \A rule \in rules : \E t \in tls : {u \in tls : rule.host \in u.hosts} = {t}
  /\ \A t \in tls : \E d : {RegisteredDomain(host) : host \in t.hosts} = {d}
  /\ \A t, u \in tls : t.secret = u.secret => t = u

IngressShape(o) ==
  /\ CertificatesShape(o.rules, o.tls)
  /\ \A t \in o.tls : o.name = Bearer(t.secret)
  /\ o.name[1] = "i" => o.name = TheIndexer
  /\ o.name[1] # "i" =>
       \A rule \in o.rules :
         rule.service[1] \notin {"i", "n"} /\ rule.port = SidePort(rule.service)

\* An object of another resource than the NodeCluster.
Shape(o) ==
  /\ o.kind # "StatefulSet"
  /\ o.kind = "Deployment" => DeploymentShape(o)
  /\ o.kind = "Service" => ServiceShape(o)
  /\ o.kind = "PersistentVolumeClaim" => o = IndexerPVC(TheIndexer)
  /\ o.kind = "PodDisruptionBudget" => o.selector = SelectorLabels(<<"c", "api">>)
  /\ o.kind = "Ingress" => IngressShape(o)

\* The objects it names are there.
Relies(o, objects) ==
  /\ o.kind = "Deployment" =>
       /\ o.pod.configMap # <<>> => HasKey(objects, "ConfigMap", o.pod.configMap)
       /\ o.pod.claim # <<>> => HasKey(objects, "PersistentVolumeClaim", o.pod.claim)
  /\ o.kind = "Service" => HasKey(objects, "Deployment", o.name)
  /\ o.kind = "PodDisruptionBudget" => HasKey(objects, "Deployment", <<"c", "api">>)
  /\ o.kind = "HorizontalPodAutoscaler" => HasKey(objects, "Deployment", o.target)
  /\ o.kind = "Ingress" => \A rule \in o.rules : HasKey(objects, "Service", rule.service)

\* An object a NodeCluster of spec s has, or had before s.
NodeShape(o, s) ==
  \/ /\ o.kind = "StatefulSet"
     /\ o = [NodeStatefulSet(Node, s) EXCEPT !.serviceName = o.serviceName]
  \/ o.kind = "ConfigMap" /\ o.name = Node \o <<"config">>
  \/ o = PDB(Node)
  \/ /\ o.kind = "Service" /\ o.name \in {Node, Node \o <<"headless">>}
     /\ o.selector = SelectorLabels(Node)
     /\ o.ports = ServicePorts(s)
  \/ /\ o.kind = "Service"
     /\ \E i \in 1 .. Len(Ordinals) :
          /\ o.name = Node \o <<Ordinals[i]>>
          /\ o.selector = MergeLabels(SelectorLabels(Node), [pod_name |-> Node \o <<Ordinals[i]>>])
     /\ \A p \in o.ports : p.target = p.name /\ p.name \in {"rpc", "p2p"}

Typed ==
  /\ DOMAIN spec = Kinds
  /\ spec = [kind \in Kinds |-> spec[kind]]
  /\ \A kind \in Kinds : Present(kind) => spec[kind] \in Specs[kind]
  /\ queued \subseteq {kind \in Kinds : Present(kind)}

Lettered == \A o \in api : \E kind \in Kinds : o.name[1] = Letter[kind]

NodeInv ==
  \/ \A o \in api : o.name[1] # "n"
  \/ \E s \in Specs["NodeCluster"] :
       /\ s.protocol \in Protocols
       /\ HasKey(api, "StatefulSet", Node)
       /\ Driver(s).script => NodeConfigMap(Node, s) \in api
       /\ \A o \in api : o.name[1] = "n" => NodeShape(o, s)

Settled ==
  Present("Indexer") /\ "Indexer" \notin queued =>
    LET port == OrDefault(spec["Indexer"].port, 8091)
    IN  /\ CloudService(TheIndexer, port) \in api
        /\ spec["Indexer"].ingress # <<>> =>
             BuildIngress(TheIndexer, spec["Indexer"].ingress, TheIndexer, port) \in api

WiringInv ==
  /\ Typed
  /\ Keyed(api)
  /\ Lettered
  /\ \A o \in api : o.name[1] # "n" => Shape(o) /\ Relies(o, api)
  /\ NodeInv
  /\ Settled

-------------------------------------------------------------------------------
(***************************************************************************)
(* Labels and selectors.                                                   *)
(***************************************************************************)
LEMMA SelectorKeys ==
  ASSUME NEW name
  PROVE  /\ DOMAIN SelectorLabels(name) = {"name", "instance"}
         /\ SelectorLabels(name)["name"] = name
         /\ SelectorLabels(name)["instance"] = name
  BY DEF SelectorLabels

\* Whatever labels a user adds, a pod wears the name of its workload: the
\* builders merge the selector's labels in last.
LEMMA MergedWears ==
  ASSUME NEW labels, NEW name
  PROVE  Wears(MergeLabels(labels, SelectorLabels(name)), name)
  BY SelectorKeys DEF Wears, MergeLabels

\* The name of a pod takes nothing of that away.
LEMMA NamedWears ==
  ASSUME NEW labels, NEW name, NEW pod, Wears(labels, name)
  PROVE  Wears(MergeLabels(labels, [pod_name |-> pod]), name)
  BY DEF Wears, MergeLabels

LEMMA SelectsItsName ==
  ASSUME NEW labels, NEW name, NEW other, Wears(labels, name)
  PROVE  Selects(SelectorLabels(other), labels) <=> other = name
  BY SelectorKeys DEF Selects, Wears

LEMMA SelectorsDiffer ==
  ASSUME NEW name, NEW other, SelectorLabels(name) = SelectorLabels(other)
  PROVE  name = other
  BY SelectorKeys

(***************************************************************************)
(* Names and specs.                                                        *)
(***************************************************************************)
LEMMA Letters ==
  /\ Node[1] = "n" /\ TheIndexer[1] = "i"
  /\ \A kind, other \in Kinds : Letter[kind] = Letter[other] => kind = other
  /\ \A kind \in Kinds : Letter[kind] = "n" <=> kind = "NodeCluster"
  BY DEF Node, TheIndexer, Kinds, Letter

LEMMA OneAndOne == \A x, y : <<x>> \o <<y>> = <<x, y>>
<1> SUFFICES ASSUME NEW x, NEW y PROVE <<x>> \o <<y>> = <<x, y>>
  OBVIOUS
<1> DEFINE S == {x, y}
<1>1. <<x>> \in Seq(S) /\ <<y>> \in Seq(S) /\ <<x, y>> \in Seq(S)
  OBVIOUS
<1>2. <<x>> \o <<y>> \in Seq(S) /\ Len(<<x>> \o <<y>>) = 2
  BY <1>1, ConcatProperties
<1>3. \A i \in 1 .. 2 : (<<x>> \o <<y>>)[i] = <<x, y>>[i]
  OBVIOUS
<1>4. QED
  BY <1>1, <1>2, <1>3, SeqEqual

LEMMA OneAndTwo == \A x, y, z : <<x>> \o <<y, z>> = <<x, y, z>>
<1> SUFFICES ASSUME NEW x, NEW y, NEW z PROVE <<x>> \o <<y, z>> = <<x, y, z>>
  OBVIOUS
<1> DEFINE S == {x, y, z}
<1>1. <<x>> \in Seq(S) /\ <<y, z>> \in Seq(S) /\ <<x, y, z>> \in Seq(S)
  OBVIOUS
<1>2. <<x>> \o <<y, z>> \in Seq(S) /\ Len(<<x>> \o <<y, z>>) = 3
  BY <1>1, ConcatProperties
<1>3. \A i \in 1 .. 3 : (<<x>> \o <<y, z>>)[i] = <<x, y, z>>[i]
  OBVIOUS
<1>4. QED
  BY <1>1, <1>2, <1>3, SeqEqual

LEMMA SpecsAreThere ==
  \A kind \in Kinds : \A s \in Specs[kind] : s # <<>>
<1>1. \A s \in Specs["NodeCluster"] : s # <<>>
  BY SpecsAssumption DEF NodeClusterSpec
<1>2. \A s \in Specs["Indexer"] : s # <<>>
  BY SpecsAssumption DEF IndexerSpec
<1>3. \A s \in Specs["Gateway"] : s # <<>>
  BY SpecsAssumption DEF GatewaySpec
<1>4. \A s \in Specs["Explorer"] : s # <<>>
  BY SpecsAssumption DEF ExplorerSpec
<1>5. \A s \in Specs["Bridge"] : s # <<>>
  BY SpecsAssumption DEF BridgeSpec
<1>6. \A s \in Specs["Cloud"] : s # <<>>
  BY SpecsAssumption DEF CloudSpec
<1>7. QED
  BY <1>1, <1>2, <1>3, <1>4, <1>5, <1>6 DEF Kinds

(***************************************************************************)
(* Applying objects to those that are there.                               *)
(***************************************************************************)
\* What MutateFuncFor takes care of is as every builder makes it.
Orderly(o) ==
  /\ o.kind = "Deployment" => o = Deployment(o.name, o.pod)
  /\ o.kind = "StatefulSet" =>
       o = [kind |-> "StatefulSet", name |-> o.name, selector |-> SelectorLabels(o.name),
            serviceName |-> o.serviceName, pod |-> o.pod]
  /\ o.kind = "PersistentVolumeClaim" => o = IndexerPVC(TheIndexer)

\* What is in the API of a desired object.
Alike(o, new) ==
  /\ SameKey(o, new)
  /\ new.kind # "StatefulSet" => o = new
  /\ new.kind = "StatefulSet" => o = [new EXCEPT !.serviceName = o.serviceName]

LEMMA MutatedAlike ==
  ASSUME NEW old, NEW new, Orderly(new), old = <<>> \/ (Orderly(old) /\ SameKey(old, new))
  PROVE  Alike(Mutated(old, new), new)
<1> DEFINE o == Mutated(old, new)
<1>1. CASE new.kind = "StatefulSet"
  <2>1. old # <<>> => old.selector = SelectorLabels(new.name)
    BY <1>1 DEF Orderly, SameKey
  <2>2. o = [new EXCEPT !.selector = IF old = <<>> THEN new.selector ELSE old.selector,
                        !.serviceName = IF old = <<>> THEN <<>> ELSE old.serviceName]
    BY <1>1 DEF Mutated
  <2>3. new = [kind |-> "StatefulSet", name |-> new.name, selector |-> SelectorLabels(new.name),
               serviceName |-> new.serviceName, pod |-> new.pod]
    BY <1>1 DEF Orderly
  <2> DEFINE service == IF old = <<>> THEN <<>> ELSE old.serviceName
  <2>4. new.selector = SelectorLabels(new.name)
    BY <2>3
  <2>5. o = [new EXCEPT !.selector = new.selector, !.serviceName = service]
    BY <2>1, <2>2, <2>4
  <2> HIDE DEF service, o
  <2>6. o = [new EXCEPT !.serviceName = service]
    BY <2>3, <2>5
  <2>7. o.serviceName = service /\ o.kind = new.kind /\ o.name = new.name
    BY <2>3, <2>6
  <2>8. QED
    BY <1>1, <2>6, <2>7 DEF Alike, SameKey, o
<1>2. CASE new.kind = "Deployment"
  <2>1. new = Deployment(new.name, new.pod)
    BY <1>2 DEF Orderly
  <2>2. new.selector = SelectorLabels(new.name)
    BY <2>1 DEF Deployment
  <2>3. old # <<>> => old = Deployment(new.name, old.pod)
    BY <1>2 DEF Orderly, SameKey
  <2>4. old # <<>> => old.selector = SelectorLabels(new.name)
    BY <2>3 DEF Deployment
  <2>5. o = [new EXCEPT !.selector = IF old = <<>> THEN new.selector ELSE old.selector]
    BY <1>2 DEF Mutated
  <2>6. o = [new EXCEPT !.selector = new.selector]
    BY <2>2, <2>4, <2>5
  <2>7. o = new
    BY <2>1, <2>6 DEF Deployment
  <2>8. QED
    BY <1>2, <2>7 DEF Alike, SameKey
<1>3. CASE new.kind = "PersistentVolumeClaim"
  <2>1. o = IF old = <<>> THEN new ELSE old
    BY <1>3 DEF Mutated
  <2>2. o = new
    BY <1>3, <2>1 DEF Orderly, SameKey
  <2>3. QED
    BY <1>3, <2>2 DEF Alike, SameKey
<1>4. CASE new.kind \notin {"StatefulSet", "Deployment", "PersistentVolumeClaim"}
  BY <1>4 DEF Mutated, Alike, SameKey
<1>5. QED
  BY <1>1, <1>2, <1>3, <1>4

LEMMA AppliedFacts ==
  ASSUME NEW objects, \A o \in api : Orderly(o), \A o \in objects : Orderly(o)
  PROVE  /\ \A new \in objects : \E o \in Applied(objects) : Alike(o, new)
         /\ \A o \in api :
              (\A new \in objects : ~SameKey(o, new)) => o \in Applied(objects)
         /\ \A o \in Applied(objects) :
              \/ o \in api /\ \A new \in objects : ~SameKey(o, new)
              \/ \E new \in objects : Alike(o, new)
         /\ Keyed(api) /\ Keyed(objects) => Keyed(Applied(objects))
<1> DEFINE Old(new) == {old \in api : SameKey(old, new)}
           M(new) == Mutated(IF Old(new) = {} THEN <<>> ELSE CHOOSE old \in Old(new) : TRUE, new)
           kept == {old \in api : \A new \in objects : ~SameKey(old, new)}
<1>1. Applied(objects) = kept \union {M(new) : new \in objects}
  BY DEF Applied
<1>2. ASSUME NEW new \in objects
      PROVE  Alike(M(new), new)
  <2>1. CASE Old(new) = {}
    BY <2>1, MutatedAlike
  <2>2. CASE Old(new) # {}
    <3>1. (CHOOSE old \in Old(new) : TRUE) \in Old(new)
      BY <2>2
    <3>2. QED
      BY <2>2, <3>1, MutatedAlike
  <2>3. QED
    BY <2>1, <2>2
<1> HIDE DEF M
<1>3. \A new \in objects : \E o \in Applied(objects) : Alike(o, new)
  BY <1>1, <1>2
<1>4. \A o \in Applied(objects) : o \in kept \/ \E new \in objects : o = M(new) /\ Alike(o, new)
  BY <1>1, <1>2
<1>5. ASSUME Keyed(api), Keyed(objects), NEW a \in Applied(objects), NEW b \in Applied(objects),
             SameKey(a, b)
      PROVE  a = b
  <2>1. CASE a \in kept /\ b \in kept
    BY <1>5, <2>1 DEF Keyed
  <2>2. ASSUME a \in kept, NEW new \in objects, Alike(b, new)
        PROVE  FALSE
    BY <1>5, <2>2 DEF Alike, SameKey
  <2>3. ASSUME b \in kept, NEW new \in objects, Alike(a, new)
        PROVE  FALSE
    BY <1>5, <2>3 DEF Alike, SameKey
  <2>4. ASSUME NEW x \in objects, NEW y \in objects, a = M(x), b = M(y),
               Alike(a, x), Alike(b, y)
        PROVE  a = b
    <3>1. SameKey(x, y)
      BY <1>5, <2>4 DEF Alike, SameKey
    <3>2. x = y
      BY <1>5, <3>1 DEF Keyed
    <3>3. QED
      BY <2>4, <3>2
  <2>5. QED
    BY <1>4, <2>1, <2>2, <2>3, <2>4
<1>6. QED
  BY <1>1, <1>3, <1>4, <1>5 DEF Keyed

LEMMA ReliesOnKeys ==
  ASSUME NEW o, NEW fewer, NEW more, Relies(o, fewer),
         \A kind, name : HasKey(fewer, kind, name) => HasKey(more, kind, name)
  PROVE  Relies(o, more)
  BY DEF Relies

LEMMA KeysStay ==
  ASSUME NEW objects, \A o \in api : Orderly(o), \A o \in objects : Orderly(o),
         NEW kind, NEW name, HasKey(api, kind, name) \/ HasKey(objects, kind, name)
  PROVE  HasKey(Applied(objects), kind, name)
<1>1. ASSUME NEW new \in objects, new.kind = kind, new.name = name
      PROVE  HasKey(Applied(objects), kind, name)
  BY <1>1, AppliedFacts DEF Alike, SameKey, HasKey
<1>2. ASSUME NEW old \in api, old.kind = kind, old.name = name,
             \A new \in objects : ~SameKey(old, new)
      PROVE  HasKey(Applied(objects), kind, name)
  <2>1. old \in Applied(objects)
    BY <1>2, AppliedFacts
  <2>2. QED
    BY <1>2, <2>1 DEF HasKey
<1>3. QED
  BY <1>1, <1>2 DEF HasKey, SameKey

LEMMA ShapesAreOrderly ==
  ASSUME NEW o, Shape(o)
  PROVE  Orderly(o)
  BY DEF Shape, DeploymentShape, Orderly

LEMMA NodeShapesAreOrderly ==
  ASSUME NEW o, NEW s, NodeShape(o, s)
  PROVE  Orderly(o)
<1>1. CASE o.kind = "StatefulSet" /\ o = [NodeStatefulSet(Node, s) EXCEPT !.serviceName = o.serviceName]
  BY <1>1 DEF Orderly, NodeStatefulSet
<1>2. CASE o.kind \in {"ConfigMap", "Service"}
  BY <1>2 DEF Orderly
<1>3. CASE o = PDB(Node)
  BY <1>3 DEF Orderly, PDB
<1>4. QED
  BY <1>1, <1>2, <1>3 DEF NodeShape

LEMMA ApiIsOrderly ==
  ASSUME WiringInv
  PROVE  \A o \in api : Orderly(o)
  BY ShapesAreOrderly, NodeShapesAreOrderly DEF WiringInv, NodeInv

\* What a pass makes for a resource that is not a NodeCluster.
Wholesome(objects, letter) ==
  /\ \A o \in objects : o.name[1] = letter /\ Shape(o) /\ Relies(o, objects)
  /\ Keyed(objects)

\* Names of two resources differ, and so a pass leaves other resources' objects.
LEMMA OthersStay ==
  ASSUME NEW objects, NEW letter, \A o \in api : Orderly(o),
         \A o \in objects : Orderly(o) /\ o.name[1] = letter
  PROVE  /\ \A o : o.name[1] # letter => (o \in Applied(objects) <=> o \in api)
         /\ \A o \in Applied(objects) : o.name[1] = letter \/ o \in api
<1>1. ASSUME NEW o \in Applied(objects), NEW new \in objects, Alike(o, new)
      PROVE  o.name[1] = letter
  BY <1>1 DEF Alike, SameKey
<1>2. ASSUME NEW o \in api, o.name[1] # letter
      PROVE  \A new \in objects : ~SameKey(o, new)
  BY <1>2 DEF SameKey
<1>3. QED
  BY <1>1, <1>2, AppliedFacts

LEMMA AppliedWholesome ==
  ASSUME WiringInv, NEW objects, NEW letter, letter # "n", Wholesome(objects, letter),
         NEW kind \in Kinds, letter = Letter[kind], api' = Applied(objects)
  PROVE  /\ Keyed(api')
         /\ Lettered'
         /\ \A o \in api' : o.name[1] # "n" => Shape(o) /\ Relies(o, api')
         /\ NodeInv'
<1>1. /\ \A o \in api : Orderly(o)
      /\ \A o \in objects : Orderly(o) /\ o.name[1] = letter
  BY ApiIsOrderly, ShapesAreOrderly DEF Wholesome
<1>2. \A k, name : HasKey(api, k, name) \/ HasKey(objects, k, name) => HasKey(api', k, name)
  BY <1>1, KeysStay
<1>3. Keyed(api')
  BY <1>1, AppliedFacts DEF WiringInv, Wholesome
<1>4. /\ \A o : o.name[1] # letter => (o \in api' <=> o \in api)
      /\ \A o \in api' : o.name[1] = letter \/ o \in api
  BY <1>1, OthersStay
<1>5. Lettered'
  BY <1>4 DEF Lettered, WiringInv
<1>6. ASSUME NEW o \in api', o.name[1] # "n"
      PROVE  Shape(o) /\ Relies(o, api')
  <2>1. CASE o \in api
    <3>1. Shape(o) /\ Relies(o, api)
      BY <1>6, <2>1 DEF WiringInv
    <3>2. QED
      BY <1>2, <3>1, ReliesOnKeys
  <2>2. ASSUME NEW new \in objects, Alike(o, new)
        PROVE  Shape(o) /\ Relies(o, api')
    <3>1. Shape(new) /\ Relies(new, objects)
      BY DEF Wholesome
    <3>2. o = new
      BY <2>2, <3>1 DEF Alike, Shape
    <3>3. QED
      BY <1>2, <3>1, <3>2, ReliesOnKeys
  <2>3. QED
    BY <1>1, <2>1, <2>2, AppliedFacts
<1>7. NodeInv'
  <2>1. CASE \A o \in api : o.name[1] # "n"
    BY <1>4, <2>1 DEF NodeInv
  <2>2. ASSUME NEW s \in Specs["NodeCluster"], s.protocol \in Protocols,
               HasKey(api, "StatefulSet", Node),
               Driver(s).script => NodeConfigMap(Node, s) \in api,
               \A o \in api : o.name[1] = "n" => NodeShape(o, s)
        PROVE  NodeInv'
    <3>1. HasKey(api', "StatefulSet", Node)
      BY <1>2, <2>2
    <3>2. NodeConfigMap(Node, s).name[1] = "n"
      BY OneAndOne DEF NodeConfigMap, Node
    <3>3. Driver(s).script => NodeConfigMap(Node, s) \in api'
      BY <1>4, <2>2, <3>2
    <3>4. \A o \in api' : o.name[1] = "n" => NodeShape(o, s)
      BY <1>4, <2>2
    <3>5. QED
      BY <2>2, <3>1, <3>3, <3>4 DEF NodeInv
  <2>3. QED
    BY <2>1, <2>2 DEF WiringInv, NodeInv
<1>8. QED
  BY <1>3, <1>5, <1>6, <1>7

(***************************************************************************)
(* Ingresses and their certificates.                                       *)
(***************************************************************************)
LEMMA SequencesOfMore ==
  ASSUME NEW S, NEW T, S \subseteq T, NEW s \in Seq(S)
  PROVE  s \in Seq(T)
  OBVIOUS

LEMMA SequenceOfOne ==
  ASSUME NEW S, NEW x \in S
  PROVE  <<x>> \in Seq(S)
  OBVIOUS

\* The secrets of two registered domains differ.
LEMMA SecretsDiffer ==
  ASSUME NEW l, NEW d \in Seq(STRING), NEW e \in Seq(STRING),
         <<l>> \o d \o <<"tls">> = <<l>> \o e \o <<"tls">>
  PROVE  d = e
<1> DEFINE S == STRING \union {l, "tls"}
<1>1. <<l>> \in Seq(S) /\ <<"tls">> \in Seq(S)
  BY SequenceOfOne
<1>2. d \in Seq(S) /\ e \in Seq(S)
  BY SequencesOfMore
<1>3. <<l>> \o d \in Seq(S) /\ <<l>> \o e \in Seq(S)
  BY <1>1, <1>2, ConcatProperties
<1> HIDE DEF S
<1>4. <<l>> \o d = <<l>> \o e
  BY <1>1, <1>3, ConcatSimplifications
<1>5. QED
  BY <1>1, <1>2, <1>4, ConcatSimplifications

LEMMA SecretsBear ==
  ASSUME NEW l, NEW d \in Seq(STRING)
  PROVE  (<<l>> \o d \o <<"tls">>)[1] = l /\ (<<l>> \o <<"tls">>)[1] = l
  OBVIOUS

LEMMA RegisteredDomainType ==
  ASSUME NEW host \in Seq(STRING)
  PROVE  RegisteredDomain(host) \in Seq(STRING)
<1>1. CASE Len(host) < 2
  BY <1>1 DEF RegisteredDomain
<1>2. CASE ~(Len(host) < 2)
  <2>1. Len(host) \in Nat /\ \A i \in Len(host) - 1 .. Len(host) : host[i] \in STRING
    BY <1>2, LenProperties, ElementOfSeq
  <2>2. SubSeq(host, Len(host) - 1, Len(host)) \in Seq(STRING)
    BY <2>1, SubSeqProperties
  <2>3. QED
    BY <1>2, <2>2 DEF RegisteredDomain
<1>3. QED
  BY <1>1, <1>2

\* One certificate for each registered domain: every host is on exactly one of
\* them, and no two share a secret, since one domain may go without its name.
LEMMA CertificatesOfDomains ==
  ASSUME NEW l, l # "c", NEW hosts \in SUBSET Seq(STRING), IsFiniteSet(hosts),
         NEW rules, \A rule \in rules : rule.host \in hosts
  PROVE  LET tls == TLSPerRegisteredDomain(<<l>>, hosts)
         IN  CertificatesShape(rules, tls) /\ \A t \in tls : Bearer(t.secret) = <<l>>
<1> DEFINE tls == TLSPerRegisteredDomain(<<l>>, hosts)
           domains == {RegisteredDomain(h) : h \in hosts}
           Secret(d) == IF Cardinality(domains) > 1 THEN <<l>> \o d \o <<"tls">>
                                                    ELSE <<l>> \o <<"tls">>
           Certificate(d) == [hosts |-> {h \in hosts : RegisteredDomain(h) = d},
                              secret |-> Secret(d)]
<1>1. tls = {Certificate(d) : d \in domains}
  BY DEF TLSPerRegisteredDomain
<1>2. \A d \in domains : d \in Seq(STRING)
  BY RegisteredDomainType
<1>3. ASSUME NEW d \in domains, NEW e \in domains, Secret(d) = Secret(e)
      PROVE  d = e
  <2>1. CASE Cardinality(domains) > 1
    BY <1>2, <1>3, <2>1, SecretsDiffer
  <2>2. CASE ~(Cardinality(domains) > 1)
    <3>1. IsFiniteSet(domains)
      <4> DEFINE f == [h \in hosts |-> RegisteredDomain(h)]
      <4>1. f \in Surjection(hosts, domains)
        BY DEF Surjection
      <4>2. QED
        BY <4>1, FS_Surjection
    <3>2. Cardinality(domains) \in Nat /\ Cardinality(domains) # 0
      BY <3>1, FS_CardinalityType, FS_EmptySet
    <3>3. Cardinality(domains) = 1
      BY <2>2, <3>2
    <3>4. \E x : domains = {x}
      BY <3>1, <3>3, FS_Singleton, Zenon
    <3>5. QED
      BY <3>4, Zenon
  <2>3. QED
    BY <2>1, <2>2
<1>4. \A d \in domains : Secret(d)[1] = l
  BY <1>2, SecretsBear
<1>5. \A d \in domains : Certificate(d).secret = Secret(d)
  OBVIOUS
<1>6. \A d, h : h \in Certificate(d).hosts <=> h \in hosts /\ RegisteredDomain(h) = d
  OBVIOUS
<1> HIDE DEF Secret, Certificate, tls
<1>7. ASSUME NEW rule \in rules
      PROVE  \E t \in tls : {u \in tls : rule.host \in u.hosts} = {t}
  <2>1. RegisteredDomain(rule.host) \in domains
    OBVIOUS
  <2>2. Certificate(RegisteredDomain(rule.host)) \in tls
    BY <1>1, <2>1
  <2>3. {u \in tls : rule.host \in u.hosts} = {Certificate(RegisteredDomain(rule.host))}
    BY <1>1, <1>6, <2>1
  <2>4. QED
    BY <2>2, <2>3
<1>8. ASSUME NEW t \in tls
      PROVE  \E d : {RegisteredDomain(host) : host \in t.hosts} = {d}
  <2>1. PICK d \in domains : t = Certificate(d)
    BY <1>1
  <2>2. {RegisteredDomain(host) : host \in t.hosts} = {d}
    BY <1>6, <2>1
  <2>3. QED
    BY <2>2
<1>9. \A t, u \in tls : t.secret = u.secret => t = u
  BY <1>1, <1>3, <1>5
<1>10. \A t \in tls : Bearer(t.secret) = <<l>>
  BY <1>1, <1>4, <1>5 DEF Bearer
<1>11. QED
  BY <1>7, <1>8, <1>9, <1>10 DEF CertificatesShape, tls

\* BuildIngress, for the resources that have one Ingress, of their own name.
LEMMA BuiltIngress ==
  ASSUME NEW l \in {"i", "g", "e", "b"}, NEW asked \in IngressSpec, IsFiniteSet(asked.hosts),
         NEW service, NEW port
  PROVE  LET ingress == BuildIngress(<<l>>, asked, service, port)
         IN  /\ ingress.kind = "Ingress"
             /\ ingress.name = <<l>>
             /\ \A rule \in ingress.rules : rule.service = service /\ rule.port = port
             /\ CertificatesShape(ingress.rules, ingress.tls)
             /\ \A t \in ingress.tls : ingress.name = Bearer(t.secret)
<1> DEFINE ingress == BuildIngress(<<l>>, asked, service, port)
<1>1. /\ ingress.kind = "Ingress"
      /\ ingress.name = <<l>>
      /\ ingress.rules = {Rule(h, service, port) : h \in asked.hosts}
      /\ ingress.tls = If(asked.tls /\ asked.hosts # {},
                          TLSPerRegisteredDomain(<<l>>, asked.hosts))
  BY DEF BuildIngress
<1>2. \A rule \in ingress.rules :
        rule.service = service /\ rule.port = port /\ rule.host \in asked.hosts
  BY <1>1 DEF Rule
<1>3. asked.hosts \in SUBSET Seq(STRING)
  BY DEF IngressSpec
<1>4. LET tls == TLSPerRegisteredDomain(<<l>>, asked.hosts)
      IN  CertificatesShape(ingress.rules, tls) /\ \A t \in tls : Bearer(t.secret) = <<l>>
  BY <1>2, <1>3, CertificatesOfDomains
<1>5. CertificatesShape(ingress.rules, {})
  BY DEF CertificatesShape
<1>6. ingress.tls \in {{}, TLSPerRegisteredDomain(<<l>>, asked.hosts)}
  BY <1>1 DEF If
<1>7. QED
  BY <1>1, <1>2, <1>4, <1>5, <1>6

(***************************************************************************)
(* What each reconciler makes is wholesome.                                *)
(***************************************************************************)
LEMMA HostsAreList ==
  ASSUME NEW kind \in {"Indexer", "Gateway", "Explorer", "Bridge"}, NEW s \in Specs[kind],
         s.ingress # <<>>
  PROVE  s.ingress \in IngressSpec /\ IsFiniteSet(s.ingress.hosts)
<1>1. IsFiniteSet(s.ingress.hosts)
  BY UsersAssumption DEF Kinds
<1>2. s.ingress \in IngressSpec
  BY SpecsAssumption DEF IndexerSpec, GatewaySpec, ExplorerSpec, BridgeSpec, Exposable
<1>3. QED
  BY <1>1, <1>2

LEMMA SidePorts ==
  ASSUME NEW name
  PROVE  /\ name[1] = "g" => SidePort(name) = 80
         /\ name[1] = "e" => SidePort(name) = IF name[2] = "backend" THEN 4000 ELSE 3000
         /\ name[1] = "b" => SidePort(name) = IF name[2] = "server" THEN 8080 ELSE 3000
         /\ name[1] = "c" => SidePort(name) = IF name[2] = "api" THEN 8000 ELSE 3001
  BY DEF SidePort

LEMMA OnePortService ==
  ASSUME NEW name, NEW p,
         p.target = "" \/ (p.target = "http" /\ p.name = "http" /\ name[1] \in {"i", "g", "c"}),
         name[1] # "i" => p.port = SidePort(name),
         NEW svc, svc = Service(name, SelectorLabels(name), {p})
  PROVE  ServiceShape(svc)
<1>1. /\ svc.kind = "Service" /\ svc.name = name
      /\ svc.selector = SelectorLabels(name) /\ svc.ports = {p}
  BY DEF Service
<1>2. QED
  BY <1>1 DEF ServiceShape

LEMMA GatewayWholesome ==
  ASSUME NEW s \in Specs["Gateway"], NEW chains
  PROVE  Wholesome(GatewayObjects(s, chains), "g")
<1> DEFINE objects == GatewayObjects(s, chains)
           g == <<"g">>
           cm == [kind |-> "ConfigMap", name |-> g \o <<"config">>,
                  data |-> [listens |-> {8080}, paths |-> {}, routes |-> GatewayRoutes(s, chains)]]
           dep == GatewayDeployment(g)
           svc == Service(g, SelectorLabels(g), {[name |-> "http", port |-> 80, target |-> "http"]})
           ing == BuildIngress(g, s.ingress, g, 80)
<1>1. objects = {cm, dep, svc} \union If(s.ingress # <<>>, {ing})
  BY DEF GatewayObjects
<1>2. cm.kind = "ConfigMap" /\ cm.name = g \o <<"config">> /\ cm.name[1] = "g"
  OBVIOUS
<1>3. /\ dep.kind = "Deployment" /\ dep.name = g /\ dep.name[1] = "g"
      /\ DeploymentShape(dep) /\ dep.pod.configMap = g \o <<"config">> /\ dep.pod.claim = <<>>
  <2> DEFINE labels == MergeLabels(StandardLabels(g, "gateway", <<>>), SelectorLabels(g))
             pod == [PlainPod(labels)
                       EXCEPT !.ports = {Port("http", 8080)}, !.listens = {8080}, !.probed = {8080},
                              !.mounts = {<<"config", "/etc/gateway">>}, !.paths = {"/etc/gateway"},
                              !.volumes = {"config"}, !.configMap = g \o <<"config">>]
  <2>1. dep = Deployment(g, pod)
    BY DEF GatewayDeployment
  <2>2. /\ pod.labels = labels
        /\ pod.ports = {Port("http", 8080)} /\ pod.listens = {8080} /\ pod.probed = {8080}
        /\ pod.mounts = {<<"config", "/etc/gateway">>} /\ pod.paths = {"/etc/gateway"}
        /\ pod.volumes = {"config"} /\ pod.configMap = g \o <<"config">>
        /\ pod.init = {} /\ pod.claim = <<>> /\ ~pod.script
        /\ pod.requests = <<0, 0>> /\ pod.limits = <<0, 0>>
    BY DEF PlainPod
  <2>3. Wears(labels, g)
    BY MergedWears
  <2> HIDE DEF pod, dep, labels
  <2>4. Fit(pod, pod)
    BY <2>2 DEF Fit, Port
  <2>5. \E q \in pod.ports : q.name = "http" /\ q.port \in pod.listens
    BY <2>2 DEF Port
  <2>6. dep.kind = "Deployment" /\ dep.name = g /\ dep.pod = pod
    BY <2>1 DEF Deployment
  <2>7. QED
    BY <2>1, <2>2, <2>3, <2>4, <2>5, <2>6 DEF DeploymentShape
<1>4. svc.kind = "Service" /\ svc.name = g /\ svc.name[1] = "g" /\ ServiceShape(svc)
  <2>1. g[1] = "g"
    OBVIOUS
  <2> HIDE DEF g
  <2>2. SidePort(g) = 80
    BY <2>1, SidePorts
  <2> DEFINE p == [name |-> "http", port |-> 80, target |-> "http"]
  <2>3. p.target = "http" /\ p.name = "http" /\ p.port = 80
    OBVIOUS
  <2> HIDE DEF p
  <2>4. svc = Service(g, SelectorLabels(g), {p})
    BY DEF p
  <2> HIDE DEF svc
  <2>5. ServiceShape(svc)
    BY <2>1, <2>2, <2>3, <2>4, OnePortService
  <2>6. svc.kind = "Service" /\ svc.name = g
    BY <2>4 DEF Service
  <2>7. QED
    BY <2>1, <2>5, <2>6
<1>5. s.ingress # <<>> =>
        /\ ing.kind = "Ingress" /\ ing.name = g /\ ing.name[1] = "g"
        /\ IngressShape(ing)
        /\ \A rule \in ing.rules : rule.service = g
  <2> SUFFICES ASSUME s.ingress # <<>>
               PROVE  /\ ing.kind = "Ingress" /\ ing.name = g /\ ing.name[1] = "g"
                      /\ IngressShape(ing)
                      /\ \A rule \in ing.rules : rule.service = g
    OBVIOUS
  <2>1. s.ingress \in IngressSpec /\ IsFiniteSet(s.ingress.hosts)
    BY HostsAreList
  <2>2. /\ ing.kind = "Ingress" /\ ing.name = g
        /\ \A rule \in ing.rules : rule.service = g /\ rule.port = 80
        /\ CertificatesShape(ing.rules, ing.tls)
        /\ \A t \in ing.tls : ing.name = Bearer(t.secret)
    BY <2>1, BuiltIngress
  <2>3. QED
    BY <2>2 DEF IngressShape, SidePort
<1> HIDE DEF cm, dep, svc, ing, objects
<1>6. \A o \in objects : o = cm \/ o = dep \/ o = svc \/ (s.ingress # <<>> /\ o = ing)
  BY <1>1 DEF If
<1>7. cm \in objects /\ dep \in objects /\ svc \in objects
  BY <1>1
<1>8. \A o \in objects : o.name[1] = "g" /\ Shape(o)
  BY <1>2, <1>3, <1>4, <1>5, <1>6 DEF Shape
<1>9. \A o \in objects : Relies(o, objects)
  BY <1>2, <1>3, <1>4, <1>5, <1>6, <1>7 DEF Relies, HasKey
<1>10. Keyed(objects)
  BY <1>2, <1>3, <1>4, <1>5, <1>6 DEF Keyed, SameKey
<1>11. QED
  BY <1>8, <1>9, <1>10 DEF Wholesome, objects

SideName(name, letter, part) == name[1] = letter /\ name[2] = part

LEMMA SideNamePort ==
  ASSUME NEW name
  PROVE  /\ SideName(name, "e", "backend") => SidePort(name) = 4000
         /\ SideName(name, "e", "frontend") => SidePort(name) = 3000
         /\ SideName(name, "b", "server") => SidePort(name) = 8080
         /\ SideName(name, "b", "ui") => SidePort(name) = 3000
  BY SidePorts DEF SideName

\* A Deployment that names no other object.
Bare(dep, name) ==
  /\ dep.kind = "Deployment" /\ dep.name = name
  /\ dep.pod.configMap = <<>> /\ dep.pod.claim = <<>>
  /\ DeploymentShape(dep)

\* A pod that declares nothing.
Idle(pod, name) ==
  /\ Wears(pod.labels, name)
  /\ pod.mounts = {} /\ pod.init = {} /\ pod.paths = {} /\ pod.probed = {}
  /\ pod.configMap = <<>> /\ pod.claim = <<>> /\ ~pod.script
  /\ pod.requests = <<0, 0>> /\ pod.limits = <<0, 0>>

LEMMA SidePodIsIdle ==
  ASSUME NEW name, NEW component, NEW of
  PROVE  Idle(SidePod(name, component, of), name)
<1> DEFINE labels == MergeLabels(StandardLabels(name, component, of), SelectorLabels(name))
           pod == SidePod(name, component, of)
<1>1. Wears(labels, name)
  BY MergedWears
<1>2. pod = PlainPod(labels)
  BY DEF SidePod
<1> HIDE DEF labels, pod
<1>3. Idle(pod, name)
  BY <1>1, <1>2 DEF Idle, PlainPod
<1>4. QED
  BY <1>3 DEF pod

LEMMA ReachingPodIsIdle ==
  ASSUME NEW name, NEW component, NEW of, NEW reached
  PROVE  Idle([SidePod(name, component, of) EXCEPT !.reaches = reached], name)
<1> DEFINE labels == MergeLabels(StandardLabels(name, component, of), SelectorLabels(name))
           pod == [SidePod(name, component, of) EXCEPT !.reaches = reached]
<1>1. Wears(labels, name)
  BY MergedWears
<1>2. pod = [PlainPod(labels) EXCEPT !.reaches = reached]
  BY DEF SidePod
<1> HIDE DEF labels, pod
<1>3. Idle(pod, name)
  BY <1>1, <1>2 DEF Idle, PlainPod
<1>4. QED
  BY <1>3 DEF pod

\* A Deployment of an Explorer or a Bridge.
LEMMA SideDeployment ==
  ASSUME NEW name, name[1] \in {"e", "b"}, NEW pod, Idle(pod, name),
         NEW dep, dep = Deployment(name, pod)
  PROVE  Bare(dep, name)
<1>1. Fit(pod, pod)
  BY DEF Fit, Idle
<1>2. dep.kind = "Deployment" /\ dep.name = name /\ dep.pod = pod
  BY DEF Deployment
<1>3. DeploymentShape(dep)
  BY <1>1, <1>2 DEF DeploymentShape, Idle
<1>4. QED
  BY <1>2, <1>3 DEF Bare, Idle

LEMMA SideServiceShape ==
  ASSUME NEW name, NEW port, SidePort(name) = port,
         NEW svc, svc = SideService(name, port)
  PROVE  svc.kind = "Service" /\ svc.name = name /\ ServiceShape(svc)
<1> DEFINE p == [name |-> "http", port |-> port, target |-> ""]
<1>1. p.target = "" /\ p.port = port
  OBVIOUS
<1>2. svc = Service(name, SelectorLabels(name), {p})
  BY DEF SideService
<1> HIDE DEF p
<1>3. /\ svc.kind = "Service" /\ svc.name = name
      /\ svc.selector = SelectorLabels(name) /\ svc.ports = {p}
  BY <1>2 DEF Service
<1>4. ServiceShape(svc)
  BY <1>1, <1>3 DEF ServiceShape
<1>5. QED
  BY <1>3, <1>4

LEMMA SideIngress ==
  ASSUME NEW asked \in IngressSpec, IsFiniteSet(asked.hosts),
         NEW l \in {"e", "b"}, NEW name, name = <<l>>, NEW service, service[1] = l,
         NEW port, SidePort(service) = port,
         NEW ing, ing = BuildIngress(name, asked, service, port)
  PROVE  /\ ing.kind = "Ingress" /\ ing.name[1] = l
         /\ IngressShape(ing)
         /\ \A rule \in ing.rules : rule.service = service
<1>1. /\ ing.kind = "Ingress" /\ ing.name = <<l>>
      /\ \A rule \in ing.rules : rule.service = service /\ rule.port = port
      /\ CertificatesShape(ing.rules, ing.tls)
      /\ \A t \in ing.tls : ing.name = Bearer(t.secret)
  BY BuiltIngress
<1>2. ing.name[1] = l
  BY <1>1
<1>3. IngressShape(ing)
  BY <1>1, <1>2 DEF IngressShape
<1>4. QED
  BY <1>1, <1>2, <1>3

\* Deployments that name nothing, Services of theirs and Ingresses to those.
Fronts(deps, svcs, ings, l) ==
  /\ \A d \in deps : Bare(d, d.name) /\ d.name[1] = l
  /\ \A v \in svcs : /\ v.kind = "Service" /\ v.name[1] = l /\ ServiceShape(v)
                     /\ \E d \in deps : d.name = v.name
  /\ \A g \in ings : /\ g.kind = "Ingress" /\ g.name[1] = l /\ IngressShape(g)
                     /\ \A rule \in g.rules : \E v \in svcs : v.name = rule.service
  /\ \A x, y \in deps : x.name = y.name => x = y
  /\ \A x, y \in svcs : x.name = y.name => x = y
  /\ \A x, y \in ings : x.name = y.name => x = y

LEMMA FrontsWholesome ==
  ASSUME NEW l, NEW deps, NEW svcs, NEW ings, Fronts(deps, svcs, ings, l)
  PROVE  Wholesome(deps \union svcs \union ings, l)
<1> DEFINE objects == deps \union svcs \union ings
<1>1. \A o \in objects : o.name[1] = l /\ Shape(o)
  BY DEF Shape, Bare, Fronts
<1>2. ASSUME NEW o \in objects
      PROVE  Relies(o, objects)
  <2>1. CASE o \in deps
    BY <2>1 DEF Relies, Bare, Fronts
  <2>2. CASE o \in svcs
    BY <2>2 DEF Relies, HasKey, Bare, Fronts
  <2>3. CASE o \in ings
    BY <2>3 DEF Relies, HasKey, Fronts
  <2>4. QED
    BY <2>1, <2>2, <2>3
<1>3. Keyed(objects)
  BY DEF Keyed, SameKey, Bare, Fronts
<1>4. QED
  BY <1>1, <1>2, <1>3 DEF Wholesome

\* The Services and the Ingress of an Explorer or a Bridge, with its Deployments.
SideFacts(s, l, nameBack, nameFront, backPort, depBack, depFront) ==
  /\ s.ingress # <<>> => s.ingress \in IngressSpec /\ IsFiniteSet(s.ingress.hosts)
  /\ nameBack[1] = l /\ nameFront[1] = l /\ nameBack # nameFront
  /\ SidePort(nameBack) = backPort /\ SidePort(nameFront) = 3000
  /\ Bare(depBack, nameBack) /\ Bare(depFront, nameFront)

SideObjects(objects, ings, s, l, nameBack, nameFront, backPort, depBack, depFront) ==
  /\ \A g \in ings : s.ingress # <<>>
  /\ \/ /\ objects = {depBack, depFront}
                       \union {SideService(nameBack, backPort), SideService(nameFront, 3000)}
                       \union ings
        /\ ings \subseteq {BuildIngress(<<l>>, s.ingress, nameFront, 3000)}
     \/ /\ objects = {depBack} \union {SideService(nameBack, backPort)} \union ings
        /\ ings \subseteq {BuildIngress(<<l>>, s.ingress, nameBack, backPort)}

LEMMA FrontedWholesome ==
  ASSUME NEW s, NEW l \in {"e", "b"}, NEW nameBack, NEW nameFront, NEW backPort,
         NEW depBack, NEW depFront, NEW objects, NEW ings,
         SideFacts(s, l, nameBack, nameFront, backPort, depBack, depFront),
         SideObjects(objects, ings, s, l, nameBack, nameFront, backPort, depBack, depFront)
  PROVE  Wholesome(objects, l)
<1> DEFINE svcBack == SideService(nameBack, backPort)
           svcFront == SideService(nameFront, 3000)
           ingBack == BuildIngress(<<l>>, s.ingress, nameBack, backPort)
           ingFront == BuildIngress(<<l>>, s.ingress, nameFront, 3000)
<1>1. /\ \A g \in ings : s.ingress # <<>>
      /\ \/ /\ objects = {depBack, depFront} \union {svcBack, svcFront} \union ings
            /\ ings \subseteq {ingFront}
         \/ /\ objects = {depBack} \union {svcBack} \union ings
            /\ ings \subseteq {ingBack}
  BY DEF SideObjects
<1>2. /\ svcBack = SideService(nameBack, backPort)
      /\ svcFront = SideService(nameFront, 3000)
      /\ ingBack = BuildIngress(<<l>>, s.ingress, nameBack, backPort)
      /\ ingFront = BuildIngress(<<l>>, s.ingress, nameFront, 3000)
  OBVIOUS
<1> HIDE DEF svcBack, svcFront, ingBack, ingFront
<1>3. /\ s.ingress # <<>> => s.ingress \in IngressSpec /\ IsFiniteSet(s.ingress.hosts)
      /\ nameBack[1] = l /\ nameFront[1] = l /\ nameBack # nameFront
      /\ SidePort(nameBack) = backPort /\ SidePort(nameFront) = 3000
      /\ Bare(depBack, nameBack) /\ Bare(depFront, nameFront)
  BY DEF SideFacts
<1>4. svcBack.kind = "Service" /\ svcBack.name = nameBack /\ ServiceShape(svcBack)
  BY <1>2, <1>3, SideServiceShape
<1>5. svcFront.kind = "Service" /\ svcFront.name = nameFront /\ ServiceShape(svcFront)
  BY <1>2, <1>3, SideServiceShape
<1>6. s.ingress # <<>> =>
        /\ ingBack.kind = "Ingress" /\ ingBack.name[1] = l /\ IngressShape(ingBack)
        /\ \A rule \in ingBack.rules : rule.service = nameBack
  BY <1>2, <1>3, SideIngress
<1>7. s.ingress # <<>> =>
        /\ ingFront.kind = "Ingress" /\ ingFront.name[1] = l /\ IngressShape(ingFront)
        /\ \A rule \in ingFront.rules : rule.service = nameFront
  BY <1>2, <1>3, SideIngress
<1>8. depBack.name = nameBack /\ depFront.name = nameFront
  BY <1>3 DEF Bare
<1>9. CASE objects = {depBack, depFront} \union {svcBack, svcFront} \union ings
           /\ ings \subseteq {ingFront}
  <2> DEFINE deps == {depBack, depFront}
             svcs == {svcBack, svcFront}
  <2>1. \A d \in deps : Bare(d, d.name) /\ d.name[1] = l
    BY <1>8, <1>3
  <2>2. \A v \in svcs : /\ v.kind = "Service" /\ v.name[1] = l /\ ServiceShape(v)
                        /\ \E d \in deps : d.name = v.name
    BY <1>4, <1>5, <1>8, <1>3
  <2>3. \A g \in ings : /\ g.kind = "Ingress" /\ g.name[1] = l /\ IngressShape(g)
                        /\ \A rule \in g.rules : \E v \in svcs : v.name = rule.service
    BY <1>5, <1>7, <1>9, <1>1
  <2>4. /\ \A x, y \in deps : x.name = y.name => x = y
        /\ \A x, y \in svcs : x.name = y.name => x = y
        /\ \A x, y \in ings : x.name = y.name => x = y
    BY <1>4, <1>5, <1>8, <1>9, <1>3
  <2>5. objects = deps \union svcs \union ings
    BY <1>9
  <2> HIDE DEF deps, svcs
  <2>6. Fronts(deps, svcs, ings, l)
    BY <2>1, <2>2, <2>3, <2>4 DEF Fronts
  <2>7. QED
    BY <2>5, <2>6, FrontsWholesome
<1>10. CASE objects = {depBack} \union {svcBack} \union ings /\ ings \subseteq {ingBack}
  <2> DEFINE deps == {depBack}
             svcs == {svcBack}
  <2>1. \A d \in deps : Bare(d, d.name) /\ d.name[1] = l
    BY <1>8, <1>3
  <2>2. \A v \in svcs : /\ v.kind = "Service" /\ v.name[1] = l /\ ServiceShape(v)
                        /\ \E d \in deps : d.name = v.name
    BY <1>4, <1>8, <1>3
  <2>3. \A g \in ings : /\ g.kind = "Ingress" /\ g.name[1] = l /\ IngressShape(g)
                        /\ \A rule \in g.rules : \E v \in svcs : v.name = rule.service
    BY <1>4, <1>6, <1>10, <1>1
  <2>4. /\ \A x, y \in deps : x.name = y.name => x = y
        /\ \A x, y \in svcs : x.name = y.name => x = y
        /\ \A x, y \in ings : x.name = y.name => x = y
    BY <1>10
  <2>5. objects = deps \union svcs \union ings
    BY <1>10
  <2> HIDE DEF deps, svcs
  <2>6. Fronts(deps, svcs, ings, l)
    BY <2>1, <2>2, <2>3, <2>4 DEF Fronts
  <2>7. QED
    BY <2>5, <2>6, FrontsWholesome
<1>11. QED
  BY <1>9, <1>10, <1>1

LEMMA BridgeWholesome ==
  ASSUME NEW s \in Specs["Bridge"]
  PROVE  Wholesome(BridgeObjects(s), "b")
<1> DEFINE b == <<"b">>
           nameBack == b \o <<"server">>
           nameFront == b \o <<"ui">>
           podBack == SidePod(nameBack, "bridge-server", b)
           podFront == SidePod(nameFront, "bridge-ui", b)
           depBack == Deployment(nameBack, podBack)
           depFront == Deployment(nameFront, podFront)
           svcBack == SideService(nameBack, 8080)
           svcFront == SideService(nameFront, 3000)
           ingBack == BuildIngress(b, s.ingress, nameBack, 8080)
           ingFront == BuildIngress(b, s.ingress, nameFront, 3000)
           ings == If(s.ingress # <<>>, {IF s.front THEN ingFront ELSE ingBack})
           objects == BridgeObjects(s)
<1>1. BridgeObjects(s) = {depBack} \union If(s.front, {depFront})
                           \union Fronted(b, s, "server", 8080, "ui")
  BY DEF BridgeObjects, BridgeDeployments
<1>2. Fronted(b, s, "server", 8080, "ui")
        = {svcBack} \union If(s.front, {svcFront}) \union ings
  BY DEF Fronted
<1>3. /\ \A g \in ings : s.ingress # <<>>
      /\ IF s.front THEN ings \subseteq {ingFront} ELSE ings \subseteq {ingBack}
  BY DEF If
<1>4. b = <<"b">>
  OBVIOUS
<1>5. SideName(nameBack, "b", "server") /\ SideName(nameFront, "b", "ui")
  BY DEF SideName
<1>6. Idle(podBack, nameBack) /\ Idle(podFront, nameFront)
  BY SidePodIsIdle
<1>7. depBack = Deployment(nameBack, podBack) /\ depFront = Deployment(nameFront, podFront)
  OBVIOUS
<1>8. svcBack = SideService(nameBack, 8080) /\ svcFront = SideService(nameFront, 3000)
  OBVIOUS
<1>9. /\ ingBack = BuildIngress(b, s.ingress, nameBack, 8080)
      /\ ingFront = BuildIngress(b, s.ingress, nameFront, 3000)
  OBVIOUS
<1> HIDE DEF b, nameBack, nameFront, podBack, podFront, depBack, depFront,
             svcBack, svcFront, ingBack, ingFront, ings, objects
<1>10. s.ingress # <<>> => s.ingress \in IngressSpec /\ IsFiniteSet(s.ingress.hosts)
  BY HostsAreList
<1>11. \/ objects = {depBack, depFront} \union {svcBack, svcFront} \union ings
            /\ ings \subseteq {ingFront}
       \/ objects = {depBack} \union {svcBack} \union ings /\ ings \subseteq {ingBack}
  BY <1>1, <1>2, <1>3 DEF objects, If
<1>12. nameBack[1] = "b" /\ nameFront[1] = "b" /\ nameBack # nameFront
  BY <1>5 DEF SideName
<1>13. SidePort(nameBack) = 8080
  BY <1>5, SideNamePort
<1>14. SidePort(nameFront) = 3000
  BY <1>5, SideNamePort
<1>15. Bare(depBack, nameBack)
  BY <1>6, <1>7, <1>12, SideDeployment
<1>16. Bare(depFront, nameFront)
  BY <1>6, <1>7, <1>12, SideDeployment
<1>17. SideFacts(s, "b", nameBack, nameFront, 8080, depBack, depFront)
  BY <1>10, <1>12, <1>13, <1>14, <1>15, <1>16 DEF SideFacts
<1>18. SideObjects(objects, ings, s, "b", nameBack, nameFront, 8080, depBack, depFront)
  BY <1>4, <1>8, <1>9, <1>11, <1>3 DEF SideObjects
<1>19. Wholesome(objects, "b")
  BY <1>17, <1>18, FrontedWholesome
<1>20. QED
  BY <1>19 DEF objects

LEMMA ExplorerWholesome ==
  ASSUME NEW s \in Specs["Explorer"]
  PROVE  Wholesome(ExplorerObjects(s), "e")
<1> DEFINE e == <<"e">>
           nameBack == e \o <<"backend">>
           nameFront == e \o <<"frontend">>
           reached == {IndexerEndpoint}
           podBack == [SidePod(nameBack, "explorer-backend", e) EXCEPT !.reaches = reached]
           podFront == [SidePod(nameFront, "explorer-frontend", e) EXCEPT !.reaches = reached]
           depBack == Deployment(nameBack, podBack)
           depFront == Deployment(nameFront, podFront)
           svcBack == SideService(nameBack, 4000)
           svcFront == SideService(nameFront, 3000)
           ingBack == BuildIngress(e, s.ingress, nameBack, 4000)
           ingFront == BuildIngress(e, s.ingress, nameFront, 3000)
           ings == If(s.ingress # <<>>, {IF s.front THEN ingFront ELSE ingBack})
           objects == ExplorerObjects(s)
<1>1. ExplorerObjects(s) = {depBack} \union If(s.front, {depFront})
                           \union Fronted(e, s, "backend", 4000, "frontend")
  <2> DEFINE Reaching(d) == [d EXCEPT !.pod.reaches = reached]
             plainBack == Deployment(nameBack, SidePod(nameBack, "explorer-backend", e))
             plainFront == Deployment(nameFront, SidePod(nameFront, "explorer-frontend", e))
  <2>1. ASSUME NEW n, NEW pod
        PROVE  Reaching(Deployment(n, pod)) = Deployment(n, [pod EXCEPT !.reaches = reached])
    BY DEF Deployment
  <2>2. Reaching(plainBack) = depBack /\ Reaching(plainFront) = depFront
    BY <2>1
  <2>3. ExplorerDeployments(e, s) = {plainBack} \union If(s.front, {plainFront})
    BY DEF ExplorerDeployments
  <2>4. ExplorerObjects(s) = {Reaching(d) : d \in ExplorerDeployments(e, s)}
                               \union Fronted(e, s, "backend", 4000, "frontend")
    BY DEF ExplorerObjects
  <2> HIDE DEF Reaching, depBack, depFront, plainBack, plainFront, e
  <2>5. {Reaching(d) : d \in ExplorerDeployments(e, s)} = {depBack} \union If(s.front, {depFront})
    BY <2>2, <2>3 DEF If
  <2>6. QED
    BY <2>4, <2>5
<1>2. Fronted(e, s, "backend", 4000, "frontend")
        = {svcBack} \union If(s.front, {svcFront}) \union ings
  BY DEF Fronted
<1>3. /\ \A g \in ings : s.ingress # <<>>
      /\ IF s.front THEN ings \subseteq {ingFront} ELSE ings \subseteq {ingBack}
  BY DEF If
<1>4. e = <<"e">>
  OBVIOUS
<1>5. SideName(nameBack, "e", "backend") /\ SideName(nameFront, "e", "frontend")
  BY DEF SideName
<1>6. Idle(podBack, nameBack) /\ Idle(podFront, nameFront)
  BY ReachingPodIsIdle
<1>7. depBack = Deployment(nameBack, podBack) /\ depFront = Deployment(nameFront, podFront)
  OBVIOUS
<1>8. svcBack = SideService(nameBack, 4000) /\ svcFront = SideService(nameFront, 3000)
  OBVIOUS
<1>9. /\ ingBack = BuildIngress(e, s.ingress, nameBack, 4000)
      /\ ingFront = BuildIngress(e, s.ingress, nameFront, 3000)
  OBVIOUS
<1> HIDE DEF e, nameBack, nameFront, reached, podBack, podFront, depBack, depFront,
             svcBack, svcFront, ingBack, ingFront, ings, objects
<1>10. s.ingress # <<>> => s.ingress \in IngressSpec /\ IsFiniteSet(s.ingress.hosts)
  BY HostsAreList
<1>11. \/ objects = {depBack, depFront} \union {svcBack, svcFront} \union ings
            /\ ings \subseteq {ingFront}
       \/ objects = {depBack} \union {svcBack} \union ings /\ ings \subseteq {ingBack}
  BY <1>1, <1>2, <1>3 DEF objects, If
<1>12. nameBack[1] = "e" /\ nameFront[1] = "e" /\ nameBack # nameFront
  BY <1>5 DEF SideName
<1>13. SidePort(nameBack) = 4000
  BY <1>5, SideNamePort
<1>14. SidePort(nameFront) = 3000
  BY <1>5, SideNamePort
<1>15. Bare(depBack, nameBack)
  BY <1>6, <1>7, <1>12, SideDeployment
<1>16. Bare(depFront, nameFront)
  BY <1>6, <1>7, <1>12, SideDeployment
<1>17. SideFacts(s, "e", nameBack, nameFront, 4000, depBack, depFront)
  BY <1>10, <1>12, <1>13, <1>14, <1>15, <1>16 DEF SideFacts
<1>18. SideObjects(objects, ings, s, "e", nameBack, nameFront, 4000, depBack, depFront)
  BY <1>4, <1>8, <1>9, <1>11, <1>3 DEF SideObjects
<1>19. Wholesome(objects, "e")
  BY <1>17, <1>18, FrontedWholesome
<1>20. QED
  BY <1>19 DEF objects


LEMMA CloudServiceShape ==
  ASSUME NEW name, NEW port, name[1] \in {"i", "c"}, name[1] # "i" => SidePort(name) = port,
         NEW svc, svc = CloudService(name, port)
  PROVE  svc.kind = "Service" /\ svc.name = name /\ ServiceShape(svc)
<1> DEFINE p == [name |-> "http", port |-> port, target |-> "http"]
<1>1. p.target = "http" /\ p.name = "http" /\ p.port = port
  OBVIOUS
<1>2. svc = Service(name, SelectorLabels(name), {p})
  BY DEF CloudService
<1> HIDE DEF p
<1>3. ServiceShape(svc)
  BY <1>1, <1>2, OnePortService
<1>4. svc.kind = "Service" /\ svc.name = name
  BY <1>2 DEF Service
<1>5. QED
  BY <1>3, <1>4

\* The Deployment of an Indexer, with what the reconciler layers on the builder's.
LEMMA IndexerDeployment ==
  ASSUME NEW s, NEW port, NEW endpoint, NEW name, name = TheIndexer, NEW dep,
         dep = AugmentIndexerDeployment(BuildIndexerDeployment(name, s), name, s, port, endpoint)
  PROVE  /\ dep.kind = "Deployment" /\ dep.name = name
         /\ dep.pod.configMap = <<>> /\ dep.pod.claim = name \o <<"data">>
         /\ DeploymentShape(dep)
<1> DEFINE labels == MergeLabels(StandardLabels(name, "indexer", <<>>), SelectorLabels(name))
           stored == If(s.storage, {Data})
           init == IndexerSeedRestoreInit(s)
           claim == name \o <<"data">>
           built == [PlainPod(labels) EXCEPT !.mounts = stored]
           pod == [built EXCEPT !.reaches = {endpoint}, !.mounts = built.mounts \union {Data},
                                !.volumes = {"data"}, !.claim = claim,
                                !.paths = {"/data"}, !.listens = {port},
                                !.ports = {Port("http", port)}, !.probed = {port},
                                !.init = init]
<1>1. BuildIndexerDeployment(name, s) = Deployment(name, built)
  BY DEF BuildIndexerDeployment
<1>2. stored \subseteq {Data}
  BY DEF If
<1>3. \A c \in init : c.mounts = {Data}
  BY DEF If, IndexerSeedRestoreInit
<1>4. Wears(labels, name)
  BY MergedWears
<1> HIDE DEF labels, stored, init, claim
<1>5. dep = Deployment(name, pod)
  <2>1. dep = AugmentIndexerDeployment(Deployment(name, built), name, s, port, endpoint)
    BY <1>1
  <2> HIDE DEF built
  <2>2. Deployment(name, built).pod = built
    BY DEF Deployment
  <2>3. QED
    BY <2>1, <2>2 DEF AugmentIndexerDeployment, Deployment, claim, init
<1>6. /\ pod.labels = labels /\ pod.mounts = stored \union {Data} /\ pod.volumes = {"data"}
      /\ pod.claim = claim /\ pod.paths = {"/data"} /\ pod.listens = {port}
      /\ pod.ports = {Port("http", port)} /\ pod.probed = {port} /\ pod.init = init
      /\ pod.configMap = <<>> /\ ~pod.script
      /\ pod.requests = <<0, 0>> /\ pod.limits = <<0, 0>>
  BY DEF PlainPod
<1> HIDE DEF pod
<1>7. Data[1] = "data" /\ Data[2] = "/data"
  BY DEF Data
<1>8. Fit(pod, pod)
  BY <1>2, <1>3, <1>6, <1>7 DEF Fit, Port
<1>9. \E q \in pod.ports : q.name = "http" /\ q.port \in pod.listens
  BY <1>6 DEF Port
<1>10. dep.kind = "Deployment" /\ dep.name = name /\ dep.pod = pod
  BY <1>5 DEF Deployment
<1>11. DeploymentShape(dep)
  BY <1>4, <1>5, <1>6, <1>8, <1>9, <1>10 DEF DeploymentShape
<1>12. QED
  BY <1>6, <1>10, <1>11 DEF claim

LEMMA IndexerWholesome ==
  ASSUME NEW s \in Specs["Indexer"]
  PROVE  Wholesome(IndexerObjects(s), "i")
<1> DEFINE objects == IndexerObjects(s)
           port == OrDefault(s.port, 8091)
           endpoint == ResolvedEndpoint(s)
           pvc == IndexerPVC(TheIndexer)
           dep == AugmentIndexerDeployment(BuildIndexerDeployment(TheIndexer, s), TheIndexer, s,
                                           port, endpoint)
           svc == CloudService(TheIndexer, port)
           ing == BuildIngress(TheIndexer, s.ingress, TheIndexer, port)
<1>1. objects = {pvc, dep, svc} \union If(s.ingress # <<>>, {ing})
  BY DEF IndexerObjects
<1>2. TheIndexer[1] = "i"
  BY Letters
<1>3. /\ pvc.kind = "PersistentVolumeClaim" /\ pvc.name = TheIndexer \o <<"data">>
      /\ pvc.name[1] = "i" /\ pvc = IndexerPVC(TheIndexer)
  BY DEF IndexerPVC, TheIndexer
<1> HIDE DEF port, endpoint
<1>4. /\ dep.kind = "Deployment" /\ dep.name = TheIndexer
      /\ dep.pod.configMap = <<>> /\ dep.pod.claim = TheIndexer \o <<"data">>
      /\ DeploymentShape(dep)
  BY IndexerDeployment
<1>5. svc.kind = "Service" /\ svc.name = TheIndexer /\ ServiceShape(svc)
  BY <1>2, CloudServiceShape
<1>6. s.ingress # <<>> =>
        /\ ing.kind = "Ingress" /\ ing.name = TheIndexer
        /\ IngressShape(ing)
        /\ \A rule \in ing.rules : rule.service = TheIndexer
  <2> SUFFICES ASSUME s.ingress # <<>>
               PROVE  /\ ing.kind = "Ingress" /\ ing.name = TheIndexer
                      /\ IngressShape(ing)
                      /\ \A rule \in ing.rules : rule.service = TheIndexer
    OBVIOUS
  <2>1. s.ingress \in IngressSpec /\ IsFiniteSet(s.ingress.hosts)
    BY HostsAreList
  <2>2. /\ ing.kind = "Ingress" /\ ing.name = TheIndexer
        /\ \A rule \in ing.rules : rule.service = TheIndexer /\ rule.port = port
        /\ CertificatesShape(ing.rules, ing.tls)
        /\ \A t \in ing.tls : ing.name = Bearer(t.secret)
    BY <2>1, BuiltIngress DEF TheIndexer
  <2>3. QED
    BY <1>2, <2>2 DEF IngressShape
<1> HIDE DEF pvc, dep, svc, ing, objects
<1>7. /\ \A o \in objects : o = pvc \/ o = dep \/ o = svc \/ (s.ingress # <<>> /\ o = ing)
      /\ pvc \in objects /\ dep \in objects /\ svc \in objects
  BY <1>1 DEF If
<1>8. \A o \in objects : o.name[1] = "i" /\ Shape(o)
  BY <1>2, <1>3, <1>4, <1>5, <1>6, <1>7 DEF Shape
<1>9. \A o \in objects : Relies(o, objects)
  BY <1>3, <1>4, <1>5, <1>6, <1>7 DEF Relies, HasKey
<1>10. Keyed(objects)
  BY <1>3, <1>4, <1>5, <1>6, <1>7 DEF Keyed, SameKey
<1>11. QED
  BY <1>8, <1>9, <1>10 DEF Wholesome, objects

(***************************************************************************)
(* The Cloud: objects named for its API and for each brand.                *)
(***************************************************************************)
LEMMA CloudNames ==
  /\ <<"c">> \o <<"api">> = <<"c", "api">>
  /\ \A brand : WebName(<<"c">>, brand) = <<"c", "web", brand.name>>
  BY OneAndOne, OneAndTwo DEF WebName

\* A pod that serves HTTP and names no other object.
Serving(pod, name) ==
  /\ Wears(pod.labels, name)
  /\ Fit(pod, pod)
  /\ ~pod.script /\ pod.configMap = <<>> /\ pod.claim = <<>>
  /\ \E q \in pod.ports : q.name = "http" /\ q.port \in pod.listens

LEMMA ServingDeployment ==
  ASSUME NEW name, name[1] = "c", NEW pod, Serving(pod, name),
         NEW dep, dep = Deployment(name, pod)
  PROVE  Bare(dep, name)
<1>1. dep.kind = "Deployment" /\ dep.name = name /\ dep.pod = pod
  BY DEF Deployment
<1>2. DeploymentShape(dep)
  BY <1>1 DEF DeploymentShape, Serving
<1>3. QED
  BY <1>1, <1>2 DEF Bare, Serving

LEMMA CloudAPIDeploymentIsBare ==
  ASSUME NEW s \in Specs["Cloud"], NEW name, name = <<"c">> \o <<"api">>, name[1] = "c"
  PROVE  Bare(CloudAPIDeployment(<<"c">>, s), name)
<1> DEFINE labels == MergeLabels(MergeLabels(StandardLabels(name, "cloud-api", <<"c">>), s.labels),
                                 SelectorLabels(name))
           Volume(i) == "kubeconfig-" \o Ordinals[i]
           Path(i) == KubeconfigPath(s.targets[i])
           targets == DOMAIN s.targets
           volumes == {Volume(i) : i \in targets}
           mounts == {<<Volume(i), Path(i)>> : i \in targets}
           paths == {Path(i) : i \in targets}
           pod == [PlainPod(labels)
                     EXCEPT !.ports = {Port("http", 8000)}, !.listens = {8000}, !.probed = {8000},
                            !.volumes = volumes, !.mounts = mounts, !.paths = paths]
           dep == CloudAPIDeployment(<<"c">>, s)
<1>1. dep = Deployment(name, pod)
  BY DEF CloudAPIDeployment
<1>2. Wears(labels, name)
  BY MergedWears
<1> HIDE DEF Volume, Path, labels, dep
<1>3. \A m \in mounts : m[1] \in volumes
  OBVIOUS
<1>4. \A path \in paths : \E m \in mounts : m[2] = path
  <2>1. ASSUME NEW path \in paths
        PROVE  \E m \in mounts : m[2] = path
    <3>1. PICK i \in targets : path = Path(i)
      OBVIOUS
    <3>2. <<Volume(i), Path(i)>> \in mounts
      OBVIOUS
    <3>3. <<Volume(i), Path(i)>>[2] = path
      BY <3>1
    <3>4. QED
      BY <3>2, <3>3
  <2>2. QED
    BY <2>1
<1>5. \A m, n \in mounts : m[2] = n[2] => m = n
  <2>1. ASSUME NEW m \in mounts, NEW n \in mounts, m[2] = n[2]
        PROVE  m = n
    <3>1. PICK i \in targets : m = <<Volume(i), Path(i)>>
      OBVIOUS
    <3>2. PICK j \in targets : n = <<Volume(j), Path(j)>>
      OBVIOUS
    <3>3. Path(i) = Path(j)
      BY <2>1, <3>1, <3>2
    <3>4. i = j
      BY <3>3, UsersAssumption DEF Path, targets
    <3>5. QED
      BY <3>1, <3>2, <3>4
  <2>2. QED
    BY <2>1
<1> HIDE DEF volumes, mounts, paths, targets
<1>6. /\ pod.labels = labels /\ pod.ports = {Port("http", 8000)}
      /\ pod.listens = {8000} /\ pod.probed = {8000}
      /\ pod.volumes = volumes /\ pod.mounts = mounts /\ pod.paths = paths
      /\ pod.init = {} /\ pod.configMap = <<>> /\ pod.claim = <<>> /\ ~pod.script
      /\ pod.requests = <<0, 0>> /\ pod.limits = <<0, 0>>
  BY DEF PlainPod
<1> HIDE DEF pod
<1>7. Fit(pod, pod)
  BY <1>3, <1>4, <1>5, <1>6 DEF Fit, Port
<1>8. \E q \in pod.ports : q.name = "http" /\ q.port \in pod.listens
  BY <1>6 DEF Port
<1>9. Serving(pod, name)
  BY <1>2, <1>6, <1>7, <1>8 DEF Serving
<1>10. Bare(dep, name)
  BY <1>1, <1>9, ServingDeployment
<1>11. QED
  BY <1>10 DEF dep

LEMMA CloudWebDeploymentIsBare ==
  ASSUME NEW s, NEW brand, NEW web, web = WebName(<<"c">>, brand), web[1] = "c",
         NEW dep, dep = CloudWebDeployment(<<"c">>, s, brand)
  PROVE  Bare(dep, web)
<1> DEFINE labels == MergeLabels(MergeLabels(MergeLabels(StandardLabels(web, "cloud-web", <<"c">>),
                                                         s.labels),
                                             [brand |-> <<brand.name>>]),
                                 SelectorLabels(web))
           pod == [PlainPod(labels)
                     EXCEPT !.ports = {Port("http", 3001)}, !.listens = {3001}, !.probed = {3001}]
<1>1. dep = Deployment(web, pod)
  BY DEF CloudWebDeployment
<1>2. Wears(labels, web)
  BY MergedWears
<1> HIDE DEF labels
<1>3. /\ pod.labels = labels /\ pod.ports = {Port("http", 3001)}
      /\ pod.listens = {3001} /\ pod.probed = {3001}
      /\ pod.mounts = {} /\ pod.paths = {}
      /\ pod.init = {} /\ pod.configMap = <<>> /\ pod.claim = <<>> /\ ~pod.script
      /\ pod.requests = <<0, 0>> /\ pod.limits = <<0, 0>>
  BY DEF PlainPod
<1> HIDE DEF pod
<1>4. Fit(pod, pod)
  BY <1>3 DEF Fit, Port
<1>5. \E q \in pod.ports : q.name = "http" /\ q.port \in pod.listens
  BY <1>3 DEF Port
<1>6. Serving(pod, web)
  BY <1>2, <1>3, <1>4, <1>5 DEF Serving
<1>7. QED
  BY <1>1, <1>6, ServingDeployment

\* A host of a brand's domain is of no other domain, and of the same registered one.
LEMMA HostOfDomain ==
  ASSUME NEW S, NEW l \in S, NEW k \in S, NEW d \in Seq(S), NEW e \in Seq(S),
         <<l>> \o d = <<k>> \o e
  PROVE  d = e
<1>1. (<<l>> \o d)[1] = l /\ (<<k>> \o e)[1] = k
  OBVIOUS
<1>2. l = k
  BY <1>1
<1>3. <<l>> \in Seq(S)
  OBVIOUS
<1>4. QED
  BY <1>2, <1>3, ConcatSimplifications

LEMMA RegisteredDomainOfHost ==
  ASSUME NEW S, NEW l \in S, NEW d \in Seq(S), Len(d) > 1
  PROVE  RegisteredDomain(<<l>> \o d) = RegisteredDomain(d)
<1> DEFINE h == <<l>> \o d
<1>1. <<l>> \in Seq(S) /\ Len(<<l>>) = 1
  OBVIOUS
<1>2. h \in Seq(S) /\ Len(h) = Len(d) + 1 /\ Len(d) \in Nat
  BY <1>1, ConcatProperties, LenProperties
<1>3. \A i \in 1 .. Len(d) : h[i + 1] = d[i]
  OBVIOUS
<1> HIDE DEF h
<1> DEFINE a == SubSeq(h, Len(h) - 1, Len(h))
           b == SubSeq(d, Len(d) - 1, Len(d))
<1>4. \A i \in 1 .. Len(d) : d[i] \in S
  BY ElementOfSeq
<1>5. \A i \in 1 .. Len(h) : h[i] \in S
  BY <1>2, ElementOfSeq
<1>6. b \in Seq(S) /\ Len(b) = 2 /\ \A i \in 1 .. 2 : b[i] = d[Len(d) - 2 + i]
  BY <1>2, <1>4, SubSeqProperties
<1>7. a \in Seq(S) /\ Len(a) = 2 /\ \A i \in 1 .. 2 : a[i] = h[Len(h) - 2 + i]
  BY <1>2, <1>5, SubSeqProperties
<1>8. \A i \in 1 .. 2 : Len(d) - 2 + i \in 1 .. Len(d) /\ Len(h) - 2 + i = (Len(d) - 2 + i) + 1
  BY <1>2
<1>9. \A i \in 1 .. 2 : a[i] = b[i]
  BY <1>3, <1>6, <1>7, <1>8
<1>10. a = b
  BY <1>6, <1>7, <1>9, SeqEqual
<1>11. RegisteredDomain(h) = a /\ RegisteredDomain(d) = b
  BY <1>2 DEF RegisteredDomain
<1>12. QED
  BY <1>10, <1>11 DEF h

LEMMA BrandFacts ==
  ASSUME NEW s \in Specs["Cloud"]
  PROVE  /\ \A b \in s.brands : b.domain \in Seq(STRING) /\ Len(b.domain) > 1
         /\ \A a, b \in s.brands : a.name = b.name \/ a.domain = b.domain => a = b
<1>1. s.brands \subseteq BrandConfig
  BY SpecsAssumption DEF CloudSpec
<1>2. QED
  BY <1>1, UsersAssumption DEF BrandConfig

LEMMA CloudSecrets ==
  ASSUME NEW n
  PROVE  /\ LET secret == <<"c", "api">> \o <<n, "tls">>
            IN  secret[1] = "c" /\ secret[2] = "api" /\ secret[3] = n
         /\ LET secret == <<"c", "web", n>> \o <<"tls">>
            IN  secret[1] = "c" /\ secret[2] = "web" /\ secret[3] = n
  OBVIOUS

LEMMA CloudPorts ==
  ASSUME NEW name, name[1] = "c"
  PROVE  /\ name[2] = "api" => SidePort(name) = 8000
         /\ name[2] = "web" => SidePort(name) = 3001
  BY SidePorts

\* Every brand has a certificate of its own, on which are its two hosts.
LEMMA CloudAPIIngressShape ==
  ASSUME NEW s \in Specs["Cloud"]
  PROVE  LET ing == CloudAPIIngress(<<"c">>, s)
         IN  /\ ing.kind = "Ingress" /\ ing.name = <<"c", "api">>
             /\ IngressShape(ing)
             /\ \A rule \in ing.rules : rule.service = <<"c", "api">>
<1> DEFINE ing == CloudAPIIngress(<<"c">>, s)
           api_ == <<"c">> \o <<"api">>
           S == STRING \union {"api", "ws"}
           Hosts(b) == {<<"api">> \o b.domain, <<"ws">> \o b.domain}
           Secret(b) == api_ \o <<b.name, "tls">>
           Certificate(b) == [hosts |-> Hosts(b), secret |-> Secret(b)]
           certificates == {Certificate(b) : b \in s.brands}
<1>1. /\ ing.kind = "Ingress" /\ ing.name = api_
      /\ ing.rules = {Rule(h, api_, 8000) : h \in UNION {Hosts(b) : b \in s.brands}}
      /\ ing.tls \in {{}, certificates}
  BY DEF CloudAPIIngress, If
<1>2. api_ = <<"c", "api">>
  BY CloudNames
<1>3. \A b \in s.brands : b.domain \in Seq(STRING) /\ Len(b.domain) > 1
  BY BrandFacts
<1>4. \A b \in s.brands : b.domain \in Seq(S)
  BY <1>3, SequencesOfMore
<1>5. ASSUME NEW a \in s.brands, NEW b \in s.brands, NEW h, h \in Hosts(a), h \in Hosts(b)
      PROVE  a = b
  <2>1. PICK k \in {"api", "ws"} : h = <<k>> \o a.domain
    BY <1>5
  <2>2. PICK l \in {"api", "ws"} : h = <<l>> \o b.domain
    BY <1>5
  <2>3. k \in S /\ l \in S /\ a.domain \in Seq(S) /\ b.domain \in Seq(S)
    BY <1>4
  <2> HIDE DEF S
  <2>4. a.domain = b.domain
    BY <2>1, <2>2, <2>3, HostOfDomain
  <2>5. QED
    BY <2>4, BrandFacts
<1>6. ASSUME NEW b \in s.brands, NEW h \in Hosts(b)
      PROVE  RegisteredDomain(h) = RegisteredDomain(b.domain)
  <2>1. PICK k \in {"api", "ws"} : h = <<k>> \o b.domain
    OBVIOUS
  <2>2. k \in S /\ b.domain \in Seq(S) /\ Len(b.domain) > 1
    BY <1>3, <1>4
  <2> HIDE DEF S
  <2>3. QED
    BY <2>1, <2>2, RegisteredDomainOfHost
<1>7. \A b : Hosts(b) # {} /\ Certificate(b).hosts = Hosts(b) /\ Certificate(b).secret = Secret(b)
  OBVIOUS
<1>8. \A b : Secret(b)[1] = "c" /\ Secret(b)[2] = "api" /\ Secret(b)[3] = b.name
  BY <1>2, CloudSecrets
<1>9. api_[1] = "c"
  OBVIOUS
<1> HIDE DEF Hosts, Secret, Certificate, ing, api_
<1>10. SidePort(api_) = 8000
  <2>1. api_[1] = "c" /\ api_[2] = "api"
    BY <1>2
  <2>2. QED
    BY <2>1, CloudPorts
<1>11. \A rule \in ing.rules :
         /\ rule.service = api_ /\ rule.port = 8000
         /\ \E b \in s.brands : rule.host \in Hosts(b)
  BY <1>1 DEF Rule
<1>12. ASSUME NEW rule \in ing.rules
       PROVE  \E t \in certificates : {u \in certificates : rule.host \in u.hosts} = {t}
  <2>1. PICK b \in s.brands : rule.host \in Hosts(b)
    BY <1>11
  <2>2. Certificate(b) \in certificates
    OBVIOUS
  <2>3. {u \in certificates : rule.host \in u.hosts} = {Certificate(b)}
    BY <1>5, <1>7, <2>1
  <2>4. QED
    BY <2>2, <2>3
<1>13. ASSUME NEW t \in certificates
       PROVE  \E d : {RegisteredDomain(host) : host \in t.hosts} = {d}
  <2>1. PICK b \in s.brands : t = Certificate(b)
    OBVIOUS
  <2>2. {RegisteredDomain(host) : host \in t.hosts} = {RegisteredDomain(b.domain)}
    BY <1>6, <1>7, <2>1
  <2>3. QED
    BY <2>2
<1>14. ASSUME NEW t \in certificates, NEW u \in certificates, t.secret = u.secret
       PROVE  t = u
  <2>1. PICK a \in s.brands : t = Certificate(a)
    OBVIOUS
  <2>2. PICK b \in s.brands : u = Certificate(b)
    OBVIOUS
  <2>3. a.name = b.name
    BY <1>7, <1>8, <1>14, <2>1, <2>2
  <2>4. QED
    BY <2>1, <2>2, <2>3, BrandFacts
<1>15. ASSUME NEW t \in certificates
       PROVE  api_ = Bearer(t.secret)
  <2>1. PICK b \in s.brands : t = Certificate(b)
    OBVIOUS
  <2>2. t.secret[1] = "c" /\ t.secret[2] = "api"
    BY <1>7, <1>8, <2>1
  <2>3. QED
    BY <1>2, <2>2 DEF Bearer
<1> HIDE DEF certificates
<1>16. CertificatesShape(ing.rules, ing.tls)
  <2>1. CertificatesShape(ing.rules, certificates)
    BY <1>12, <1>13, <1>14 DEF CertificatesShape
  <2>2. CertificatesShape(ing.rules, {})
    BY DEF CertificatesShape
  <2>3. QED
    BY <1>1, <2>1, <2>2
<1>17. \A t \in ing.tls : ing.name = Bearer(t.secret)
  BY <1>1, <1>15
<1>18. IngressShape(ing)
  BY <1>1, <1>9, <1>10, <1>11, <1>16, <1>17 DEF IngressShape
<1>19. QED
  BY <1>1, <1>11, <1>18, <1>2 DEF ing

LEMMA CloudWebIngressShape ==
  ASSUME NEW s, NEW brand
  PROVE  LET ing == CloudWebIngress(<<"c">>, s, brand)
             web == <<"c", "web", brand.name>>
         IN  /\ ing.kind = "Ingress" /\ ing.name = web
             /\ IngressShape(ing)
             /\ \A rule \in ing.rules : rule.service = web
<1> DEFINE ing == CloudWebIngress(<<"c">>, s, brand)
           web == WebName(<<"c">>, brand)
           secret == web \o <<"tls">>
           certificate == [hosts |-> {brand.domain}, secret |-> secret]
           domain == brand.domain
<1>1. /\ ing.kind = "Ingress" /\ ing.name = web
      /\ ing.rules = {Rule(domain, web, 3001)}
      /\ ing.tls \in {{}, {certificate}}
  BY DEF CloudWebIngress, If
<1>2. web = <<"c", "web", brand.name>>
  BY CloudNames
<1>3. secret[1] = "c" /\ secret[2] = "web" /\ secret[3] = brand.name
  BY <1>2, CloudSecrets
<1>4. web[1] = "c"
  BY <1>2
<1>5. SidePort(web) = 3001
  <2>1. web[1] = "c" /\ web[2] = "web"
    BY <1>2
  <2> HIDE DEF web
  <2>2. QED
    BY <2>1, CloudPorts
<1>6. certificate.hosts = {domain} /\ certificate.secret = secret
  OBVIOUS
<1>7. Bearer(secret) = web
  <2> HIDE DEF secret, web
  <2>1. QED
    BY <1>3, <1>2 DEF Bearer
<1> HIDE DEF ing, web, secret, certificate, domain
<1>8. \A rule \in ing.rules : rule.service = web /\ rule.port = 3001 /\ rule.host = domain
  BY <1>1 DEF Rule
<1>9. {RegisteredDomain(host) : host \in certificate.hosts} = {RegisteredDomain(domain)}
  BY <1>6
<1>10. {u \in {certificate} : domain \in u.hosts} = {certificate}
  BY <1>6
<1>11. CertificatesShape(ing.rules, ing.tls)
  BY <1>1, <1>8, <1>9, <1>10 DEF CertificatesShape
<1>12. \A t \in ing.tls : ing.name = Bearer(t.secret)
  BY <1>1, <1>6, <1>7
<1>13. IngressShape(ing)
  BY <1>1, <1>4, <1>5, <1>8, <1>11, <1>12 DEF IngressShape
<1>14. QED
  BY <1>1, <1>8, <1>13, <1>2 DEF ing

\* What each of a Cloud's names has: its Deployment, its Service and its Ingress.
LEMMA CloudWholesome ==
  ASSUME NEW s \in Specs["Cloud"]
  PROVE  Wholesome(CloudObjects(s), "c")
<1> DEFINE c == <<"c">>
           objects == CloudObjects(s)
           api_ == c \o <<"api">>
           dep == CloudAPIDeployment(c, s)
           svc == CloudService(api_, 8000)
           pdb == PDB(api_)
           hpa == CloudHPA(api_, api_, s.hpa)
           ing == CloudAPIIngress(c, s)
           Web(b) == WebName(c, b)
           WebDep(b) == CloudWebDeployment(c, s, b)
           WebSvc(b) == CloudService(Web(b), 3001)
           WebHPA(b) == CloudHPA(Web(b), Web(b), s.web)
           WebIng(b) == CloudWebIngress(c, s, b)
           webs == UNION {{WebDep(b), WebSvc(b)} \union If(s.web.enabled, {WebHPA(b)})
                             \union If(s.ingress # <<>>, {WebIng(b)}) : b \in s.brands}
<1>1. objects = {dep, svc, pdb} \union If(s.hpa.enabled, {hpa})
                  \union If(s.ingress # <<>>, {ing}) \union webs
  BY DEF CloudObjects
<1>2. \A o \in webs : \E b \in s.brands : o \in {WebDep(b), WebSvc(b), WebHPA(b), WebIng(b)}
  BY DEF If
<1>3. \A b \in s.brands : WebDep(b) \in webs /\ WebSvc(b) \in webs
  OBVIOUS
<1>4. api_ = <<"c", "api">> /\ \A b : Web(b) = <<"c", "web", b.name>>
  BY CloudNames
<1>5. api_[1] = "c" /\ api_[2] = "api"
  BY <1>4
<1>6. \A b : Web(b)[1] = "c" /\ Web(b)[2] = "web" /\ Web(b)[3] = b.name
  BY <1>4
<1>7. pdb.kind = "PodDisruptionBudget" /\ pdb.name[1] = "c" /\ pdb.selector = SelectorLabels(api_)
  BY DEF PDB
<1>8. hpa.kind = "HorizontalPodAutoscaler" /\ hpa.target = api_
      /\ hpa.name[1] = "c" /\ hpa.name[2] = "api"
  BY DEF CloudHPA
<1>9. ASSUME NEW b
      PROVE  /\ WebHPA(b).kind = "HorizontalPodAutoscaler" /\ WebHPA(b).target = Web(b)
             /\ WebHPA(b).name[1] = "c" /\ WebHPA(b).name[2] = "web" /\ WebHPA(b).name[3] = b.name
  <2>1. WebHPA(b).kind = "HorizontalPodAutoscaler" /\ WebHPA(b).target = Web(b)
        /\ WebHPA(b).name = Web(b) \o <<"hpa">>
    BY DEF CloudHPA
  <2>2. WebHPA(b).name = <<"c", "web", b.name>> \o <<"hpa">>
    BY <1>4, <2>1
  <2> HIDE DEF WebHPA
  <2>3. WebHPA(b).name[1] = "c" /\ WebHPA(b).name[2] = "web" /\ WebHPA(b).name[3] = b.name
    BY <2>2
  <2>4. QED
    BY <2>1, <2>3
<1>10. /\ ing.kind = "Ingress" /\ ing.name = api_ /\ IngressShape(ing)
       /\ \A rule \in ing.rules : rule.service = api_
  BY <1>4, CloudAPIIngressShape
<1>11. \A b : /\ WebIng(b).kind = "Ingress" /\ WebIng(b).name = Web(b) /\ IngressShape(WebIng(b))
              /\ \A rule \in WebIng(b).rules : rule.service = Web(b)
  BY <1>4, CloudWebIngressShape
<1>12. Bare(dep, api_)
  BY <1>5, CloudAPIDeploymentIsBare
<1>13. \A b : Bare(WebDep(b), Web(b))
  BY <1>6, CloudWebDeploymentIsBare
<1> HIDE DEF c, objects, dep, pdb, hpa, ing, Web, WebDep, WebHPA, WebIng, webs
<1>14. svc.kind = "Service" /\ svc.name = api_ /\ ServiceShape(svc)
  <2> HIDE DEF api_
  <2>1. SidePort(api_) = 8000
    BY <1>5, CloudPorts
  <2>2. QED
    BY <1>5, <2>1, CloudServiceShape
<1>15. \A b : WebSvc(b).kind = "Service" /\ WebSvc(b).name = Web(b) /\ ServiceShape(WebSvc(b))
  <2>1. ASSUME NEW b
        PROVE  WebSvc(b).kind = "Service" /\ WebSvc(b).name = Web(b) /\ ServiceShape(WebSvc(b))
    <3>1. SidePort(Web(b)) = 3001
      BY <1>6, CloudPorts
    <3>2. QED
      BY <1>6, <3>1, CloudServiceShape
  <2>2. QED
    BY <2>1
<1> HIDE DEF svc, WebSvc, api_
<1>16. /\ dep.kind = "Deployment" /\ dep.name = api_ /\ DeploymentShape(dep)
       /\ dep.pod.configMap = <<>> /\ dep.pod.claim = <<>>
  BY <1>12 DEF Bare
<1>17. \A b : /\ WebDep(b).kind = "Deployment" /\ WebDep(b).name = Web(b)
              /\ DeploymentShape(WebDep(b))
              /\ WebDep(b).pod.configMap = <<>> /\ WebDep(b).pod.claim = <<>>
  BY <1>13 DEF Bare
<1>18. ASSUME NEW b, NEW w \in {WebDep(b), WebSvc(b), WebHPA(b), WebIng(b)}
       PROVE  /\ w.name[1] = "c" /\ w.name[2] = "web" /\ w.name[3] = b.name
              /\ w.kind # "PodDisruptionBudget" /\ Shape(w)
  <2>1. CASE w = WebDep(b)
    BY <1>6, <1>17, <2>1 DEF Shape
  <2>2. CASE w = WebSvc(b)
    BY <1>6, <1>15, <2>2 DEF Shape
  <2>3. CASE w = WebHPA(b)
    BY <1>9, <2>3 DEF Shape
  <2>4. CASE w = WebIng(b)
    BY <1>6, <1>11, <2>4 DEF Shape
  <2>5. QED
    BY <2>1, <2>2, <2>3, <2>4
<1>19. /\ \A o \in objects :
            \/ o \in {dep, svc, pdb, hpa, ing}
            \/ \E b \in s.brands : o \in {WebDep(b), WebSvc(b), WebHPA(b), WebIng(b)}
       /\ dep \in objects /\ svc \in objects
       /\ \A b \in s.brands : WebDep(b) \in objects /\ WebSvc(b) \in objects
  BY <1>1, <1>2, <1>3 DEF If
<1>20. ASSUME NEW o \in objects
       PROVE  o.name[1] = "c" /\ Shape(o) /\ Relies(o, objects)
  <2>1. CASE o \in {dep, svc, pdb, hpa, ing}
    <3>1. o.name[1] = "c" /\ Shape(o)
      BY <1>4, <1>5, <1>7, <1>8, <1>10, <1>14, <1>16, <2>1 DEF Shape
    <3>2. Relies(o, objects)
      BY <1>4, <1>7, <1>8, <1>10, <1>14, <1>16, <1>19, <2>1 DEF Relies, HasKey
    <3>3. QED
      BY <3>1, <3>2
  <2>2. ASSUME NEW b \in s.brands, o \in {WebDep(b), WebSvc(b), WebHPA(b), WebIng(b)}
        PROVE  o.name[1] = "c" /\ Shape(o) /\ Relies(o, objects)
    <3>1. o.name[1] = "c" /\ Shape(o)
      BY <1>18, <2>2
    <3>2. Relies(o, objects)
      BY <1>9, <1>11, <1>15, <1>17, <1>19, <2>2 DEF Relies, HasKey
    <3>3. QED
      BY <3>1, <3>2
  <2>3. QED
    BY <1>19, <2>1, <2>2
<1>21. ASSUME NEW x \in objects, NEW y \in objects, SameKey(x, y)
       PROVE  x = y
  <2>1. ASSUME NEW z \in {dep, svc, pdb, hpa, ing}, NEW b \in s.brands,
               NEW w \in {WebDep(b), WebSvc(b), WebHPA(b), WebIng(b)}
        PROVE  z.kind = w.kind => z.name # w.name
    <3>1. z.kind # "PodDisruptionBudget" => z.name[2] = "api"
      BY <1>5, <1>7, <1>8, <1>10, <1>14, <1>16
    <3>2. w.kind # "PodDisruptionBudget" /\ w.name[2] = "web"
      BY <1>18
    <3>3. QED
      BY <3>1, <3>2
  <2>2. CASE x \in {dep, svc, pdb, hpa, ing} /\ y \in {dep, svc, pdb, hpa, ing}
    BY <1>7, <1>8, <1>10, <1>14, <1>16, <1>21, <2>2 DEF SameKey
  <2>3. ASSUME NEW a \in s.brands, NEW b \in s.brands,
               x \in {WebDep(a), WebSvc(a), WebHPA(a), WebIng(a)},
               y \in {WebDep(b), WebSvc(b), WebHPA(b), WebIng(b)}
        PROVE  x = y
    <3>1. x.name[3] = a.name /\ y.name[3] = b.name
      BY <1>18, <2>3
    <3>2. a = b
      BY <1>21, <3>1, BrandFacts DEF SameKey
    <3>3. QED
      BY <1>9, <1>11, <1>15, <1>17, <1>21, <2>3, <3>2 DEF SameKey
  <2>4. QED
    BY <1>19, <1>21, <2>1, <2>2, <2>3 DEF SameKey
<1>22. QED
  BY <1>20, <1>21 DEF Wholesome, Keyed, objects

(***************************************************************************)
(* The NodeCluster: what each driver makes of a spec fits together.        *)
(***************************************************************************)
\* What the process of a node listens on and reads.
DriverProcess(s, d) == IF d.script THEN LuxStartupScript(s) ELSE d.command

Coherent(s, d) ==
  /\ \A m \in d.mounts : m[1] \in d.volumes \union {"data"}
  /\ \A c \in d.init : \A m \in c.mounts : m[1] \in d.volumes \union {"data"}
  /\ \A m, n \in d.mounts : m[2] = n[2] => m = n
  /\ \A path \in d.command.paths \union DriverProcess(s, d).paths :
       path = "/keys" \/ \E m \in d.mounts : m[2] = path
  /\ d.rpc \in DriverProcess(s, d).listens
  /\ d.rpc = OrDefault(s.rpc, d.ports.rpc)
  /\ \A i \in 1 .. 2 : d.resources.requests[i] <= d.resources.limits[i]
  /\ "config" \in d.volumes <=> d.script

LEMMA DataFacts == Data[1] = "data" /\ Data[2] = "/data"
  BY DEF Data

LEMMA RestoreFacts ==
  ASSUME NEW s
  PROVE  \A c \in RestoreContainer(s) : c.mounts = {Data}
  BY DEF RestoreContainer, If

LEMMA LuxCoherent ==
  ASSUME NEW s
  PROVE  Coherent(s, LuxDriver(s))
<1> DEFINE d == LuxDriver(s)
           staking == <<"staking-keys", "/staking">>
           plugins == <<"plugins", "/plugins">>
           config == <<"config", "/configs">>
<1>1. /\ d.ports.rpc = 9650 /\ d.rpc = OrDefault(s.rpc, 9650)
      /\ d.command = LuxBuildCommand(s) /\ d.script = LuxNeedsConfigMap(s)
      /\ d.mounts = LuxMounts(s) /\ d.volumes = LuxVolumes(s)
      /\ d.init = LuxInitContainers(s) /\ d.resources = LuxResources(s.role)
  BY DEF LuxDriver, LuxPorts
<1>2. /\ staking[1] = "staking-keys" /\ staking[2] = "/staking"
      /\ plugins[1] = "plugins" /\ plugins[2] = "/plugins"
      /\ config[1] = "config" /\ config[2] = "/configs"
  OBVIOUS
<1> HIDE DEF d, staking, plugins, config
<1>3. \A m : m \in LuxMounts(s) <=> \/ m = Data
                                    \/ s.keys /\ m = staking
                                    \/ s.plugins /\ m = plugins
                                    \/ LuxNeedsConfigMap(s) /\ m = config
  BY DEF LuxMounts, If, staking, plugins, config
<1>4. /\ s.keys => "staking-keys" \in LuxVolumes(s)
      /\ s.plugins => "plugins" \in LuxVolumes(s)
      /\ LuxNeedsConfigMap(s) => "config" \in LuxVolumes(s)
      /\ "config" \in LuxVolumes(s) => LuxNeedsConfigMap(s)
  BY DEF LuxVolumes, If
<1>5. \A m \in d.mounts : m[1] \in d.volumes \union {"data"}
  BY <1>1, <1>2, <1>3, <1>4, DataFacts
<1>6. \A c \in d.init : \A m \in c.mounts : m[1] \in d.volumes \union {"data"}
  <2>1. ASSUME NEW c \in LuxInitContainers(s)
        PROVE  c.mounts = {Data} \/ (s.plugins /\ c.mounts = {plugins})
    <3>1. c \in RestoreContainer(s) \/ (s.plugins /\ c = PluginContainer)
      BY DEF LuxInitContainers, If
    <3>2. PluginContainer.mounts = {plugins}
      BY DEF PluginContainer, plugins
    <3>3. QED
      BY <3>1, <3>2, RestoreFacts
  <2>2. QED
    BY <1>1, <1>2, <1>4, <2>1, DataFacts
<1>7. LuxCommand(s).listens = {OrDefault(s.rpc, 9650), OrDefault(s.p2p, 9651)}
      /\ \A path \in LuxCommand(s).paths :
           path = "/data" \/ (s.keys /\ path = "/staking") \/ (s.plugins /\ path = "/plugins")
  BY DEF LuxCommand, LuxPorts, If
<1>8. DriverProcess(s, d) = LuxCommand(s)
  BY <1>1 DEF DriverProcess, LuxStartupScript, LuxBuildCommand
<1>9. d.command = LuxCommand(s) \/ (LuxNeedsConfigMap(s) /\ d.command.paths = {"/configs"})
  BY <1>1 DEF LuxBuildCommand
<1>10. ASSUME NEW path \in d.command.paths \union DriverProcess(s, d).paths
       PROVE  \E m \in d.mounts : m[2] = path
  <2>1. \/ path = "/data"
        \/ s.keys /\ path = "/staking"
        \/ s.plugins /\ path = "/plugins"
        \/ LuxNeedsConfigMap(s) /\ path = "/configs"
    BY <1>7, <1>8, <1>9
  <2>2. QED
    BY <1>1, <1>2, <1>3, <2>1, DataFacts
<1>11. \A m, n \in d.mounts : m[2] = n[2] => m = n
  BY <1>1, <1>2, <1>3, DataFacts
<1>12. \A i \in 1 .. 2 : d.resources.requests[i] <= d.resources.limits[i]
  BY <1>1 DEF LuxResources
<1>13. d.rpc \in DriverProcess(s, d).listens
  BY <1>1, <1>7, <1>8
<1>14. Coherent(s, d)
  BY <1>1, <1>4, <1>5, <1>6, <1>10, <1>11, <1>12, <1>13 DEF Coherent
<1>15. QED
  BY <1>14 DEF d

\* The drivers that mount the data and nothing else.
LEMMA FixedCoherent ==
  ASSUME NEW s, NEW d, d.mounts = {Data}, \A c \in d.init : c.mounts = {Data},
         ~d.script, d.command.paths \subseteq {"/data"}, d.rpc \in d.command.listens,
         d.rpc = OrDefault(s.rpc, d.ports.rpc), d.volumes = {},
         \A i \in 1 .. 2 : d.resources.requests[i] <= d.resources.limits[i]
  PROVE  Coherent(s, d)
  BY DataFacts DEF Coherent, DriverProcess

LEMMA EthereumCoherent ==
  ASSUME NEW s
  PROVE  Coherent(s, EthereumDriver(s))
<1> DEFINE d == EthereumDriver(s)
<1>1. /\ d.mounts = {Data} /\ d.init = RestoreContainer(s) /\ ~d.script
      /\ d.command.paths = {"/data"} /\ d.volumes = {}
      /\ d.rpc \in d.command.listens /\ d.rpc = OrDefault(s.rpc, d.ports.rpc)
  BY DEF EthereumDriver
<1>2. \A i \in 1 .. 2 : d.resources.requests[i] <= d.resources.limits[i]
  BY DEF EthereumDriver
<1> HIDE DEF d
<1>3. Coherent(s, d)
  BY <1>1, <1>2, RestoreFacts, FixedCoherent
<1>4. QED
  BY <1>3 DEF d

LEMMA BitcoinCoherent ==
  ASSUME NEW s
  PROVE  Coherent(s, BitcoinDriver(s))
<1> DEFINE d == BitcoinDriver(s)
<1>1. /\ d.mounts = {Data} /\ d.init = {} /\ ~d.script
      /\ d.command.paths = {"/data"} /\ d.volumes = {}
      /\ d.rpc \in d.command.listens /\ d.rpc = OrDefault(s.rpc, d.ports.rpc)
  BY DEF BitcoinDriver
<1>2. \A i \in 1 .. 2 : d.resources.requests[i] <= d.resources.limits[i]
  BY DEF BitcoinDriver
<1> HIDE DEF d
<1>3. Coherent(s, d)
  BY <1>1, <1>2, FixedCoherent
<1>4. QED
  BY <1>3 DEF d

LEMMA CosmosCoherent ==
  ASSUME NEW s
  PROVE  Coherent(s, CosmosDriver(s))
<1> DEFINE d == CosmosDriver(s)
<1>1. /\ d.mounts = {Data} /\ d.init = {} /\ ~d.script
      /\ d.command.paths = {"/data"} /\ d.volumes = {}
      /\ d.rpc \in d.command.listens /\ d.rpc = OrDefault(s.rpc, d.ports.rpc)
  BY DEF CosmosDriver
<1>2. \A i \in 1 .. 2 : d.resources.requests[i] <= d.resources.limits[i]
  BY DEF CosmosDriver
<1> HIDE DEF d
<1>3. Coherent(s, d)
  BY <1>1, <1>2, FixedCoherent
<1>4. QED
  BY <1>3 DEF d

LEMMA GenericCoherent ==
  ASSUME NEW s \in Specs["NodeCluster"], s.protocol = "generic"
  PROVE  Coherent(s, GenericDriver(s))
<1> DEFINE d == GenericDriver(s)
<1>1. /\ d.mounts = {Data} /\ d.init = {} /\ ~d.script
      /\ d.command.paths = {} /\ d.volumes = {} /\ d.command.listens = s.userListens
      /\ d.ports.rpc = 8545 /\ d.rpc = IF s.rpc = 0 THEN 8545 ELSE s.rpc
  BY DEF GenericDriver
<1>2. \A i \in 1 .. 2 : d.resources.requests[i] <= d.resources.limits[i]
  BY DEF GenericDriver
<1>3. s.rpc \in Nat
  BY SpecsAssumption DEF NodeClusterSpec
<1> HIDE DEF d
<1>4. d.rpc = OrDefault(s.rpc, d.ports.rpc)
  BY <1>1, <1>3 DEF OrDefault
<1>5. d.rpc \in d.command.listens
  BY <1>1, <1>4, UsersAssumption
<1>6. Coherent(s, d)
  BY <1>1, <1>2, <1>4, <1>5, FixedCoherent
<1>7. QED
  BY <1>6 DEF d

LEMMA SolanaCoherent ==
  ASSUME NEW s
  PROVE  Coherent(s, SolanaDriver(s))
<1> DEFINE d == SolanaDriver(s)
           keys == <<"keys", "/keys">>
<1>1. /\ d.mounts = {Data} \union If(s.keys, {keys}) /\ d.volumes = If(s.keys, {"keys"})
      /\ \A c \in d.init : c.mounts = {Data}
      /\ ~d.script /\ d.command.paths = {"/data", "/keys"}
      /\ d.rpc \in d.command.listens /\ d.rpc = OrDefault(s.rpc, d.ports.rpc)
      /\ d.resources = SolanaResources(s.role)
  BY DEF SolanaDriver
<1>2. keys[1] = "keys" /\ keys[2] = "/keys"
  OBVIOUS
<1> HIDE DEF d, keys
<1>3. \A i \in 1 .. 2 : d.resources.requests[i] <= d.resources.limits[i]
  BY <1>1 DEF SolanaResources
<1>4. \A m : m \in d.mounts <=> m = Data \/ (s.keys /\ m = keys)
  BY <1>1 DEF If
<1>5. (s.keys => "keys" \in d.volumes) /\ "config" \notin d.volumes
  BY <1>1 DEF If
<1>6. DriverProcess(s, d) = d.command
  BY <1>1 DEF DriverProcess
<1>7. \A m \in d.mounts : m[1] \in d.volumes \union {"data"}
  BY <1>2, <1>4, <1>5, DataFacts
<1>8. \A c \in d.init : \A m \in c.mounts : m[1] \in d.volumes \union {"data"}
  BY <1>1, DataFacts
<1>9. \A path \in d.command.paths : path = "/keys" \/ \E m \in d.mounts : m[2] = path
  BY <1>1, <1>4, DataFacts
<1>10. \A m, n \in d.mounts : m[2] = n[2] => m = n
  BY <1>2, <1>4, DataFacts
<1>11. Coherent(s, d)
  BY <1>1, <1>3, <1>5, <1>6, <1>7, <1>8, <1>9, <1>10 DEF Coherent
<1>12. QED
  BY <1>11 DEF d

LEMMA DriverCoherent ==
  ASSUME NEW s \in Specs["NodeCluster"], s.protocol \in Protocols
  PROVE  Coherent(s, Driver(s))
<1>1. CASE s.protocol = "lux"
  BY <1>1, LuxCoherent DEF Driver
<1>2. CASE s.protocol = "ethereum"
  BY <1>2, EthereumCoherent DEF Driver
<1>3. CASE s.protocol = "bitcoin"
  BY <1>3, BitcoinCoherent DEF Driver
<1>4. CASE s.protocol = "cosmos"
  BY <1>4, CosmosCoherent DEF Driver
<1>5. CASE s.protocol = "solana"
  BY <1>5, SolanaCoherent DEF Driver
<1>6. CASE s.protocol = "generic"
  BY <1>6, GenericCoherent DEF Driver
<1>7. QED
  BY <1>1, <1>2, <1>3, <1>4, <1>5, <1>6 DEF Protocols

\* Whether it is started by a script or directly.
NodeProcess(s) == IF Driver(s).script THEN NodeConfigMap(Node, s).data ELSE NodePod(Node, s)

LEMMA NodePodFields ==
  ASSUME NEW name, NEW s, NEW pod, pod = NodePod(name, s)
  PROVE  /\ Wears(pod.labels, name)
         /\ pod.ports = ContainerPorts(s) /\ pod.probed = {Driver(s).rpc}
         /\ pod.listens = Driver(s).command.listens /\ pod.paths = Driver(s).command.paths
         /\ pod.script <=> Driver(s).script
         /\ pod.mounts = Driver(s).mounts /\ pod.volumes = Driver(s).volumes \union {"data"}
         /\ pod.init = Driver(s).init /\ pod.claim = <<>>
         /\ pod.configMap = IF "config" \in Driver(s).volumes THEN name \o <<"config">> ELSE <<>>
         /\ pod.requests = Driver(s).resources.requests
         /\ pod.limits = Driver(s).resources.limits
<1> DEFINE driver == Driver(s)
           labels == MergeLabels(MergeLabels(StandardLabels(name, "node", name), s.labels),
                                 SelectorLabels(name))
           configMap == IF "config" \in driver.volumes THEN name \o <<"config">> ELSE <<>>
<1>1. pod = [PlainPod(labels)
         EXCEPT !.ports = ContainerPorts(s), !.probed = {driver.rpc},
                !.listens = driver.command.listens, !.paths = driver.command.paths,
                !.script = driver.script,
                !.mounts = driver.mounts, !.volumes = driver.volumes \union {"data"},
                !.init = driver.init, !.configMap = configMap,
                !.requests = driver.resources.requests, !.limits = driver.resources.limits]
  BY DEF NodePod
<1>2. Wears(labels, name)
  BY MergedWears
<1> HIDE DEF driver, labels, configMap
<1>3. /\ pod.labels = labels
      /\ pod.ports = ContainerPorts(s) /\ pod.probed = {driver.rpc}
      /\ pod.listens = driver.command.listens /\ pod.paths = driver.command.paths
      /\ pod.script = driver.script
      /\ pod.mounts = driver.mounts /\ pod.volumes = driver.volumes \union {"data"}
      /\ pod.init = driver.init /\ pod.claim = <<>> /\ pod.configMap = configMap
      /\ pod.requests = driver.resources.requests
      /\ pod.limits = driver.resources.limits
  BY <1>1 DEF PlainPod
<1>4. QED
  BY <1>2, <1>3 DEF driver, configMap

LEMMA NodePodFits ==
  ASSUME NEW s \in Specs["NodeCluster"], s.protocol \in Protocols,
         NEW pod, pod = NodePod(Node, s)
  PROVE  /\ Wears(pod.labels, Node)
         /\ pod.ports = ContainerPorts(s)
         /\ pod.script <=> Driver(s).script
         /\ Fit(pod, NodeProcess(s))
         /\ pod.claim = <<>>
         /\ pod.configMap # <<>> => Driver(s).script
         /\ Driver(s).script => pod.configMap = Node \o <<"config">>
         /\ OrDefault(s.rpc, Driver(s).ports.rpc) \in NodeProcess(s).listens
<1> DEFINE d == Driver(s)
           process == NodeProcess(s)
<1>1. /\ Wears(pod.labels, Node)
      /\ pod.ports = ContainerPorts(s) /\ pod.probed = {d.rpc}
      /\ pod.listens = d.command.listens /\ pod.paths = d.command.paths
      /\ pod.script <=> d.script
      /\ pod.mounts = d.mounts /\ pod.volumes = d.volumes \union {"data"}
      /\ pod.init = d.init /\ pod.claim = <<>>
      /\ pod.configMap = IF "config" \in d.volumes THEN Node \o <<"config">> ELSE <<>>
      /\ pod.requests = d.resources.requests
      /\ pod.limits = d.resources.limits
  BY NodePodFields
<1>2. Coherent(s, d)
  BY DriverCoherent
<1>3. /\ process.listens = DriverProcess(s, d).listens
      /\ process.paths = DriverProcess(s, d).paths
  <2>1. CASE d.script
    <3>1. NodeConfigMap(Node, s).data = [listens |-> LuxStartupScript(s).listens,
                                         paths |-> LuxStartupScript(s).paths, routes |-> {}]
      BY DEF NodeConfigMap
    <3>2. process = NodeConfigMap(Node, s).data /\ DriverProcess(s, d) = LuxStartupScript(s)
      BY <2>1 DEF NodeProcess, DriverProcess
    <3>3. QED
      BY <3>1, <3>2
  <2>2. CASE ~d.script
    BY <1>1, <2>2 DEF NodeProcess, DriverProcess
  <2>3. QED
    BY <2>1, <2>2
<1>4. Port("rpc", d.rpc) \in pod.ports
  <2>1. d.rpc = OrDefault(s.rpc, d.ports.rpc)
    BY <1>2 DEF Coherent
  <2>2. QED
    BY <1>1, <2>1 DEF ContainerPorts
<1>5. Port("rpc", d.rpc).port = d.rpc
  BY DEF Port
<1> HIDE DEF d, process
<1>6. Fit(pod, process)
  BY <1>1, <1>2, <1>3, <1>4, <1>5 DEF Fit, Coherent
<1>7. OrDefault(s.rpc, d.ports.rpc) \in process.listens
  BY <1>2, <1>3 DEF Coherent
<1>8. (pod.configMap # <<>> => d.script) /\ (d.script => pod.configMap = Node \o <<"config">>)
  BY <1>1, <1>2 DEF Coherent
<1>9. QED
  BY <1>1, <1>6, <1>7, <1>8 DEF d, process

\* Every port that a Service of the NodeCluster has is a port of its pods.
LEMMA NodePorts ==
  ASSUME NEW s \in Specs["NodeCluster"], s.protocol \in Protocols
  PROVE  /\ \A p \in ServicePorts(s) :
              \E q \in ContainerPorts(s) :
                /\ q.name = p.name
                /\ p.name = "rpc" => q.port = OrDefault(s.rpc, Driver(s).ports.rpc)
         /\ \A name \in {"rpc", "p2p"} :
              \E q \in ContainerPorts(s) :
                /\ q.name = name
                /\ name = "rpc" => q.port = OrDefault(s.rpc, Driver(s).ports.rpc)
         /\ \A p \in ServicePorts(s) : p.target = p.name
<1> DEFINE defaults == Driver(s).ports
           rpc == Port("rpc", OrDefault(s.rpc, defaults.rpc))
           p2p == Port("p2p", OrDefault(s.p2p, defaults.p2p))
           metrics == Port("metrics", OrDefault(s.metrics, defaults.metrics))
<1>1. rpc \in ContainerPorts(s) /\ p2p \in ContainerPorts(s) /\ metrics \in ContainerPorts(s)
      /\ s.additional \subseteq ContainerPorts(s)
  BY DEF ContainerPorts
<1>2. /\ rpc.name = "rpc" /\ rpc.port = OrDefault(s.rpc, defaults.rpc)
      /\ p2p.name = "p2p" /\ metrics.name = "metrics"
  BY DEF Port
<1> HIDE DEF rpc, p2p, metrics, defaults
<1>3. \A p \in ServicePorts(s) :
        /\ p.target = p.name
        /\ \/ p.name \in {"rpc", "p2p", "metrics"}
           \/ \E q \in s.additional : q.name = p.name
  BY DEF ServicePorts, To
<1>4. ASSUME NEW name, \/ name \in {"rpc", "p2p", "metrics"}
                       \/ \E q \in s.additional : q.name = name
      PROVE  \E q \in ContainerPorts(s) :
               q.name = name /\ (name = "rpc" => q.port = OrDefault(s.rpc, defaults.rpc))
  <2>1. CASE name = "rpc"
    BY <1>1, <1>2, <2>1
  <2>2. CASE name # "rpc"
    BY <1>1, <1>2, <1>4, <2>2
  <2>3. QED
    BY <2>1, <2>2
<1>5. QED
  BY <1>3, <1>4 DEF defaults

LEMMA NodeNames ==
  /\ Node \o <<"headless">> = <<"n", "headless">>
  /\ Node \o <<"config">> = <<"n", "config">>
  /\ Node \o <<"pdb">> = <<"n", "pdb">>
  /\ \A i : Node \o <<i>> = <<"n", i>>
  BY OneAndOne DEF Node

LEMMA OrdinalFacts ==
  \A i \in 1 .. Len(Ordinals) : Ordinals[i] \notin {"headless", "config", "pdb"}
  BY OrdinalsAssumption

\* The objects of a NodeCluster, one by one.
LEMMA NodeObjects ==
  ASSUME NEW s \in Specs["NodeCluster"], s.protocol \in Protocols
  PROVE  /\ \A o \in NodeClusterObjects(s) :
              \/ o = NodeStatefulSet(Node, s)
              \/ o = NodeHeadlessService(Node, s)
              \/ o = NodeService(Node, s)
              \/ o = NodeConfigMap(Node, s)
              \/ o = PDB(Node)
              \/ \E i \in 1 .. Len(Ordinals) : o = PerPodService(Node, s, Ordinals[i])
         /\ NodeStatefulSet(Node, s) \in NodeClusterObjects(s)
         /\ NodeHeadlessService(Node, s) \in NodeClusterObjects(s)
         /\ NodeService(Node, s) \in NodeClusterObjects(s)
         /\ Driver(s).script => NodeConfigMap(Node, s) \in NodeClusterObjects(s)
<1>1. 1 .. s.replicas \subseteq 1 .. Len(Ordinals)
  BY SpecsAssumption DEF NodeClusterSpec
<1>2. QED
  BY <1>1 DEF NodeClusterObjects, If

LEMMA NodeKeys ==
  ASSUME NEW s
  PROVE  /\ NodeStatefulSet(Node, s).kind = "StatefulSet" /\ NodeStatefulSet(Node, s).name = Node
         /\ NodeHeadlessService(Node, s).kind = "Service"
         /\ NodeHeadlessService(Node, s).name = Node \o <<"headless">>
         /\ NodeService(Node, s).kind = "Service" /\ NodeService(Node, s).name = Node
         /\ NodeConfigMap(Node, s).kind = "ConfigMap"
         /\ NodeConfigMap(Node, s).name = Node \o <<"config">>
         /\ PDB(Node).kind = "PodDisruptionBudget" /\ PDB(Node).name = Node \o <<"pdb">>
         /\ \A i : /\ PerPodService(Node, s, i).kind = "Service"
                   /\ PerPodService(Node, s, i).name = Node \o <<i>>
  BY DEF NodeStatefulSet, NodeHeadlessService, NodeService, NodeConfigMap, PDB, PerPodService, Service

LEMMA NodeNamesBegin ==
  /\ Node[1] = "n" /\ Len(Node) = 1
  /\ \A i : (Node \o <<i>>)[1] = "n" /\ (Node \o <<i>>)[2] = i /\ Len(Node \o <<i>>) = 2
  BY NodeNames DEF Node

LEMMA NodeObjectShape ==
  ASSUME NEW s \in Specs["NodeCluster"], s.protocol \in Protocols,
         NEW o \in NodeClusterObjects(s)
  PROVE  o.name[1] = "n" /\ NodeShape(o, s)
<1>1. CASE o = NodeStatefulSet(Node, s)
  <2>1. o = [NodeStatefulSet(Node, s) EXCEPT !.serviceName = o.serviceName]
    BY <1>1 DEF NodeStatefulSet
  <2>2. QED
    BY <1>1, <2>1, NodeKeys, NodeNamesBegin DEF NodeShape
<1>2. CASE o \in {NodeHeadlessService(Node, s), NodeService(Node, s)}
  <2>1. o.selector = SelectorLabels(Node) /\ o.ports = ServicePorts(s)
    BY <1>2 DEF NodeHeadlessService, NodeService, Service
  <2>2. QED
    BY <1>2, <2>1, NodeKeys, NodeNamesBegin DEF NodeShape
<1>3. CASE o = NodeConfigMap(Node, s)
  BY <1>3, NodeKeys, NodeNamesBegin DEF NodeShape
<1>4. CASE o = PDB(Node)
  BY <1>4, NodeKeys, NodeNamesBegin DEF NodeShape
<1>5. ASSUME NEW i \in 1 .. Len(Ordinals), o = PerPodService(Node, s, Ordinals[i])
      PROVE  o.name[1] = "n" /\ NodeShape(o, s)
  <2> DEFINE name == Node \o <<Ordinals[i]>>
             selector == MergeLabels(SelectorLabels(Node), [pod_name |-> name])
  <2>1. o.kind = "Service" /\ o.name = name /\ o.selector = selector
    BY <1>5 DEF PerPodService, Service
  <2>2. \A p \in o.ports : p.target = p.name /\ p.name \in {"rpc", "p2p"}
    BY <1>5 DEF PerPodService, Service, To
  <2>3. name[1] = "n"
    BY NodeNamesBegin
  <2>4. NodeShape(o, s)
    BY <2>1, <2>2 DEF NodeShape
  <2>5. QED
    BY <2>1, <2>3, <2>4
<1>6. QED
  BY <1>1, <1>2, <1>3, <1>4, <1>5, NodeObjects

LEMMA NodeObjectsKeyed ==
  ASSUME NEW s \in Specs["NodeCluster"], s.protocol \in Protocols
  PROVE  Keyed(NodeClusterObjects(s))
<1> DEFINE objects == NodeClusterObjects(s)
           pod(i) == PerPodService(Node, s, Ordinals[i])
           headless == NodeHeadlessService(Node, s)
           service == NodeService(Node, s)
<1>1. \A i : pod(i).kind = "Service" /\ pod(i).name = Node \o <<Ordinals[i]>>
  BY NodeKeys
<1>2. /\ headless.kind = "Service" /\ headless.name = Node \o <<"headless">>
      /\ service.kind = "Service" /\ service.name = Node
  BY NodeKeys
<1>3. \A i \in 1 .. Len(Ordinals) : pod(i).name # headless.name /\ pod(i).name # service.name
  <2>1. ASSUME NEW i \in 1 .. Len(Ordinals)
        PROVE  pod(i).name # headless.name /\ pod(i).name # service.name
    <3>1. Ordinals[i] # "headless"
      BY OrdinalFacts
    <3> DEFINE x == pod(i).name
    <3>2. x = Node \o <<Ordinals[i]>>
      BY <1>1
    <3> HIDE DEF pod, headless, service, x
    <3>3. x[2] = Ordinals[i] /\ Len(x) = 2
      BY <3>2, NodeNamesBegin
    <3>4. headless.name[2] = "headless" /\ Len(service.name) = 1
      BY <1>2, NodeNamesBegin
    <3>5. pod(i).name[2] = Ordinals[i] /\ Len(pod(i).name) = 2
      BY <3>3 DEF x
    <3>6. QED
      BY <3>1, <3>4, <3>5
  <2>2. QED
    BY <2>1
<1>4. headless.name # service.name
  <2>1. Len(headless.name) = 2 /\ Len(service.name) = 1
    BY <1>2, NodeNamesBegin
  <2>2. QED
    BY <2>1
<1>5. \A i, j : pod(i).name = pod(j).name => pod(i) = pod(j)
  <2>1. \A i : pod(i).name[2] = Ordinals[i]
    BY <1>1, NodeNamesBegin
  <2>2. ASSUME NEW i, NEW j, pod(i).name = pod(j).name
        PROVE  pod(i) = pod(j)
    <3>1. Ordinals[i] = Ordinals[j]
      BY <2>1, <2>2
    <3>2. QED
      BY <3>1
  <2>3. QED
    BY <2>2
<1>6. \A o \in objects :
        \/ o.kind # "Service" /\ o \in {NodeStatefulSet(Node, s), NodeConfigMap(Node, s), PDB(Node)}
        \/ o = headless
        \/ o = service
        \/ \E i \in 1 .. Len(Ordinals) : o = pod(i)
  BY NodeObjects, NodeKeys
<1>7. ASSUME NEW a \in objects, NEW b \in objects, SameKey(a, b)
      PROVE  a = b
  <2>1. CASE a.kind = "Service"
    <3> HIDE DEF pod, headless, service, objects
    <3>1. a = headless \/ a = service \/ \E i \in 1 .. Len(Ordinals) : a = pod(i)
      BY <1>6, <2>1
    <3>2. b = headless \/ b = service \/ \E i \in 1 .. Len(Ordinals) : b = pod(i)
      BY <1>6, <1>7, <2>1 DEF SameKey
    <3>3. QED
      BY <1>3, <1>4, <1>5, <1>7, <3>1, <3>2 DEF SameKey
  <2>2. CASE a.kind # "Service"
    <3>1. a \in {NodeStatefulSet(Node, s), NodeConfigMap(Node, s), PDB(Node)}
      BY <1>1, <1>2, <1>6, <2>2
    <3>2. b \in {NodeStatefulSet(Node, s), NodeConfigMap(Node, s), PDB(Node)}
      BY <1>1, <1>2, <1>6, <1>7, <2>2 DEF SameKey
    <3>3. QED
      BY <1>7, <3>1, <3>2, NodeKeys DEF SameKey
  <2>3. QED
    BY <2>1, <2>2
<1>8. QED
  BY <1>7 DEF Keyed, objects

(***************************************************************************)
(* Steps keep the invariant.                                               *)
(***************************************************************************)
\* A shape of the spec before is one of the spec now, unless the pass made an
\* object of that key.
LEMMA NodeShapeStays ==
  ASSUME NEW s \in Specs["NodeCluster"], s.protocol \in Protocols, NEW before,
         NEW o, NodeShape(o, before),
         \A new \in NodeClusterObjects(s) : ~SameKey(o, new)
  PROVE  NodeShape(o, s)
<1>1. /\ NodeStatefulSet(Node, s) \in NodeClusterObjects(s)
      /\ NodeHeadlessService(Node, s) \in NodeClusterObjects(s)
      /\ NodeService(Node, s) \in NodeClusterObjects(s)
  BY NodeObjects
<1>2. /\ ~(o.kind = "StatefulSet" /\ o.name = Node)
      /\ ~(o.kind = "Service" /\ o.name \in {Node, Node \o <<"headless">>})
  BY <1>1, NodeKeys DEF SameKey
<1>3. ASSUME o.kind = "StatefulSet",
             o = [NodeStatefulSet(Node, before) EXCEPT !.serviceName = o.serviceName]
      PROVE  o.name = Node
  BY <1>3 DEF NodeStatefulSet
<1>4. QED
  BY <1>2, <1>3 DEF NodeShape

LEMMA AlikeNodeShape ==
  ASSUME NEW s, NEW new, NodeShape(new, s), NEW o, Alike(o, new)
  PROVE  NodeShape(o, s)
<1>1. CASE new.kind # "StatefulSet"
  BY <1>1 DEF Alike
<1>2. CASE new.kind = "StatefulSet"
  <2>1. new = [NodeStatefulSet(Node, s) EXCEPT !.serviceName = new.serviceName]
    BY <1>2 DEF NodeShape, PDB
  <2>2. o = [new EXCEPT !.serviceName = o.serviceName] /\ o.kind = "StatefulSet"
    BY <1>2 DEF Alike, SameKey
  <2>3. new = [kind |-> "StatefulSet", name |-> Node, selector |-> SelectorLabels(Node),
               serviceName |-> new.serviceName, pod |-> NodePod(Node, s)]
    BY <2>1 DEF NodeStatefulSet
  <2>4. o = [kind |-> "StatefulSet", name |-> Node, selector |-> SelectorLabels(Node),
             serviceName |-> o.serviceName, pod |-> NodePod(Node, s)]
    BY <2>2, <2>3
  <2>5. o = [NodeStatefulSet(Node, s) EXCEPT !.serviceName = o.serviceName]
    BY <2>4 DEF NodeStatefulSet
  <2>6. QED
    BY <2>2, <2>5 DEF NodeShape
<1>3. QED
  BY <1>1, <1>2

LEMMA AppliedNode ==
  ASSUME WiringInv, NEW s \in Specs["NodeCluster"], s.protocol \in Protocols,
         api' = Applied(NodeClusterObjects(s))
  PROVE  /\ Keyed(api')
         /\ Lettered'
         /\ \A o \in api' : o.name[1] # "n" => Shape(o) /\ Relies(o, api')
         /\ NodeInv'
<1> DEFINE objects == NodeClusterObjects(s)
<1>1. \A new \in objects : new.name[1] = "n" /\ NodeShape(new, s) /\ Orderly(new)
  BY NodeObjectShape, NodeShapesAreOrderly
<1>2. \A o \in api : Orderly(o)
  BY ApiIsOrderly
<1>3. Keyed(objects)
  BY NodeObjectsKeyed
<1>4. /\ HasKey(objects, "StatefulSet", Node)
      /\ Driver(s).script => NodeConfigMap(Node, s) \in objects
      /\ NodeConfigMap(Node, s).kind = "ConfigMap"
  BY NodeObjects, NodeKeys DEF HasKey
<1>5. \A o \in api : (\A new \in objects : ~SameKey(o, new)) /\ NodeInv /\ o.name[1] = "n"
        => NodeShape(o, s)
  BY NodeShapeStays DEF NodeInv
<1>6. api' = Applied(objects)
  OBVIOUS
<1> HIDE DEF objects
<1>7. \A k, name : HasKey(api, k, name) \/ HasKey(objects, k, name) => HasKey(api', k, name)
  BY <1>1, <1>2, <1>6, KeysStay
<1>8. Keyed(api')
  BY <1>1, <1>2, <1>3, <1>6, AppliedFacts DEF WiringInv
<1>9. /\ \A o : o.name[1] # "n" => (o \in api' <=> o \in api)
      /\ \A o \in api' : o.name[1] = "n" \/ o \in api
  BY <1>1, <1>2, <1>6, OthersStay
<1>10. Lettered'
  <2>1. "NodeCluster" \in Kinds /\ Letter["NodeCluster"] = "n"
    BY DEF Kinds, Letter
  <2>2. QED
    BY <1>9, <2>1 DEF Lettered, WiringInv
<1>11. ASSUME NEW o \in api', o.name[1] # "n"
       PROVE  Shape(o) /\ Relies(o, api')
  <2>1. Shape(o) /\ Relies(o, api)
    BY <1>9, <1>11 DEF WiringInv
  <2>2. QED
    BY <1>7, <2>1, ReliesOnKeys
<1>12. ASSUME NEW o \in api', o.name[1] = "n"
       PROVE  NodeShape(o, s)
  <2>1. CASE o \in api /\ \A new \in objects : ~SameKey(o, new)
    BY <1>5, <1>12, <2>1 DEF WiringInv
  <2>2. ASSUME NEW new \in objects, Alike(o, new)
        PROVE  NodeShape(o, s)
    BY <1>1, <2>2, AlikeNodeShape
  <2>3. QED
    BY <1>1, <1>2, <1>6, <2>1, <2>2, AppliedFacts
<1>13. Driver(s).script => NodeConfigMap(Node, s) \in api'
  <2>1. ASSUME Driver(s).script
        PROVE  NodeConfigMap(Node, s) \in api'
    <3>1. NodeConfigMap(Node, s) \in objects
      BY <1>4, <2>1
    <3>2. PICK o \in api' : Alike(o, NodeConfigMap(Node, s))
      BY <1>1, <1>2, <1>6, <3>1, AppliedFacts
    <3>3. QED
      BY <1>4, <3>2 DEF Alike
  <2>2. QED
    BY <2>1
<1>14. NodeInv'
  BY <1>4, <1>7, <1>12, <1>13 DEF NodeInv
<1>15. QED
  BY <1>8, <1>10, <1>11, <1>14

LEMMA InitWiring ==
  ASSUME Init
  PROVE  WiringInv
<1> PICK stack \in Stacks :
      LET Choices(kind) == IF kind \in stack THEN Specs[kind] ELSE {<<>>}
      IN  /\ spec \in [NodeCluster : Choices("NodeCluster"), Indexer : Choices("Indexer"),
                       Gateway : Choices("Gateway"), Explorer : Choices("Explorer"),
                       Bridge : Choices("Bridge"), Cloud : Choices("Cloud")]
          /\ queued = stack
  BY DEF Init
<1> DEFINE Choices(kind) == IF kind \in stack THEN Specs[kind] ELSE {<<>>}
<1>1. stack \subseteq Kinds
  BY StacksAssumption
<1>2. /\ DOMAIN spec = Kinds
      /\ spec = [kind \in Kinds |-> spec[kind]]
      /\ \A kind \in Kinds : spec[kind] \in Choices(kind)
  BY DEF Kinds
<1>3. \A kind \in Kinds : Present(kind) => spec[kind] \in Specs[kind]
  BY <1>2 DEF Present
<1>4. \A kind \in stack : Present(kind)
  BY <1>1, <1>2, SpecsAreThere DEF Present
<1>5. Typed
  BY <1>1, <1>2, <1>3, <1>4 DEF Typed
<1>6. Settled
  <2>1. Present("Indexer") => "Indexer" \in queued
    BY <1>2 DEF Present, Kinds
  <2>2. QED
    BY <2>1 DEF Settled
<1>7. api = {}
  BY DEF Init
<1>8. QED
  BY <1>5, <1>6, <1>7 DEF WiringInv, Keyed, Lettered, NodeInv

\* A pass for a resource that is there keeps what is said of the objects.
LEMMA ObjectsWholesome ==
  ASSUME WiringInv, NEW kind \in Kinds \ {"NodeCluster"}, Present(kind), NEW chains
  PROVE  Wholesome(Objects(kind, chains), Letter[kind])
<1>1. spec[kind] \in Specs[kind]
  BY DEF WiringInv, Typed
<1>2. CASE kind = "Indexer"
  BY <1>1, <1>2, IndexerWholesome DEF Objects, Letter
<1>3. CASE kind = "Gateway"
  BY <1>1, <1>3, GatewayWholesome DEF Objects, Letter
<1>4. CASE kind = "Explorer"
  BY <1>1, <1>4, ExplorerWholesome DEF Objects, Letter
<1>5. CASE kind = "Bridge"
  BY <1>1, <1>5, BridgeWholesome DEF Objects, Letter
<1>6. CASE kind = "Cloud"
  BY <1>1, <1>6, CloudWholesome DEF Objects, Letter
<1>7. QED
  BY <1>2, <1>3, <1>4, <1>5, <1>6 DEF Kinds

LEMMA AppliedObjects ==
  ASSUME WiringInv, NEW kind \in Kinds, Present(kind), NEW chains,
         api' = Applied(Objects(kind, chains))
  PROVE  /\ Keyed(api')
         /\ Lettered'
         /\ \A o \in api' : o.name[1] # "n" => Shape(o) /\ Relies(o, api')
         /\ NodeInv'
<1>1. CASE kind # "NodeCluster"
  <2>1. Wholesome(Objects(kind, chains), Letter[kind])
    BY <1>1, ObjectsWholesome
  <2>2. Letter[kind] # "n"
    BY <1>1, Letters
  <2>3. QED
    BY <2>1, <2>2, AppliedWholesome
<1>2. CASE kind = "NodeCluster"
  <2> DEFINE s == spec["NodeCluster"]
  <2>1. s \in Specs["NodeCluster"]
    BY <1>2 DEF WiringInv, Typed
  <2>2. api' = Applied(NodeClusterObjects(s))
    BY <1>2 DEF Objects
  <2>3. CASE s.protocol \in Protocols
    BY <2>1, <2>2, <2>3, AppliedNode
  <2>4. CASE s.protocol \notin Protocols
    <3>1. NodeClusterObjects(s) = {}
      BY <2>4 DEF NodeClusterObjects, If
    <3>2. api' = api
      BY <2>2, <3>1 DEF Applied
    <3>3. QED
      BY <3>2 DEF WiringInv, NodeInv, Lettered
  <2>5. QED
    BY <2>3, <2>4
<1>3. QED
  BY <1>1, <1>2

\* What a pass makes of an Indexer stays until its next.
LEMMA SettledByPass ==
  ASSUME WiringInv, NEW kind \in Kinds, Present(kind), NEW chains,
         api' = Applied(Objects(kind, chains)), queued' = queued \ {kind}, UNCHANGED spec
  PROVE  Settled'
<1> DEFINE s == spec["Indexer"]
           port == OrDefault(s.port, 8091)
           svc == CloudService(TheIndexer, port)
           ing == BuildIngress(TheIndexer, s.ingress, TheIndexer, port)
<1>1. /\ svc.kind = "Service" /\ svc.name = TheIndexer
      /\ ing.kind = "Ingress" /\ ing.name = TheIndexer
  BY DEF CloudService, Service, BuildIngress
<1>2. SUFFICES ASSUME Present("Indexer"), "Indexer" \notin queued'
               PROVE  svc \in api' /\ (s.ingress # <<>> => ing \in api')
  BY DEF Settled, Present
<1>3. CASE kind = "Indexer"
  <2> DEFINE objects == Objects(kind, chains)
  <2>1. objects = IndexerObjects(s)
    BY <1>3 DEF Objects
  <2>2. svc \in objects /\ (s.ingress # <<>> => ing \in objects)
    BY <2>1 DEF IndexerObjects, If
  <2>3. /\ \A o \in api : Orderly(o)
        /\ \A o \in objects : Orderly(o)
    BY <1>3, ApiIsOrderly, ObjectsWholesome, ShapesAreOrderly DEF Wholesome
  <2> HIDE DEF svc, ing, objects
  <2>4. \A new \in objects : \E o \in api' : Alike(o, new)
    BY <2>3, AppliedFacts DEF objects
  <2>5. QED
    BY <1>1, <2>2, <2>4 DEF Alike
<1>4. CASE kind # "Indexer"
  <2>1. svc \in api /\ (s.ingress # <<>> => ing \in api)
    BY <1>2, <1>4 DEF WiringInv, Settled
  <2> HIDE DEF svc, ing
  <2>2. svc.name[1] = "i" /\ ing.name[1] = "i"
    BY <1>1, Letters
  <2>3. Letter[kind] # "i"
    BY <1>4 DEF Letter, Kinds
  <2>4. CASE kind # "NodeCluster"
    <3>1. Wholesome(Objects(kind, chains), Letter[kind])
      BY <2>4, ObjectsWholesome
    <3>2. /\ \A o \in api : Orderly(o)
          /\ \A o \in Objects(kind, chains) : Orderly(o) /\ o.name[1] = Letter[kind]
      BY <3>1, ApiIsOrderly, ShapesAreOrderly DEF Wholesome
    <3>3. QED
      BY <2>1, <2>2, <2>3, <3>2, OthersStay
  <2>5. CASE kind = "NodeCluster" /\ spec["NodeCluster"].protocol \in Protocols
    <3> DEFINE objects == NodeClusterObjects(spec["NodeCluster"])
    <3>1. spec["NodeCluster"] \in Specs["NodeCluster"]
      BY <2>5 DEF WiringInv, Typed
    <3>2. api' = Applied(objects)
      BY <2>5 DEF Objects
    <3>3. /\ \A o \in api : Orderly(o)
          /\ \A o \in objects : Orderly(o) /\ o.name[1] = "n"
      BY <2>5, <3>1, ApiIsOrderly, NodeObjectShape, NodeShapesAreOrderly
    <3> HIDE DEF objects
    <3>4. \A o : o.name[1] # "n" => (o \in Applied(objects) <=> o \in api)
      BY <3>3, OthersStay
    <3>5. QED
      BY <2>1, <2>2, <3>2, <3>4
  <2>6. CASE kind = "NodeCluster" /\ spec["NodeCluster"].protocol \notin Protocols
    <3>1. NodeClusterObjects(spec["NodeCluster"]) = {}
      BY <2>6 DEF NodeClusterObjects, If
    <3>2. api' = Applied({})
      BY <2>6, <3>1 DEF Objects
    <3>3. api' = api
      BY <3>2 DEF Applied
    <3>4. QED
      BY <2>1, <3>3
  <2>7. QED
    BY <2>4, <2>5, <2>6
<1>5. QED
  BY <1>3, <1>4

LEMMA ReconcileWiring ==
  ASSUME WiringInv, NEW kind \in Kinds, Reconcile(kind)
  PROVE  WiringInv'
<1>1. Present(kind)
  BY DEF Reconcile, WiringInv, Typed
<1>2. PICK chains \in {SubnetChains(Blockchains), {}} : api' = Applied(Objects(kind, chains))
  BY DEF Reconcile
<1>3. queued' = queued \ {kind} /\ UNCHANGED spec
  BY DEF Reconcile
<1>4. /\ Keyed(api')
      /\ Lettered'
      /\ \A o \in api' : o.name[1] # "n" => Shape(o) /\ Relies(o, api')
      /\ NodeInv'
  BY <1>1, <1>2, AppliedObjects
<1>5. Settled'
  BY <1>1, <1>2, <1>3, SettledByPass
<1>6. Typed'
  BY <1>3 DEF Typed, WiringInv, Present
<1>7. QED
  BY <1>4, <1>5, <1>6 DEF WiringInv

LEMMA EditWiring ==
  ASSUME WiringInv, NEW kind \in Kinds, Edit(kind)
  PROVE  WiringInv'
<1>1. PICK s \in Specs[kind] : spec' = [spec EXCEPT ![kind] = s]
  BY DEF Edit
<1>2. queued' = queued \union {kind} /\ api' = api
  BY DEF Edit
<1>3. Typed
  BY DEF WiringInv
<1>4. /\ spec'[kind] = s
      /\ \A other \in Kinds \ {kind} : spec'[other] = spec[other]
      /\ DOMAIN spec' = Kinds
      /\ spec' = [k \in Kinds |-> spec'[k]]
  BY <1>1, <1>3 DEF Typed
<1>5. Typed'
  <2>1. s # <<>>
    BY SpecsAreThere
  <2>2. \A other \in Kinds : spec'[other] # <<>> => spec'[other] \in Specs[other]
    BY <1>3, <1>4 DEF Typed, Present
  <2>3. queued' \subseteq {k \in Kinds : spec'[k] # <<>>}
    BY <1>2, <1>3, <1>4, <2>1 DEF Typed, Present
  <2>4. QED
    BY <1>4, <2>2, <2>3 DEF Typed, Present
<1>6. Settled'
  <2>1. CASE kind = "Indexer"
    BY <1>2, <2>1 DEF Settled
  <2>2. CASE kind # "Indexer"
    <3>1. spec'["Indexer"] = spec["Indexer"]
      BY <1>4, <2>2 DEF Kinds
    <3>2. QED
      BY <1>2, <3>1 DEF Settled, WiringInv, Present
  <2>3. QED
    BY <2>1, <2>2
<1>7. QED
  BY <1>2, <1>5, <1>6 DEF WiringInv, Lettered, NodeInv

\* The invariant: what each pass makes is whole, and no pass undoes another's.
THEOREM WiringInvariant == Spec => []WiringInv
<1>1. Init => WiringInv
  BY InitWiring
<1>2. WiringInv /\ [Next]_vars => WiringInv'
  <2> SUFFICES ASSUME WiringInv, [Next]_vars
               PROVE  WiringInv'
    OBVIOUS
  <2>1. ASSUME NEW kind \in Kinds, Reconcile(kind)
        PROVE  WiringInv'
    BY <2>1, ReconcileWiring
  <2>2. ASSUME NEW kind \in Kinds, Edit(kind)
        PROVE  WiringInv'
    BY <2>2, EditWiring
  <2>3. CASE UNCHANGED vars
    BY <2>3 DEF vars, WiringInv, Typed, Present, Lettered, NodeInv, Settled
  <2>4. QED
    BY <2>1, <2>2, <2>3 DEF Next
<1>3. QED
  BY <1>1, <1>2, PTL DEF Spec

(***************************************************************************)
(* What the invariant says of the workloads.                               *)
(***************************************************************************)
LEMMA WholeByFit ==
  ASSUME NEW pod, NEW process, Fit(pod, process)
  PROVE  LET mounted == {m[2] : m \in pod.mounts}
         IN  /\ {m[1] : m \in pod.mounts \union UNION {c.mounts : c \in pod.init}} \subseteq pod.volumes
             /\ \A m, n \in pod.mounts : m[2] = n[2] => m = n
             /\ (pod.paths \union process.paths) \ {"/keys"} \subseteq mounted
             /\ pod.probed \subseteq process.listens
             /\ pod.probed \subseteq {p.port : p \in pod.ports}
             /\ \A i \in 1 .. 2 : pod.requests[i] <= pod.limits[i]
  BY DEF Fit

LEMMA WorkloadKinds ==
  ASSUME NEW w \in Workloads
  PROVE  w \in api /\ w.kind \in {"StatefulSet", "Deployment"}
  BY DEF Workloads, Of

\* A workload is the NodeCluster's StatefulSet or another resource's Deployment.
LEMMA DeploymentFacts ==
  ASSUME WiringInv, NEW w \in Workloads, w.name[1] # "n"
  PROVE  /\ w.kind = "Deployment" /\ DeploymentShape(w) /\ Relies(w, api)
         /\ w.selector = SelectorLabels(w.name)
         /\ Process(w) = w.pod
<1>1. w.kind = "Deployment" /\ DeploymentShape(w) /\ Relies(w, api)
  BY WorkloadKinds DEF WiringInv, Shape
<1>2. w.selector = SelectorLabels(w.name)
  BY <1>1 DEF DeploymentShape, Deployment
<1>3. Process(w) = w.pod
  BY <1>1 DEF Process, DeploymentShape
<1>4. QED
  BY <1>1, <1>2, <1>3

LEMMA StatefulSetFacts ==
  ASSUME WiringInv, NEW w \in Workloads, w.name[1] = "n",
         NEW s \in Specs["NodeCluster"], s.protocol \in Protocols,
         Driver(s).script => NodeConfigMap(Node, s) \in api,
         NodeShape(w, s)
  PROVE  /\ w.kind = "StatefulSet" /\ w.name = Node
         /\ w.selector = SelectorLabels(w.name)
         /\ w.pod = NodePod(Node, s)
         /\ Process(w) = NodeProcess(s)
<1>1. w.kind = "StatefulSet" /\ w = [NodeStatefulSet(Node, s) EXCEPT !.serviceName = w.serviceName]
  BY WorkloadKinds DEF NodeShape, PDB
<1>2. /\ w.name = Node /\ w.selector = SelectorLabels(Node) /\ w.pod = NodePod(Node, s)
  BY <1>1 DEF NodeStatefulSet
<1>3. /\ w.pod.script <=> Driver(s).script
      /\ Driver(s).script => w.pod.configMap = Node \o <<"config">>
  BY <1>2, NodePodFits
<1>4. CASE w.pod.script
  <2> DEFINE cm == NodeConfigMap(Node, s)
             maps == {o \in Of("ConfigMap") : o.name = w.pod.configMap}
  <2>1. cm \in api /\ cm.kind = "ConfigMap" /\ cm.name = w.pod.configMap
    BY <1>3, <1>4, NodeKeys
  <2> HIDE DEF cm
  <2>2. maps = {cm}
    BY <2>1 DEF Of, WiringInv, Keyed, SameKey
  <2>3. {m.data : m \in maps} = {cm.data}
    BY <2>2
  <2>4. Process(w) = cm.data
    BY <1>4, <2>3 DEF Process
  <2>5. QED
    BY <1>1, <1>2, <1>3, <1>4, <2>4 DEF NodeProcess, cm
<1>5. CASE ~w.pod.script
  BY <1>1, <1>2, <1>3, <1>5 DEF Process, NodeProcess
<1>6. QED
  BY <1>4, <1>5

\* The NodeCluster has a spec its objects are of, once it has a workload.
LEMMA NodeSpec ==
  ASSUME WiringInv, NEW o \in api, o.name[1] = "n"
  PROVE  \E s \in Specs["NodeCluster"] :
           /\ s.protocol \in Protocols
           /\ HasKey(api, "StatefulSet", Node)
           /\ Driver(s).script => NodeConfigMap(Node, s) \in api
           /\ \A other \in api : other.name[1] = "n" => NodeShape(other, s)
  BY DEF WiringInv, NodeInv

LEMMA WholePods ==
  ASSUME WiringInv
  PROVE  PodsAreWhole
<1> SUFFICES ASSUME NEW w \in Workloads
             PROVE  LET pod == w.pod
                        mounted == {m[2] : m \in pod.mounts}
                    IN  /\ {m[1] : m \in pod.mounts \union UNION {c.mounts : c \in pod.init}} \subseteq pod.volumes
                        /\ \A m, n \in pod.mounts : m[2] = n[2] => m = n
                        /\ pod.configMap # <<>> => \E cm \in Of("ConfigMap") : cm.name = pod.configMap
                        /\ pod.claim # <<>> => \E pvc \in Of("PersistentVolumeClaim") : pvc.name = pod.claim
                        /\ (pod.paths \union Process(w).paths) \ {"/keys"} \subseteq mounted
                        /\ pod.probed \subseteq Process(w).listens
                        /\ pod.probed \subseteq {p.port : p \in pod.ports}
                        /\ \A i \in 1 .. 2 : pod.requests[i] <= pod.limits[i]
  BY DEF PodsAreWhole
<1> DEFINE pod == w.pod
           process == Process(w)
<1>1. CASE w.name[1] # "n"
  <2>1. Fit(pod, process)
    BY <1>1, DeploymentFacts DEF DeploymentShape
  <2>2. /\ pod.configMap # <<>> => \E cm \in Of("ConfigMap") : cm.name = pod.configMap
        /\ pod.claim # <<>> => \E pvc \in Of("PersistentVolumeClaim") : pvc.name = pod.claim
    BY <1>1, DeploymentFacts DEF Relies, HasKey, Of
  <2> HIDE DEF pod, process
  <2>3. QED
    BY <2>1, <2>2, WholeByFit DEF pod, process
<1>2. CASE w.name[1] = "n"
  <2>1. PICK s \in Specs["NodeCluster"] :
          /\ s.protocol \in Protocols
          /\ Driver(s).script => NodeConfigMap(Node, s) \in api
          /\ NodeShape(w, s)
    BY <1>2, NodeSpec, WorkloadKinds
  <2>2. pod = NodePod(Node, s) /\ process = NodeProcess(s)
    BY <1>2, <2>1, StatefulSetFacts
  <2> HIDE DEF pod, process
  <2>3. /\ Fit(pod, process) /\ pod.claim = <<>>
        /\ pod.configMap # <<>> => Driver(s).script
        /\ Driver(s).script => pod.configMap = Node \o <<"config">>
    BY <2>1, <2>2, NodePodFits
  <2>4. pod.configMap # <<>> => \E cm \in Of("ConfigMap") : cm.name = pod.configMap
    BY <2>1, <2>3, NodeKeys DEF Of
  <2>5. QED
    BY <2>3, <2>4, WholeByFit DEF pod, process
<1>3. QED
  BY <1>1, <1>2

\* The pods of a workload wear its name, and no two workloads have one name.
LEMMA WorkloadFacts ==
  ASSUME WiringInv, NEW w \in Workloads
  PROVE  w.selector = SelectorLabels(w.name) /\ Wears(w.pod.labels, w.name)
         /\ (w.kind = "StatefulSet" <=> w.name[1] = "n")
<1>1. CASE w.name[1] # "n"
  BY <1>1, DeploymentFacts DEF DeploymentShape
<1>2. CASE w.name[1] = "n"
  <2>1. PICK s \in Specs["NodeCluster"] :
          /\ s.protocol \in Protocols
          /\ Driver(s).script => NodeConfigMap(Node, s) \in api
          /\ NodeShape(w, s)
    BY <1>2, NodeSpec, WorkloadKinds
  <2>2. /\ w.kind = "StatefulSet" /\ w.name = Node /\ w.selector = SelectorLabels(w.name)
        /\ w.pod = NodePod(Node, s)
    BY <1>2, <2>1, StatefulSetFacts
  <2>3. QED
    BY <1>2, <2>1, <2>2, NodePodFits
<1>3. QED
  BY <1>1, <1>2

LEMMA WorkloadNames ==
  ASSUME WiringInv, NEW v \in Workloads, NEW w \in Workloads, v.name = w.name
  PROVE  v = w
<1>1. v.kind = w.kind
  BY WorkloadFacts, WorkloadKinds
<1>2. QED
  BY <1>1, WorkloadKinds DEF WiringInv, Keyed, SameKey

LEMMA LabelsWorn ==
  ASSUME WiringInv, NEW w \in Workloads
  PROVE  /\ \A labels \in PodLabels(w) : Wears(labels, w.name)
         /\ \E labels \in PodLabels(w) : TRUE
<1>1. Wears(w.pod.labels, w.name)
  BY WorkloadFacts
<1>2. CASE w.kind = "Deployment"
  BY <1>1, <1>2 DEF PodLabels
<1>3. CASE w.kind # "Deployment"
  <2>1. PodLabels(w) = {MergeLabels(w.pod.labels, [pod_name |-> w.name \o <<Ordinals[i]>>])
                          : i \in DOMAIN Ordinals}
    BY <1>3 DEF PodLabels
  <2>2. \A labels \in PodLabels(w) : Wears(labels, w.name)
    BY <1>1, <2>1, NamedWears
  <2>3. 1 \in DOMAIN Ordinals
    BY OrdinalsAssumption
  <2>4. QED
    BY <2>1, <2>2, <2>3
<1>4. QED
  BY <1>2, <1>3

LEMMA SelectedByName ==
  ASSUME WiringInv, NEW w \in Workloads
  PROVE  Selected(SelectorLabels(w.name)) = {w}
<1>1. ASSUME NEW v \in Workloads
      PROVE  (\E labels \in PodLabels(v) : Selects(SelectorLabels(w.name), labels)) <=> v = w
  <2>1. \A labels \in PodLabels(v) : Selects(SelectorLabels(w.name), labels) <=> w.name = v.name
    BY LabelsWorn, SelectsItsName
  <2>2. QED
    BY <2>1, LabelsWorn, WorkloadNames
<1>2. QED
  BY <1>1 DEF Selected

\* A pod's own Service selects the workload it is a pod of.
LEMMA SelectedByPodName ==
  ASSUME WiringInv, NEW w \in Workloads, w.kind = "StatefulSet", NEW i \in 1 .. Len(Ordinals),
         NEW pod, pod = w.name \o <<Ordinals[i]>>
  PROVE  Selected(MergeLabels(SelectorLabels(w.name), [pod_name |-> pod])) = {w}
<1> DEFINE selector == MergeLabels(SelectorLabels(w.name), [pod_name |-> pod])
           labels == MergeLabels(w.pod.labels, [pod_name |-> pod])
<1>1. /\ DOMAIN selector = {"name", "instance", "pod_name"}
      /\ selector["name"] = w.name /\ selector["instance"] = w.name
      /\ selector["pod_name"] = pod
  BY SelectorKeys DEF MergeLabels
<1>2. ASSUME NEW v \in Workloads, NEW worn \in PodLabels(v), Selects(selector, worn)
      PROVE  v = w
  <2>1. worn["name"] = w.name
    BY <1>1, <1>2 DEF Selects
  <2>2. worn["name"] = v.name
    BY <1>2, LabelsWorn DEF Wears
  <2>3. QED
    BY <2>1, <2>2, WorkloadNames
<1>3. labels \in PodLabels(w)
  <2>1. i \in DOMAIN Ordinals
    BY OrdinalsAssumption
  <2>2. QED
    BY <2>1 DEF PodLabels
<1>4. Selects(selector, labels)
  <2>1. Wears(w.pod.labels, w.name)
    BY WorkloadFacts
  <2>2. Wears(labels, w.name)
    BY <2>1, NamedWears
  <2>3. "pod_name" \in DOMAIN labels /\ labels["pod_name"] = pod
    BY DEF MergeLabels
  <2> HIDE DEF selector, labels
  <2>4. QED
    BY <1>1, <2>2, <2>3 DEF Selects, Wears
<1> HIDE DEF selector, labels
<1>5. Selected(selector) = {w}
  BY <1>2, <1>3, <1>4 DEF Selected
<1>6. QED
  BY <1>5 DEF selector

LEMMA DeploymentOfKey ==
  ASSUME NEW name, HasKey(api, "Deployment", name)
  PROVE  \E w \in Workloads : w \in Of("Deployment") /\ w.name = name
  BY DEF HasKey, Workloads, Of

\* A Service of another resource than the NodeCluster.
LEMMA ServiceFinds ==
  ASSUME WiringInv, NEW svc \in Of("Service"), svc.name[1] # "n"
  PROVE  \E w \in Workloads :
           /\ Selected(svc.selector) = {w}
           /\ \A p \in svc.ports :
                p.target # "" =>
                  \E q \in w.pod.ports :
                    /\ q.name = p.target
                    /\ p.name = (IF w.kind = "StatefulSet" THEN "rpc" ELSE "http") =>
                         q.port \in Process(w).listens
<1>1. svc \in api /\ ServiceShape(svc) /\ HasKey(api, "Deployment", svc.name)
  BY DEF Of, WiringInv, Shape, Relies
<1>2. PICK w \in Workloads : w.name = svc.name
  BY <1>1, DeploymentOfKey
<1>3. Selected(svc.selector) = {w}
  BY <1>1, <1>2, SelectedByName DEF ServiceShape
<1>4. DeploymentShape(w) /\ Process(w) = w.pod
  BY <1>2, DeploymentFacts
<1>5. ASSUME NEW p \in svc.ports, p.target # ""
      PROVE  \E q \in w.pod.ports : q.name = p.target /\ q.port \in Process(w).listens
  <2>1. p.target = "http" /\ svc.name[1] \in {"i", "g", "c"}
    BY <1>1, <1>5 DEF ServiceShape
  <2>2. QED
    BY <1>2, <1>4, <2>1 DEF DeploymentShape
<1>6. QED
  BY <1>3, <1>5

LEMMA NodeServiceFinds ==
  ASSUME WiringInv, NEW svc \in Of("Service"), svc.name[1] = "n"
  PROVE  \E w \in Workloads :
           /\ Selected(svc.selector) = {w}
           /\ \A p \in svc.ports :
                p.target # "" =>
                  \E q \in w.pod.ports :
                    /\ q.name = p.target
                    /\ p.name = (IF w.kind = "StatefulSet" THEN "rpc" ELSE "http") =>
                         q.port \in Process(w).listens
<1>1. svc \in api /\ svc.kind = "Service"
  BY DEF Of
<1>2. PICK s \in Specs["NodeCluster"] :
        /\ s.protocol \in Protocols
        /\ HasKey(api, "StatefulSet", Node)
        /\ Driver(s).script => NodeConfigMap(Node, s) \in api
        /\ \A other \in api : other.name[1] = "n" => NodeShape(other, s)
  BY <1>1, NodeSpec
<1>3. PICK w \in api : w.kind = "StatefulSet" /\ w.name = Node
  BY <1>2 DEF HasKey
<1>4. w \in Workloads /\ w.name[1] = "n"
  BY <1>3, Letters DEF Workloads, Of
<1>5. w.pod = NodePod(Node, s) /\ Process(w) = NodeProcess(s)
  BY <1>2, <1>4, StatefulSetFacts
<1>6. /\ w.pod.ports = ContainerPorts(s)
      /\ OrDefault(s.rpc, Driver(s).ports.rpc) \in Process(w).listens
  BY <1>2, <1>5, NodePodFits
<1>7. NodeShape(svc, s)
  BY <1>1, <1>2
<1>8. CASE svc.selector = SelectorLabels(Node) /\ svc.ports = ServicePorts(s)
  <2>1. Selected(svc.selector) = {w}
    BY <1>3, <1>4, <1>8, SelectedByName
  <2>2. \A p \in svc.ports :
          \E q \in w.pod.ports :
            /\ q.name = p.target
            /\ p.name = "rpc" => q.port \in Process(w).listens
    BY <1>2, <1>6, <1>8, NodePorts
  <2>3. QED
    BY <1>3, <1>4, <2>1, <2>2
<1>9. ASSUME NEW i \in 1 .. Len(Ordinals),
             svc.selector = MergeLabels(SelectorLabels(Node), [pod_name |-> Node \o <<Ordinals[i]>>]),
             \A p \in svc.ports : p.target = p.name /\ p.name \in {"rpc", "p2p"}
      PROVE  \E x \in Workloads :
               /\ Selected(svc.selector) = {x}
               /\ \A p \in svc.ports :
                    p.target # "" =>
                      \E q \in x.pod.ports :
                        /\ q.name = p.target
                        /\ p.name = (IF x.kind = "StatefulSet" THEN "rpc" ELSE "http") =>
                             q.port \in Process(x).listens
  <2>1. Selected(svc.selector) = {w}
    BY <1>3, <1>4, <1>9, SelectedByPodName
  <2>2. \A p \in svc.ports :
          \E q \in w.pod.ports :
            /\ q.name = p.target
            /\ p.name = "rpc" => q.port \in Process(w).listens
    BY <1>2, <1>6, <1>9, NodePorts
  <2>3. QED
    BY <1>3, <1>4, <2>1, <2>2
<1>10. \/ svc.selector = SelectorLabels(Node) /\ svc.ports = ServicePorts(s)
       \/ /\ \E i \in 1 .. Len(Ordinals) :
               svc.selector = MergeLabels(SelectorLabels(Node),
                                          [pod_name |-> Node \o <<Ordinals[i]>>])
          /\ \A p \in svc.ports : p.target = p.name /\ p.name \in {"rpc", "p2p"}
  BY <1>1, <1>7 DEF NodeShape, PDB
<1>11. QED
  BY <1>8, <1>9, <1>10

LEMMA SelectorsFind ==
  ASSUME WiringInv
  PROVE  SelectorsFindTheirPods
<1>1. \A w \in Workloads : Selected(w.selector) = {w}
  BY WorkloadFacts, SelectedByName
<1>2. ASSUME NEW pdb \in Of("PodDisruptionBudget")
      PROVE  Cardinality(Selected(pdb.selector)) = 1
  <2>1. pdb \in api /\ pdb.kind = "PodDisruptionBudget"
    BY DEF Of
  <2>2. \E w \in Workloads : Selected(pdb.selector) = {w}
    <3>1. CASE pdb.name[1] # "n"
      <4>1. /\ pdb.selector = SelectorLabels(<<"c", "api">>)
            /\ HasKey(api, "Deployment", <<"c", "api">>)
        BY <2>1, <3>1 DEF WiringInv, Shape, Relies
      <4> DEFINE name == <<"c", "api">>
      <4> HIDE DEF name
      <4>2. pdb.selector = SelectorLabels(name) /\ HasKey(api, "Deployment", name)
        BY <4>1 DEF name
      <4>3. PICK w \in Workloads : w.name = name
        BY <4>2, DeploymentOfKey
      <4>4. QED
        BY <4>2, <4>3, SelectedByName
    <3>2. CASE pdb.name[1] = "n"
      <4>1. PICK s \in Specs["NodeCluster"] : HasKey(api, "StatefulSet", Node) /\ NodeShape(pdb, s)
        BY <2>1, <3>2, NodeSpec
      <4>2. pdb = PDB(Node)
        BY <2>1, <4>1 DEF NodeShape
      <4>3. pdb.selector = SelectorLabels(Node)
        BY <4>2 DEF PDB
      <4>4. PICK w \in Workloads : w.name = Node
        BY <4>1 DEF HasKey, Workloads, Of
      <4>5. QED
        BY <4>3, <4>4, SelectedByName
    <3>3. QED
      BY <3>1, <3>2
  <2>3. QED
    BY <2>2, FS_Singleton
<1>3. ASSUME NEW hpa \in Of("HorizontalPodAutoscaler")
      PROVE  \E w \in Of("Deployment") : w.name = hpa.target
  <2>1. hpa \in api /\ hpa.kind = "HorizontalPodAutoscaler"
    BY DEF Of
  <2>2. hpa.name[1] # "n"
    BY <2>1, NodeSpec DEF NodeShape, PDB
  <2>3. HasKey(api, "Deployment", hpa.target)
    BY <2>1, <2>2 DEF WiringInv, Relies
  <2>4. QED
    BY <2>3, DeploymentOfKey
<1>4. \A svc \in Of("Service") :
        \E w \in Workloads :
          /\ Selected(svc.selector) = {w}
          /\ \A p \in svc.ports :
               p.target # "" =>
                 \E q \in w.pod.ports :
                   /\ q.name = p.target
                   /\ p.name = (IF w.kind = "StatefulSet" THEN "rpc" ELSE "http") =>
                        q.port \in Process(w).listens
  BY ServiceFinds, NodeServiceFinds
<1>5. QED
  BY <1>1, <1>2, <1>3, <1>4 DEF SelectorsFindTheirPods

(***************************************************************************)
(* What the invariant says of the Ingresses.                               *)
(***************************************************************************)
LEMMA IngressFacts ==
  ASSUME WiringInv, NEW o \in Of("Ingress")
  PROVE  o \in api /\ o.kind = "Ingress" /\ o.name[1] # "n" /\ IngressShape(o) /\ Relies(o, api)
<1>1. o \in api /\ o.kind = "Ingress"
  BY DEF Of
<1>2. o.name[1] # "n"
  BY <1>1, NodeSpec DEF NodeShape, PDB
<1>3. QED
  BY <1>1, <1>2 DEF WiringInv, Shape

LEMMA IngressesServed ==
  ASSUME WiringInv
  PROVE  IngressesAreServed
<1>1. ASSUME NEW o \in Of("Ingress"), Asked(o), NEW rule \in o.rules
      PROVE  \E svc \in Of("Service") :
               svc.name = rule.service /\ \E p \in svc.ports : p.port = rule.port
  <2>1. IngressShape(o) /\ Relies(o, api) /\ o.kind = "Ingress" /\ o \in api
    BY IngressFacts
  <2>2. CASE o.name[1] # "i"
    <3>1. rule.service[1] \notin {"i", "n"} /\ rule.port = SidePort(rule.service)
      BY <2>1, <2>2 DEF IngressShape
    <3>2. PICK svc \in api : svc.kind = "Service" /\ svc.name = rule.service
      BY <2>1 DEF Relies, HasKey
    <3>3. ServiceShape(svc)
      BY <3>1, <3>2 DEF WiringInv, Shape
    <3>4. \E p \in svc.ports : p.port = rule.port
      BY <3>1, <3>2, <3>3 DEF ServiceShape
    <3>5. QED
      BY <3>2, <3>4 DEF Of
  <2>3. CASE o.name[1] = "i"
    <3> DEFINE port == OrDefault(spec["Indexer"].port, 8091)
               asked == spec["Indexer"].ingress
               svc == CloudService(TheIndexer, port)
               ing == BuildIngress(TheIndexer, asked, TheIndexer, port)
    <3>1. o.name = TheIndexer
      BY <2>1, <2>3 DEF IngressShape
    <3>2. Head(o.name) = "i"
      BY <3>1 DEF TheIndexer
    <3>3. Present("Indexer") /\ "Indexer" \notin queued /\ asked # <<>>
      BY <1>1, <3>2 DEF Asked
    <3>4. svc \in api /\ ing \in api
      BY <3>3 DEF WiringInv, Settled
    <3>5. ing.kind = "Ingress" /\ ing.name = TheIndexer
      BY DEF BuildIngress
    <3>6. o = ing
      BY <2>1, <3>1, <3>4, <3>5 DEF WiringInv, Keyed, SameKey
    <3>7. rule.service = TheIndexer /\ rule.port = port
      BY <3>6 DEF BuildIngress, Rule
    <3>8. /\ svc.kind = "Service" /\ svc.name = TheIndexer
          /\ [name |-> "http", port |-> port, target |-> "http"] \in svc.ports
      <4> HIDE DEF port
      <4> QED
        BY DEF CloudService, Service
    <3> HIDE DEF svc, port
    <3>9. QED
      BY <3>4, <3>7, <3>8 DEF Of
  <2>4. QED
    BY <2>2, <2>3
<1>2. ASSUME NEW o \in Of("Ingress"), o.tls # {}, NEW rule \in o.rules
      PROVE  Cardinality({t \in o.tls : rule.host \in t.hosts}) = 1
  <2>1. \E t : {u \in o.tls : rule.host \in u.hosts} = {t}
    BY <1>2, IngressFacts DEF IngressShape, CertificatesShape
  <2>2. QED
    BY <2>1, FS_Singleton
<1>3. ASSUME NEW o \in Of("Ingress"), NEW t \in o.tls
      PROVE  Cardinality({RegisteredDomain(host) : host \in t.hosts}) = 1
  <2>1. \E d : {RegisteredDomain(host) : host \in t.hosts} = {d}
    BY IngressFacts DEF IngressShape, CertificatesShape
  <2>2. QED
    BY <2>1, FS_Singleton
<1>4. ASSUME NEW x \in Of("Ingress"), NEW y \in Of("Ingress"), NEW t \in x.tls, NEW u \in y.tls,
             t.secret = u.secret
      PROVE  x = y /\ t = u
  <2>1. x.name = Bearer(t.secret) /\ y.name = Bearer(u.secret)
    BY IngressFacts DEF IngressShape
  <2>2. x = y
    BY <1>4, <2>1, IngressFacts DEF WiringInv, Keyed, SameKey
  <2>3. t = u
    BY <1>4, <2>2, IngressFacts DEF IngressShape, CertificatesShape
  <2>4. QED
    BY <2>2, <2>3
<1>5. QED
  BY <1>1, <1>2, <1>3, <1>4 DEF IngressesAreServed

\* Whatever specs and labels users submit, and whatever a resource had before,
\* its pods can start: the volumes, claims and ConfigMaps they name are there.
THEOREM WholePodsAlways == Spec => []PodsAreWhole
<1>1. WiringInv => PodsAreWhole
  BY WholePods
<1>2. QED
  BY <1>1, WiringInvariant, PTL

\* No label a user puts on pods takes them from their workload, or leads the
\* selector of another object to them.
THEOREM SelectorsFindAlways == Spec => []SelectorsFindTheirPods
<1>1. WiringInv => SelectorsFindTheirPods
  BY SelectorsFind
<1>2. QED
  BY <1>1, WiringInvariant, PTL

\* Every host asked for is routed to a Service that is there, and is on one
\* certificate, of its own domain, whose secret no other certificate has.
THEOREM IngressesServedAlways == Spec => []IngressesAreServed
<1>1. WiringInv => IngressesAreServed
  BY IngressesServed
<1>2. QED
  BY <1>1, WiringInvariant, PTL
===============================================================================
