# A verification of the nchain operator

nchain is a Kubernetes operator for blockchain infrastructure. A user describes
a network, its node clusters, chains, indexers, explorers, bridges, gateways and
cloud console as custom resources; one reconciler per kind turns them into
StatefulSets, Deployments, Services, ConfigMaps and child resources, and reports
in the status what it found. The pods it builds run shell scripts in init
containers that restore, import and gate the nodes.

This directory holds TLA+ models of the parts where an order nobody wrote a test
for can do harm, the TLC configurations that check them, and TLAPS proofs of
the most important properties for every value of the constants.

## Inventory

| Component | State it keeps | Operations | Interacts with | Hard because | Correct when |
|---|---|---|---|---|---|
| Network reconciler (`internal/controller/network_controller.go`) | `status`; the child resources it creates | create a listed child, merge labels into one that exists, count running clusters, write the status | users, the API server, its informers, NodeCluster's status | stale reads, refused writes, a pass that stops half-way, events a predicate drops | it reports a generation only after composing it, forgets no edit, counts and phase agree |
| NodeCluster reconciler (`nodecluster_controller.go`) | `status` with phase, conditions, ready and healthy counts; seven kinds of children | reject an unknown protocol, first status, apply the children in order, read the StatefulSet, poll health, final status, requeue | users, StatefulSet controller, pods, work queue | edits, restarts and conflicts in the middle of a pass; two sources of readiness; a status machine with five branches and three conditions | `observedGeneration` is honest, no edit is lost, phase and conditions tell one story, the status follows the cluster |
| Health polling (`network_snapshot.go`, `pollHealth`) | none | ask each pod, count, compute the height skew | the pods' RPC | the pods polled are not those counted ready | a cluster with an unhealthy or lagging node is Degraded |
| Status conditions (`internal/status/condition.go`) | the condition list | upsert | every reconciler | an entry whose status and reason stay is not rewritten | one entry per type |
| Event predicates (`predicates.go`) | none | drop updates without a new generation, and deletions | informers, work queue | what is dropped is never looked at again | every edit reaches a pass |
| Startup gate (`network_snapshot.go`) | a counter and a clock per pod | ask each peer, sleep, time out | headless Service, peers | everyone waits for everyone | it counts different peers, and peers that stay healthy let the others in |
| Node data volume (`lux.go`, `network_snapshot.go`) | chain, two markers, the RLP file | restore, download, assemble, clear, import, mark | kubelet, object store, a temporary node | a pod can be moved between any two commands | the node never runs on a torn restore, imports once, keeps what it has |
| lux driver and the other drivers (`internal/protocol`) | a registry filled at start | construct commands, environment, init containers | NodeCluster | map order | the same spec gives the same objects |
| Manifest builders and the mutate helper (`internal/manifests`) | none | construct objects; copy desired fields into existing ones | every reconciler | fields it must leave alone, fields it forgets; labels, ports and names decided in different places | pods are whole, selectors, Services, Ingresses and certificates find what they name |
| Gateway reconciler (`gateway_controller.go`) | the routes in its ConfigMap, `status` | discover chains from the cluster, render the config, apply it and the Deployment, resync | NodeCluster, node RPC, Indexers | discovery that fails for a moment; chains routed by ID and reported by name | the status names the chains the ConfigMap routes, both catch up with the cluster, and routes lead to ports that are there |
| Indexer, Explorer, Bridge, Chain and Cloud reconcilers | `status`; Deployments, Services, Ingresses, ConfigMaps | apply, read readiness, write the status | each other's status | reads of objects that do not exist yet; an autoscaler that changes the same field | as for NodeCluster; what is owned goes with its owner |
| Snapshot CronJob (`network_snapshot.go`) | archives in an object store | archive, upload, prune | the data volume | a failure inside a pipe | clusters that share a prefix leave the newest archives; a run never prunes its own |
| Operator process (`cmd/main.go`) | the managers' caches and queues | start, stop | everything | restarts, two replicas | what was in progress is done again |

The API types are data; deep copies, CRDs, samples and build files are generated
or static.

## What is modelled

| Module | Models | State and actions |
|---|---|---|
| `Conditions` | `SetCondition`, `IsReady` | operators on a condition list, a function from types to entries |
| `AppliedGenerations` | the abstract promise of `status.observedGeneration` | `desired`, `applied`, `observed`; `Edit`, `Roll`, `Report` |
| `NodeCluster` | `NodeClusterReconciler.Reconcile`, its queue and informer | one action per API call of a pass (`Fetch`, `FirstStatus`, `RejectUnknown`, `Apply`, `ReadStatefulSet`, `PollHealth`, `WriteStatus`, ...), `Sync`, `RequeueAfter`, `Restart`, `EditSpec`, `ReportReady` |
| `Network` | `NetworkReconciler.Reconcile` and `reconcileChild` | one action per child visited and per cluster counted, `SyncChild`, `DeleteChild`, `ReportPhase` |
| `StartupGate` | the gate's script in each pod of an OrderedReady StatefulSet | `AskPeer`, `Pass`, `SleepOneRound`, `TimeOut`; pods created, evicted, crashed |
| `NodeVolume` | seed-restore, rlp-import and the node on one volume | one action per command that leaves something behind, `Interrupt` between any two |
| `Workload` | the passes of the Indexer, Explorer, Gateway, Bridge, Chain and Cloud reconcilers | a pass is a sequence of steps (`Plan`), one action each: `ResolveSource`, `Apply`, `ReadReady`, `WriteStatus`, their failures; deletion and garbage collection, the autoscaler, the delayed requeue, what a pass reads elsewhere |
| `Protocols` | the six protocol drivers | what a driver answers about ports, command, mounts, volumes, init containers |
| `Manifests` | the builders, `MutateFuncFor`, labels, grouping of TLS hosts | the objects, reduced to what refers to something else |
| `Wiring` | the objects that passes of several reconcilers leave in a namespace | `Reconcile` and `Edit` of each kind |
| `Snapshots` | the CronJob's script, its Jobs and the bucket they share | one action per command (`RequestSnapshot`, `Upload`, `List`, `Remove`), failures and restarts up to the backoff limit |

The modules look at the operator from three sides. `NodeCluster`, `Network` and
`Workload` take a pass apart into its API calls and keep of an object only when,
and from what, it was last built. `Wiring`, with `Manifests` and `Protocols`
under it, takes a pass as one step and looks at what is in the objects.
`StartupGate`, `NodeVolume` and `Snapshots` are the scripts the objects carry into
the pods.

`NodeCluster` and `Network` both implement `AppliedGenerations` by
`KeepsContract`, a refinement mapping of the current generation, the last
generation whose children are all there, and the observed generation. The modules
named `MC...` only name the sets of specs and options of the runs. Definitions
whose name says what a change of the code would do (`ReadEarly`,
`RequeueSwallowed`, `GiveUp`, ...) stand before the definition they would replace;
they are no part of any specification and show that the properties can fail.

### Abstractions

* One resource and one worker. controller-runtime never reconciles one item
  twice at once, and two resources of a kind share nothing. Two operator
  processes without leader election are not modelled.
* A child of a NodeCluster is the generation it was last built from; a child of
  a Network is the version of its inline spec, its ownership and whether it
  reports Running; a child in `Workload` is the generation and the value read
  elsewhere it was last built from. What is in it is the matter of `Wiring`.
* The six reconcilers of `Workload` differ in the operators `Plan`, `Takes`, `Owned`,
  `Resyncs` and in how they count and judge; the rest of their code is the same pass
  six times over and is modelled once.
* A Gateway's ConfigMap has routes of each chain by its ID, its status a map from names
  to IDs (`ChainRouteMap`, the code's `chainRouteMap`). A chain without a name is called
  `unknown`, and of chains of one name the last takes the entry: `Workload` has both steps,
  and what is promised of the status is that each entry is a chain of that name with
  routes, and that no name of such a chain is missing.
* In `Wiring` a name is the sequence of the parts the code joins, so that two names
  are equal when their parts are, and there is one resource per kind. Resource
  requests given in a spec, environment, images and flags without a port or a path
  are left out.
* `Wiring`, `StartupGate` and `Snapshots` take the objects to be applied and the
  names of pods to resolve; `NodeCluster_key` and `Wiring_names` are about that
  very assumption.
* `IngressesAreServed` takes a registered domain to be the last two labels of a host, as
  `registeredDomain` does: that two hosts under a suffix like `co.uk` share a certificate,
  which its comment (`builder.go:1263-1266`) admits, it does not see.
* A prefix of the bucket is one of a set in `Snapshots`: that one prefix lies within
  another, and is listed with it, is not modelled.
* An archive of `Snapshots` is its key and who made it, whole or not: the script does
  not tell the two apart either. Two runs never have the same time.
* The resource version is the content of the object: an update conflicts when
  generation or status is not what the pass read. Two writes that undo each
  other would be taken for none.
* The StatefulSet is read directly. A cache that lags behind is covered by
  `ReadStatefulSetFails`, which leaves the old count in place.
* The per-pod services of a cluster are applied in one step; the pods polled are
  one to `MaxPods`, any number of them healthy.
* `controllerutil.CreateOrUpdate` is a library. Whether it refuses a mutate
  function that sets the object's key, as version 0.23.3 does, is the variable
  `keyChecked`, chosen at the start; safety is checked and proved for both.
* Deleting the resource itself and garbage collection are in `Workload` only.
* Faults (`MaxFaults`) are failed calls, missed reads, restarts and
  interruptions. They are bounded, so liveness says what happens once they stop.
* The gate's clock counts its sleeps only, as the script's does.
* A volume's chain is its height; a restore replaces it, a truncated archive
  leaves it `torn`.

### Fairness

`FairSpec` of `NodeCluster`, `Network` and `Workload` assumes that a worker with a
queued item carries on (weak fairness of `Operator`, controller-runtime's worker
loop and its rate-limited retries), that watches deliver (`Sync`, `SyncChild`) and
that a delayed requeue fires (`RequeueAfter`); `Workload` also that the garbage
collector and the autoscaler act. Users, readiness, health and failures are not
fair. In `Wiring` each reconciler has a worker of its own, and the Indexer and the
Gateway come back by themselves, as their `RequeueAfter` of a minute makes them.
`StartupGate` assumes that scripts run, pods are created and a started node becomes
ready; no node need become healthy. `NodeVolume` assumes that the kubelet runs and
re-runs the containers and that the node syncs.

## The runs

| Run | Checks | Bounds | Shows |
|---|---|---|---|
| `NodeCluster` | `TypeOK`, `ObservedWasApplied`, `NothingForgotten`, `ReportsCurrentSpec`, `EventuallyObserved`, `ReadyReplicasFollow`, `KeepsContract` | 2 generations over 3 specs, 1 pod, 1 fault, both kinds of library | the observed generation is honest, no edit is lost, the status catches up, the contract is implemented |
| `NodeCluster_health` | `RunningIsReady` | 1 generation of 2 lux nodes, 1 fault | phase and conditions agree in every order of readiness and health |
| `Network` | `TypeOK`, `ObservedIsComposed`, `NothingForgotten`, `StatusAddsUp`, `KeepsContract`, `EventuallyObserved`, `ListedChildrenExist` | 2 generations over 3 specs, 2 clusters, a chain and a Cloud, a child that was there before, one deletion by hand, 1 fault | a Network composes what it lists, and its report holds among interference |
| `StartupGate` | `TypeOK`, `CountsDistinctPeers`, `ColdStaysCold`, `StartAnywayBringsUp`, `HealthyPeersSuffice` | 3 pods, minPeers 0 to 2, both `onTimeout`, cold and warm, 3 faults, a timeout of two rounds | who waits for whom |
| `NodeVolume` | `TypeOK`, `NeverRunsTorn`, `RunsImported`, `ImportsOnce`, `SeedIsKept`, `EventuallyRuns` | all 128 option combinations, heights to 3, 2 faults | the volume survives interruption anywhere |
| `Workload` | `TypeOK`, `NothingForgotten`, `ReportsWhatWasApplied`, `EventuallyObserved`, `ResyncFollows`, `NothingLeftBehind` | 2 generations over 2 specs of each of the 6 kinds, 1 pod, a load of up to 2, 1 fault, deletion or change of what is read elsewhere; 3 chains, two of them without a name | one status update tells of one pass, edits are not lost, the resync keeps up, nothing owned stays behind |
| `Wiring` | `PodsAreWhole`, `SelectorsFindTheirPods`, `IngressesAreServed`, `EventuallyWired` | 4 sets of resources, NodeClusters of every protocol with and without all options, Indexers at 8091 and 8080, Gateways with and without a route to one, 1 edit | what one pass writes fits what another wrote |
| `Snapshots` | `TypeOK`, `OwnKept`, `NewestIsOwn`, `NewestStay` | 2 clusters, 2 prefixes, retention 1 or 2, a clock of 4, symmetric clusters and prefixes | pruning takes only what is surplus |

Why the bounds are enough: two generations let a pass be overtaken by an edit
while an older status is still cached, and the safety properties are proved for any
number of them; two pods tell none, some and all ready
apart, and two heights make a skew; one fault in a pass that is otherwise repeated
reaches every intermediate state, and two in `NodeVolume` put a second
interruption into the recovery from the first. Three pods are the least with
minPeers 2 reachable, and two rounds the least in which a count could be carried
over. The two specs of a kind in `Workload` differ in a child, a side or a brand, so
that an edit adds or drops one; the fault may fall before or after the edit. One
edit in `Wiring` changes any resource into any other of its kind, after some, all
or none of the passes. A clock of 4 in `Snapshots` lets each cluster run twice, or
one of them four times, which is twice beyond a retention of 2. `CHECK_DEADLOCK FALSE` is given where the system may stop: an operator with
nothing to do, a cluster that is up, a node at the tip.

`EventuallyObserved` and `ListedChildrenExist` are about Networks without a Cloud
child and hold once clusters stop changing phase: a status update of a child in
between makes the operator's label update conflict. `ReadyReplicasFollow` is about
lux clusters, and `ResyncFollows` about Indexers and Gateways, the only ones with a
delayed requeue: the status of the others waits for the next edit or restart.
`EventuallyWired` is for NodeClusters that give their RPC port: for others the
Indexer takes 9650, the Gateway 8545 and the driver its own. Of the addresses that lead
to an Indexer it says two things. An Explorer's is served when the Indexer is at 8091,
its default: `indexerEndpoint` (`explorer_controller.go:306-308`) gives that port for
every Indexer, so that one with a port of its own is out of an Explorer's reach. A
Gateway's is served when the Indexer is at 8080, the port `buildGatewayConfig` gives for
every Indexer; that Indexers are there, as its comment says, is what
`Wiring_indexers` refutes.

### Where the code and its words differ

| Run | Violated | Finding |
|---|---|---|
| `NodeCluster_key` | `GetsStatefulSet` | `nodecluster_controller.go:116` passes an empty object to `CreateOrUpdate` and sets its name in the mutate function. controller-runtime 0.23.3 takes the key first and refuses a change of it, so no child is ever applied. `gateway_controller.go:192-193` sets the name first, "so the CreateOrUpdate key is stable". |
| `NodeVolume_minheight` | `HighChainIsKept` | `common_types.go:465`: "MinHeight skips the import when the C-chain is already at or above this height." `network_snapshot.go:285` deletes the chain before line 305 asks for its height. |
| `Wiring_names` | `PodNamesResolve` | `builder.go:202`: the headless Service is "for StatefulSet DNS". `mutate.go:52-67` copies the fields of a StatefulSet one by one and not `ServiceName`, so the one that is created has no governing Service, and the address of its first pod that the Indexer is given (`indexer_controller.go:428`) is no name. |
| `Wiring_indexers` | `RoutesReachIndexers` | `gateway_controller.go:296`: "Indexer API routes (Indexer Services listen on port 8080)." `indexer_controller.go:117` gives the Service of an Indexer the port of its spec, and 8091 without one (line 29; the CRD's default, `indexer_types.go:44-45`), so a Gateway's route to it leads to a port no Service has. |

## The proofs

All theorems hold for every value of the constants under the assumptions named in
the modules. Most (`SpecsAssumption`, `BoundsAssumption`, `GateAssumption`,
`VolumeAssumption`, `RetentionAssumption`, `StacksAssumption`, ...) state no more than
the constants' types. Two of `Wiring` say more:

* `OrdinalsAssumption` (in `Manifests`): the pods of a StatefulSet end in numbers, so none of
  their names is that of another object of the NodeCluster (`-headless`, `-config`, `-pdb`).
  There are as many as a spec may ask for replicas, and as a Cloud has targets.
* `UsersAssumption`: a command the user gives a generic node listens on the RPC port of
  its spec (8545 by default, as the driver has it); two brands of a Cloud differ in name
  and in domain, and a domain has a suffix; a Cloud has one cluster target per brand;
  the hosts of an Ingress are finitely many.
  The builders check none of this: of two brands of one name the second overwrites what was
  built for the first, two targets of one brand are mounted at one path, which the API server
  refuses (`builder.go:786-799` names volumes by index and paths by brand), and of a bare `localhost` the hosts `api.localhost` and `ws.localhost`
  are of two registered domains on one certificate. Nothing is assumed of labels: users may set any, the selectors' keys included.

* `NodeClusterProofs`. `TypeCorrect` is inductive as it stands. `ObservedApplied`
  and `NoEditForgotten` are not: a status may be honest while the copy that will
  replace it is not. `GenerationInv` adds that the same holds of the cache and of
  the pass (`Honest` three times), that generations only travel from the object to
  the cache, the pass and the children (`Ordered`), that the final update comes
  after every child (`Staged`), and that what is not queued is done (`Accounted`).
  `RunningReady` needs the story in the cache too (`StoryInv`): the early status
  update writes back what the cache held. `CurrentSpecReported`, an action
  property, follows from `GenerationInv`: a write that is not refused is of the
  generation the pass applied (`ReportStep`). `ImplementsContract` is the refinement.
* `AppliedGenerationsProofs` has the arithmetic of the refinements: the last applied
  generation is the greatest of a set of generations (`MaxFacts`, by the well-founded
  order of the numbers); when the set grows it stays or moves forward
  (`LatestGrows`), and an edit can add its own generation at most (`LatestEdited`).
  Both `ImplementsContract` theorems then map a step that changes the generation to
  `Edit`, a status that reports one to `Report`, anything else to `Roll` or a stutter.
* `NetworkProofs`. `NetworkInv` relates a pass to what it has visited (`Visited`):
  the children before its position in the list are there, and stay there unless
  deleted by hand, so that at the write all of them are. With the same for the
  observed generation (`ObservedThere`), the queue (`Accounted`) and the ownership of
  each child it gives `ObservedComposed`, `NoEditForgotten` and, with the bound on the
  clusters counted so far (`Counted`), `StatusAlwaysAddsUp`.
* `StartupGateProofs`. `TypeCorrect` carries `CountedIsAsked`, without which the
  range of the counter is not inductive. `ColdForever`: with `onTimeout` Fail no
  step leads out of a state in which no node runs and no gate has its quorum.
  `PeersAreDistinct` counts with cardinalities: one more ordinal asked is one more
  peer heard of, except the pod itself, which does not answer while it is at its gate.
* `NodeVolumeProofs`. `VolumeInv` is `NeverRunsTorn`, `RunsImported` and
  `Progress`, which says what the markers and files are at each step; from it
  follow the two safety invariants and the action properties `ImportedOnce` and
  `SeededIsKept`.

* `SnapshotsProofs`. A key read from a listing is removed later, when other Jobs have
  uploaded and removed too. `PruneInv` says that every such key is still surplus
  (`DoomedAreSurplus`): the ones that made it so are newer, and what is removed among
  them leaves as many that are newer still. `NewestStayThere` and `OwnIsNewest` follow;
  `OwnAreKept` adds that a run's key is new when it uploads (`FreshKey`).

* `WorkloadProofs`. `WorkloadInv` follows the pattern of `NetworkInv`, for six reconcilers at
  once: the children of the plan's steps before a pass's position are as the pass wants them
  (`PutSoFar`), a Gateway's ConfigMap has what its pass has found (`Routed`), generations
  and deletions travel one way (`Ordered`), and what is not queued is done (`Accounted`). The
  plans differ between kinds and specs; that a plan reads each Deployment once,
  that a Gateway's looks for chains, writes them and looks no more, and that the children a spec
  requires are those its plan puts are lemmas on `Plan` (`PlanFacts`, `GatewayPlanFacts`, `RequiredFacts`).
  `TypeCorrect` needs to know what can have been counted at each position (`WebCounted`),
  or the number of ready web pods would have no bound. `NoEditForgotten` and
  `ReportsApplied`, an action property, follow; the latter with a lemma on the map of
  chains by name (`MapAgrees`), whose last chain of a name is found by `MaxFacts`.
* `WiringProofs`. The three invariants of `Wiring` look at all objects of a namespace,
  which passes of different resources, and of specs edited since, have left there; none
  is inductive. `WiringInv` says that
  - each object belongs to the resource its name begins with, and no two have one key
    (`Lettered`, `Keyed`): a pass changes nothing of another's;
  - an object of another resource than the NodeCluster has a shape its key alone determines
    (`Shape`: the pod wears the labels of its selector, its paths are mounted, its probed
    ports open, a Service's port is the one Ingresses of it are built with), whichever spec
    it was built from, so that objects of different passes fit each other;
  - whatever such an object names is there (`Relies`), and since no key ever goes it stays;
  - the StatefulSet of a NodeCluster and its Services are all of one spec (`NodeInv`): a pass
    writes them together, and one that writes fewer Services leaves those whose selectors
    and target names do not depend on the spec;
  - the port of an Indexer, the one number here a user chooses, is the same in its Service
    and its Ingress once its pass is done (`Settled`).

  Of the drivers it is proved that mounts, volumes, paths, ports and probes of every protocol
  agree for every spec (`DriverCoherent`, `NodePodFits`), of the builders that
  a user's labels cannot displace the selector's (`MergedWears`), of `Applied` that what
  `MutateFuncFor` keeps of an existing object makes no difference but for `serviceName`
  (`MutatedAlike`), and of the certificates that grouping by registered domain puts each host
  on exactly one. `WholePodsAlways`, `SelectorsFindAlways` and `IngressesServedAlways` follow.

Only model-checked: what holds under fairness (`EventuallyObserved`, `ReadyReplicasFollow`,
`ListedChildrenExist`, `EventuallyRuns`, `StartAnywayBringsUp`, `HealthyPeersSuffice`,
`ResyncFollows`, `NothingLeftBehind`, `EventuallyWired`), since TLAPS proves neither
liveness nor ENABLED. `Workload` is not shown to implement `AppliedGenerations`: a child
there is only the generation it was last built from, so that the last generation applied
as a whole is no function of the state.

## Not modelled

* Generated deep copies, the CRDs, samples and build files: nothing to get wrong that
  a model would show.
* Two replicas of the operator without leader election. The modules are about one
  worker per object; a second one would need a copy of each pass.
* `BuildGatewayDeployment`, `BuildGatewayConfigMap` and `buildKrakenDConfig`, which
  nothing calls, and `ownedResourcePred`, which no controller uses.
* Environment variables, images, annotations, consensus arguments and flags without a
  port or a path; the routes a Gateway's spec gives whole, rate limits
  and CORS; the text of a Chain's genesis; last snapshot time, per-node details and
  external IPs in a NodeCluster's status. Nothing that is modelled branches on them.
* The parsing of the nodes' RPC answers: `PollHealth` and `ResolveSource` have every
  outcome it can have.
* What images hold: the plugins a lux node's init container copies (`lux.go:393`, from a
  directory it mounts an empty volume over) and the seed restore of an ethereum node
  (`ethereum.go:99`), which restores nothing and writes the marker.
* Whether an archive is whole, and whether an import was: the scripts do not ask.

The hazards in PROJECT.json that no property covers are named there with the reason.

## Plan

Done: the modules above, in the order `Conditions`, `AppliedGenerations`,
`NodeCluster`, `Network`, `StartupGate`, `NodeVolume`, `Workload`, `Snapshots`,
`Protocols`, `Manifests`, `Wiring`, and the theorems above.

What is left, in this order:

1. A composition of `Network` with `NodeCluster`, in place of `ReportPhase`.
2. Two operator processes without leader election.
3. `Snapshots` composed with `NodeVolume`'s restore, with archives that are not whole.

## Running

    tlc -workers 2 -config NodeCluster.cfg MCNodeCluster
    tlapm NodeClusterProofs.tla
