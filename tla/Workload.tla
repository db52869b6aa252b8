------------------------------- MODULE Workload -------------------------------
(***************************************************************************)
(* The reconcilers of the six resources that run beside the nodes: Indexer,*)
(* Explorer, Gateway, Bridge, Chain and Cloud (internal/controller/        *)
(* <kind>_controller.go).  Each turns one object into Deployments,         *)
(* Services and the like, reads how many pods are ready, and writes a      *)
(* status.  They differ in which children they write and in which order,   *)
(* in what they read from elsewhere in the cluster, in whether the changes *)
(* of their children come back to them, and in whether they come back by   *)
(* themselves; those differences are the operators Plan, Takes, Owned and  *)
(* Resyncs, and the rest is one pass over the plan.                        *)
(*                                                                         *)
(* Part 0 is the Deployment every kind but Chain has (the Cloud's API, the *)
(* Explorer's backend, the Bridge's server); parts 1, 2, .. are a frontend,*)
(* a UI or the web Deployment of each brand.  What a reconciler reads from *)
(* elsewhere (the NodeCluster's port, the subnet chains of a node, the     *)
(* chain ID) is one value, its source; None stands for the fallback it     *)
(* takes when there is nothing to read.  A child is the generation and the *)
(* source it was last built from.  A Gateway's ConfigMap has routes of each*)
(* chain by its ID, its status a map of them by name.  The Reconciled      *)
(* condition of a Chain is always True and is left out.                    *)
(***************************************************************************)
EXTENDS Conditions, Integers, Sequences, FiniteSetsExt, Functions

CONSTANTS
    Specs,       \* the specs users may submit
    MaxGen,      \* how many generations they submit
    MaxPods,     \* the most replicas a part may have
    MaxLoad,     \* the most replicas the autoscaler may ask for
    MaxFaults,   \* failed calls, missed reads, restarts, deletions and
                 \* changes of the source
    Sources,     \* what there may be to read elsewhere
    None,        \* nothing
    Blockchains, \* the chains in a source, in the order discoverSubnetChains
                 \* sorts them into
    KeyChecks    \* whether CreateOrUpdate refuses a mutate function that
                 \* sets the key of the object

Generations == 1..MaxGen
MaxSides == 2

SpecType == [kind : {"Indexer", "Explorer", "Gateway", "Bridge", "Chain", "Cloud"},
             replicas : 1..MaxPods, web : 1..MaxPods, sides : 0..MaxSides,
             ingress : BOOLEAN, scaled : BOOLEAN, genesis : BOOLEAN]

ASSUME SpecsAssumption == Specs \subseteq SpecType
ASSUME BoundsAssumption ==
    /\ MaxGen \in Nat \ {0}
    /\ MaxPods \in Nat \ {0}
    /\ MaxLoad \in Nat \ {0}
    /\ MaxFaults \in Nat
    /\ None \notin Sources
    /\ KeyChecks \subseteq BOOLEAN
ASSUME ChainsAssumption ==
    Blockchains \in [Sources -> Seq([name : STRING, id : STRING])]

Parts == 0..MaxSides
Whats == {"pvc", "configmap", "deployment", "service", "pdb", "hpa", "ingress"}
Children == Parts \X Whats
Inputs == Sources \cup {None}

\* The chains a Gateway's pass has found; a chain without a name gets one.
Found(input) ==
    IF input = None THEN << >>
    ELSE [i \in DOMAIN Blockchains[input] |->
            LET c == Blockchains[input][i]
            IN  [c EXCEPT !.name = IF c.name = "" THEN "unknown" ELSE c.name]]

\* chainRouteMap: of chains of one name, the last takes the entry.
ChainRouteMap(chains) ==
    LET Named(name) == {i \in DOMAIN chains : chains[i].name = name}
    IN  [name \in {chains[i].name : i \in DOMAIN chains} |->
           chains[Max(Named(name))].id]

ChainRouteMaps == {ChainRouteMap(Found(input)) : input \in Inputs}

-------------------------------------------------------------------------------
(* The pass of each kind, as the sequence of its steps.                    *)

Put(part, what) == [do |-> "put", part |-> part, what |-> what]
Resolve == [do |-> "resolve", part |-> 0, what |-> "configmap"]
Read(part) == [do |-> "read", part |-> part, what |-> "deployment"]

If(condition, steps) == IF condition THEN steps ELSE << >>

Served(part) == <<Put(part, "deployment"), Put(part, "service")>>
Exposed(sp, part) == If(sp.ingress, <<Put(part, "ingress")>>)

\* The store's claim comes first, the endpoints of the node are resolved next.
IndexerPlan(sp) ==
    <<Put(0, "pvc"), Resolve>> \o Served(0) \o Exposed(sp, 0) \o <<Read(0)>>

GatewayPlan(sp) ==
    <<Resolve, Put(0, "configmap")>> \o Served(0) \o Exposed(sp, 0)
       \o <<Read(0)>>

ExplorerPlan(sp) ==
    <<Resolve>> \o Served(0) \o If(sp.sides > 0, Served(1)) \o Exposed(sp, 0)
       \o <<Read(0)>> \o If(sp.sides > 0, <<Read(1)>>)

BridgePlan(sp) ==
    Served(0) \o If(sp.sides > 0, Served(1)) \o Exposed(sp, 0)
       \o <<Read(0)>> \o If(sp.sides > 0, <<Read(1)>>)

ChainPlan(sp) == If(sp.genesis, <<Put(0, "configmap")>>)

Scaled(sp, part) == If(sp.scaled, <<Put(part, "hpa")>>)

\* There are at most MaxSides brands.
Brand(sp, i) ==
    If(i <= sp.sides,
       Served(i) \o Scaled(sp, i) \o Exposed(sp, i) \o <<Read(i)>>)

\* The API with all it needs, then each brand, read on the spot; the API last.
CloudPlan(sp) ==
    Served(0) \o <<Put(0, "pdb")>> \o Scaled(sp, 0) \o Exposed(sp, 0)
       \o Brand(sp, 1) \o Brand(sp, 2) \o <<Read(0)>>

Plan(sp) ==
    CASE sp.kind = "Indexer"  -> IndexerPlan(sp)
      [] sp.kind = "Gateway"  -> GatewayPlan(sp)
      [] sp.kind = "Explorer" -> ExplorerPlan(sp)
      [] sp.kind = "Bridge"   -> BridgePlan(sp)
      [] sp.kind = "Chain"    -> ChainPlan(sp)
      [] sp.kind = "Cloud"    -> CloudPlan(sp)

PlanOf == [sp \in Specs |-> Plan(sp)]

RequiredOf == [sp \in Specs |->
    {<<s.part, s.what>> : s \in {t \in Range(PlanOf[sp]) : t.do = "put"}}]

Required(sp) == RequiredOf[sp]

Resolves(sp) == \E s \in Range(PlanOf[sp]) : s.do = "resolve"

\* The claim of an Indexer is created and then left alone.
Updated(c) == c[2] # "pvc"

\* Which child carries what was read elsewhere.
Takes(kind, c) == \/ kind \in {"Indexer", "Explorer"} /\ c[2] = "deployment"
                  \/ kind = "Gateway" /\ c[2] = "configmap"

\* Explorer, Bridge and Chain hand CreateOrUpdate an empty object and name it
\* in the mutate function.
KeySetByMutate(kind) == kind \in {"Explorer", "Bridge", "Chain"}

\* A Gateway's mutate function sets the controller reference, a Cloud's starts
\* from a copy of the desired object; the others set the reference on the
\* desired object, which the mutate function does not copy.
Owned(kind) == kind \in {"Gateway", "Cloud"}

\* The children whose metadata.generation the API server keeps.
Versioned == {"deployment", "ingress", "pdb"}

Resyncs(kind) == kind \in {"Indexer", "Gateway"}

-------------------------------------------------------------------------------
Phases == {"", "Creating", "Bootstrapping", "Running"}
Reasons == {"", "Ready", "NotReady", "Configured", "Bootstrapping", "Creating"}
Counts == 0..(MaxPods * MaxSides)

\* up is BackendReady and FrontendReady, ServerReady and UIReady; web counts
\* the ready pods of all brands.
StatusType ==
    [phase : Phases, observed : 0..MaxGen, ready : 0..MaxPods, web : Counts,
     up : [{0, 1} -> BOOLEAN], routes : ChainRouteMaps,
     conds : [ConditionTypes -> Condition(Reasons)]]

NoStatus == [phase |-> "", observed |-> 0, ready |-> 0, web |-> 0,
             up |-> [p \in {0, 1} |-> FALSE], routes |-> ChainRouteMap(Found(None)),
             conds |-> NoConditions]

Absent == [gen |-> 0, input |-> None]

VARIABLES
    specOf,   \* the spec of each generation, all of one kind
    refused,  \* CreateOrUpdate refuses the kind's mutate functions
    load,     \* the replicas the autoscaler computes from the load
    gen,      \* metadata.generation of the object
    deleted,  \* the object has been deleted
    status,   \* its status subresource
    cache,    \* the operator's informer copy: [gen, deleted, status]
    child,    \* the generation and source each child was last built from
    scale,    \* spec.replicas of each Deployment, 0 when there is none
    ready,    \* status.readyReplicas of each Deployment
    source,   \* what there is to read elsewhere
    pc,       \* the step the pass is at
    work,     \* the pass's copy: [gen, base, status, at, input, web]
    dirty,    \* the work queue holds the object
    timer,    \* a delayed requeue is pending
    faults    \* faults so far

given == <<specOf, refused, load>>
object == <<given, gen, deleted, status>>
cluster == <<child, scale, ready, source>>
queue == <<dirty, timer>>
vars == <<specOf, refused, load, gen, deleted, status, cache, child, scale,
          ready, source, pc, work, dirty, timer, faults>>

NoWork == [gen |-> 1, base |-> NoStatus, status |-> NoStatus, at |-> 1,
           input |-> None, web |-> 0]
Copy == [gen |-> gen, deleted |-> deleted, status |-> status]

TypeOK ==
    /\ specOf \in [Generations -> Specs]
    /\ refused \in BOOLEAN
    /\ load \in 1..MaxLoad
    /\ gen \in Generations
    /\ deleted \in BOOLEAN
    /\ status \in StatusType
    /\ cache \in [gen : Generations, deleted : BOOLEAN, status : StatusType]
    /\ child \in [Children -> [gen : 0..MaxGen, input : Inputs]]
    /\ scale \in [Parts -> (0..MaxPods) \cup (0..MaxLoad)]
    /\ ready \in [Parts -> 0..MaxPods]
    /\ source \in Inputs
    /\ pc \in {"idle", "pass", "write"}
    /\ work \in [gen : Generations, base : StatusType, status : StatusType,
                 at : Nat, input : Inputs, web : Counts]
    /\ dirty \in BOOLEAN
    /\ timer \in BOOLEAN
    /\ faults \in 0..MaxFaults

Init ==
    /\ specOf \in {f \in [Generations -> Specs] :
                     \A g \in Generations : /\ f[g].kind = f[1].kind
                                            /\ g > 1 => f[g] # f[g - 1]}
    /\ \E keyChecked \in KeyChecks :
         refused = (keyChecked /\ KeySetByMutate(specOf[1].kind))
    /\ load \in IF \E g \in Generations : specOf[g].scaled THEN 1..MaxLoad ELSE {1}
    /\ gen = 1
    /\ deleted = FALSE
    /\ status = NoStatus
    /\ cache = [gen |-> 1, deleted |-> FALSE, status |-> NoStatus]
    /\ child = [c \in Children |-> Absent]
    /\ scale = [p \in Parts |-> 0]
    /\ ready = [p \in Parts |-> 0]
    /\ source \in IF Resolves(specOf[1]) THEN Inputs ELSE {None}
    /\ pc = "idle"
    /\ work = NoWork
    /\ dirty = TRUE
    /\ timer = FALSE
    /\ faults = 0

kind == specOf[1].kind
spec == specOf[work.gen]
Step == PlanOf[spec][work.at]

-------------------------------------------------------------------------------
(* A pass of Reconcile.                                                    *)

Return == /\ pc' = "idle"
          /\ work' = NoWork

RequeueSwallowed == Return /\ UNCHANGED queue

Requeue == /\ Return
           /\ dirty' = TRUE
           /\ timer' = timer

FetchGone ==
    /\ pc = "idle"
    /\ dirty
    /\ dirty' = FALSE
    /\ work' = [NoWork EXCEPT !.gen = cache.gen, !.base = cache.status,
                              !.status = cache.status]
    /\ pc' = IF PlanOf[specOf[cache.gen]] = << >> THEN "write" ELSE "pass"
    /\ UNCHANGED <<object, cache, cluster, timer, faults>>

\* The Get; an object that is gone ends the pass.
Fetch ==
    /\ pc = "idle"
    /\ dirty
    /\ dirty' = FALSE
    /\ IF cache.deleted
       THEN Return
       ELSE /\ work' = [NoWork EXCEPT !.gen = cache.gen, !.base = cache.status,
                                      !.status = cache.status]
            /\ pc' = IF PlanOf[specOf[cache.gen]] = << >> THEN "write" ELSE "pass"
    /\ UNCHANGED <<object, cache, cluster, timer, faults>>

\* The step is done, having changed the pass's copy to w.
Advance(w) ==
    /\ work' = [w EXCEPT !.at = @ + 1]
    /\ pc' = IF work.at = Len(PlanOf[spec]) THEN "write" ELSE "pass"

At(do) == pc = "pass" /\ Step.do = do

\* resolveEndpoints, indexerChainID, discoverSubnetChains.
ResolveSource ==
    /\ At("resolve")
    /\ Advance([work EXCEPT !.input = source])
    /\ UNCHANGED <<object, cache, cluster, queue, faults>>

\* They are best effort: a failed call is taken for nothing to read.
ResolveFails ==
    /\ At("resolve")
    /\ faults < MaxFaults
    /\ faults' = faults + 1
    /\ Advance([work EXCEPT !.input = None])
    /\ UNCHANGED <<object, cache, cluster, queue>>

Built(c) == [gen |-> work.gen,
             input |-> IF Takes(kind, c) THEN work.input ELSE None]

\* The replicas a Deployment is written with.
Replicas(part) == IF part = 0 THEN spec.replicas ELSE spec.web

\* A child that is created or, where its generation counts, changed comes back
\* as an event when it carries the controller reference.
Echoes(c) ==
    /\ Owned(kind)
    /\ \/ child[c] = Absent
       \/ /\ c[2] \in Versioned
          /\ \/ child[c] # Built(c)
             \/ c[2] = "deployment" /\ scale[c[1]] # Replicas(c[1])

\* CreateOrUpdate with MutateFuncFor: the template and the replicas are
\* overwritten.
Apply ==
    /\ At("put")
    /\ ~refused
    /\ LET c == <<Step.part, Step.what>>
       IN  /\ child' = IF child[c] = Absent \/ Updated(c)
                       THEN [child EXCEPT ![c] = Built(c)] ELSE child
           /\ scale' = IF c[2] = "deployment"
                       THEN [scale EXCEPT ![c[1]] = Replicas(c[1])] ELSE scale
           /\ dirty' = (dirty \/ Echoes(c))
    /\ Advance(work)
    /\ UNCHANGED <<object, cache, ready, source, timer, faults>>

ApplyRefused ==
    /\ At("put")
    /\ refused
    /\ Requeue
    /\ UNCHANGED <<object, cache, cluster, faults>>

CountedTwice(w, part, n) ==
    CASE kind = "Cloud" /\ part > 0 -> [w EXCEPT !.web = w.status.web + n]
      [] kind = "Explorer" ->
           [w EXCEPT !.status.up[part] = n > 0, !.status.ready = n]
      [] kind = "Bridge" -> [w EXCEPT !.status.up[part] = n > 0]
      [] OTHER -> [w EXCEPT !.status.ready = n]

\* The ready pods of a part, once read, in the status.
Counted(w, part, n) ==
    CASE kind = "Cloud" /\ part > 0 -> [w EXCEPT !.web = @ + n]
      [] kind = "Explorer" ->
           [w EXCEPT !.status.up[part] = n > 0, !.status.ready = n]
      [] kind = "Bridge" -> [w EXCEPT !.status.up[part] = n > 0]
      [] OTHER -> [w EXCEPT !.status.ready = n]

ReadReady ==
    /\ At("read")
    /\ Advance(Counted(work, Step.part, ready[Step.part]))
    /\ UNCHANGED <<object, cache, cluster, queue, faults>>

\* A failed read leaves what the status said before, except that it counts as
\* none for the brands and for the replicas of an Explorer's backend.
ReadFails ==
    /\ At("read")
    /\ faults < MaxFaults
    /\ faults' = faults + 1
    /\ Advance(IF kind = "Explorer" /\ Step.part = 0
               THEN [work EXCEPT !.status.ready = 0] ELSE work)
    /\ UNCHANGED <<object, cache, cluster, queue>>

-------------------------------------------------------------------------------
(* The status a pass ends with.                                            *)

Judged(st, phase, isReady, reason, message) ==
    [st EXCEPT !.phase = phase,
               !.conds = SetCondition(@, "Ready",
                            IF isReady THEN "True" ELSE "False", reason, message)]

UpOrNot(st, isUp, message) ==
    IF isUp THEN Judged(st, "Running", TRUE, "Ready", NoCount)
            ELSE Judged(st, "Creating", FALSE, "NotReady", message)

IndexerStatus(st) == UpOrNot(st, st.ready >= 1, NoCount)

GatewayStatus(st, sp, input) ==
    UpOrNot([st EXCEPT !.routes = ChainRouteMap(Found(input))],
            st.ready = sp.replicas, st.ready)

\* A side that is not asked for is up.
BothUp(st, sp) ==
    LET full == IF sp.sides > 0 THEN st ELSE [st EXCEPT !.up[1] = TRUE]
    IN  UpOrNot(full, full.up[0] /\ full.up[1], NoCount)

\* A Chain is ready as soon as its ConfigMap is written.
ChainStatus(st) ==
    Judged(st, IF st.phase = "" THEN "Running" ELSE st.phase, TRUE,
           "Configured", NoCount)

CloudStatus(st, sp, total) ==
    LET counted == [st EXCEPT !.web = total]
    IN  CASE st.ready >= sp.replicas /\ total >= sp.web * sp.sides ->
               Judged(counted, "Running", TRUE, "Ready", NoCount)
          [] (st.ready > 0 \/ total > 0)
               /\ ~(st.ready >= sp.replicas /\ total >= sp.web * sp.sides) ->
               Judged(counted, "Bootstrapping", FALSE, "Bootstrapping", st.ready)
          [] OTHER -> Judged(counted, "Creating", FALSE, "Creating", NoCount)

FinalStatus(w, sp) ==
    LET st == [w.status EXCEPT !.observed = w.gen]
    IN  CASE kind = "Indexer" -> IndexerStatus(st)
          [] kind = "Gateway" -> GatewayStatus(st, sp, w.input)
          [] kind \in {"Explorer", "Bridge"} -> BothUp(st, sp)
          [] kind = "Chain" -> ChainStatus(st)
          [] kind = "Cloud" -> CloudStatus(st, sp, w.web)

\* The API server takes a status update of the object that was read.
Unmodified == ~deleted /\ gen = work.gen /\ status = work.base

WriteStale ==
    /\ pc = "write"
    /\ ~deleted
    /\ status' = FinalStatus(work, spec)
    /\ Return
    /\ timer' = (timer \/ Resyncs(kind))
    /\ UNCHANGED <<given, gen, deleted, cache, cluster, dirty, faults>>

WriteNoResync ==
    /\ pc = "write"
    /\ Unmodified
    /\ status' = FinalStatus(work, spec)
    /\ Return
    /\ UNCHANGED <<given, gen, deleted, cache, cluster, queue, faults>>

WriteStatus ==
    /\ pc = "write"
    /\ Unmodified
    /\ status' = FinalStatus(work, spec)
    /\ Return
    /\ timer' = (timer \/ Resyncs(kind))
    /\ UNCHANGED <<given, gen, deleted, cache, cluster, dirty, faults>>

Conflict ==
    /\ pc = "write"
    /\ ~Unmodified
    /\ Requeue
    /\ UNCHANGED <<object, cache, cluster, faults>>

\* A call that fails, where its error is returned: the writes, the status, and
\* the Gateway's Get of its NodeCluster.
CallFails ==
    /\ \/ At("put") \/ pc = "write"
       \/ At("resolve") /\ kind = "Gateway"
    /\ faults < MaxFaults
    /\ faults' = faults + 1
    /\ Requeue
    /\ UNCHANGED <<object, cache, cluster>>

-------------------------------------------------------------------------------
(* The work queue, the informer and the operator process.                  *)

RequeueAfter ==
    /\ timer
    /\ timer' = FALSE
    /\ dirty' = TRUE
    /\ UNCHANGED <<object, cache, cluster, pc, work, faults>>

SyncNeverQueues ==
    /\ cache # Copy
    /\ cache' = Copy
    /\ UNCHANGED <<object, cluster, pc, work, queue, faults>>

\* specChangePred: a change of generation is queued, a deletion is not.
Sync ==
    /\ cache # Copy
    /\ cache' = Copy
    /\ dirty' = (dirty \/ (~deleted /\ cache.gen # gen))
    /\ UNCHANGED <<object, cluster, pc, work, timer, faults>>

Restart ==
    /\ faults < MaxFaults
    /\ faults' = faults + 1
    /\ Return
    /\ cache' = Copy
    /\ dirty' = ~deleted
    /\ timer' = FALSE
    /\ UNCHANGED <<object, cluster>>

-------------------------------------------------------------------------------
(* Users, the pods, the autoscaler, the garbage collector, and the rest of *)
(* the cluster.                                                            *)

EditSpec ==
    /\ gen < MaxGen
    /\ ~deleted
    /\ gen' = gen + 1
    /\ UNCHANGED <<given, deleted, status, cache, cluster, pc, work, queue,
                   faults>>

Delete ==
    /\ ~deleted
    /\ faults < MaxFaults
    /\ faults' = faults + 1
    /\ deleted' = TRUE
    /\ UNCHANGED <<given, gen, status, cache, cluster, pc, work, queue>>

\* Children that refer to an owner that is gone are collected.
Collect ==
    /\ deleted
    /\ Owned(kind)
    /\ \E c \in Children : child[c] # Absent
    /\ child' = [c \in Children |-> Absent]
    /\ scale' = [p \in Parts |-> 0]
    /\ ready' = [p \in Parts |-> 0]
    /\ UNCHANGED <<object, cache, source, pc, work, queue, faults>>

\* Readiness is status: its changes do not pass specChangePred.
ReportReady(part, n) ==
    /\ child[<<part, "deployment">>] # Absent
    /\ n # ready[part]
    /\ ready' = [ready EXCEPT ![part] = n]
    /\ UNCHANGED <<object, cache, child, scale, source, pc, work, queue, faults>>

\* The autoscaler brings the replicas of its target to what the load asks for,
\* which raises the Deployment's generation.
Autoscale(part) ==
    /\ child[<<part, "hpa">>] # Absent
    /\ child[<<part, "deployment">>] # Absent
    /\ scale[part] # load
    /\ scale' = [scale EXCEPT ![part] = load]
    /\ dirty' = (dirty \/ Owned(kind))
    /\ UNCHANGED <<object, cache, child, ready, source, pc, work, timer, faults>>

SourceChanges(s) ==
    /\ Resolves(specOf[gen])
    /\ s # source
    /\ source' = s
    /\ faults < MaxFaults
    /\ faults' = faults + 1
    /\ UNCHANGED <<object, cache, child, scale, ready, pc, work, queue>>

-------------------------------------------------------------------------------
Operator ==
    \/ Fetch \/ ResolveSource \/ Apply \/ ApplyRefused \/ ReadReady
    \/ WriteStatus \/ Conflict

Environment ==
    \/ ResolveFails \/ ReadFails \/ CallFails \/ Restart
    \/ EditSpec \/ Delete
    \/ \E p \in Parts, n \in 0..MaxPods : ReportReady(p, n)
    \/ \E s \in Inputs : SourceChanges(s)

Autoscaler == \E p \in Parts : Autoscale(p)

Next == Operator \/ RequeueAfter \/ Sync \/ Environment \/ Collect \/ Autoscaler

Spec == Init /\ [][Next]_vars

\* A worker carries on, a delayed requeue fires, the watch delivers, and the
\* cluster's own controllers act.  Users, pods and faults are not obliged to.
Fairness ==
    /\ WF_vars(Operator)
    /\ WF_vars(RequeueAfter)
    /\ WF_vars(Sync)
    /\ WF_vars(Collect)
    /\ WF_vars(Autoscaler)

FairSpec == Spec /\ Fairness

-------------------------------------------------------------------------------
(* Safety.                                                                 *)

\* No edit is lost and no half of one is left.  When the operator has seen the
\* current generation and has nothing queued or in progress, every child the
\* spec asks for was built from it (the claim of an Indexer excepted, which is
\* only created), and the status observed it.
NothingForgotten ==
    (pc = "idle" /\ ~dirty /\ ~deleted /\ cache.gen = gen) =>
        /\ status.observed = gen
        /\ \A c \in Required(specOf[gen]) :
             IF Updated(c) THEN child[c].gen = gen ELSE child[c] # Absent

\* What one status update says belongs together.  A generation is reported when
\* it is the current one and its children are built from it.  The chains a
\* Gateway reports are of the discovery its ConfigMap was built from, though the
\* discovery, the write of the ConfigMap and the status update are far apart:
\* each ID in the status is of a chain of that name the ConfigMap has routes of,
\* and each such chain's name is in the status.  Chains of one name share an
\* entry there, so that a chain the ConfigMap has routes of may not be reported.
ReportsWhatWasApplied ==
    [][status' # status =>
         /\ status'.observed = gen
         /\ \A c \in Required(specOf[gen]) : Updated(c) => child[c].gen = gen
         /\ kind = "Gateway" =>
              LET routed == Range(Found(child[<<0, "configmap">>].input))
              IN  /\ \A name \in DOMAIN status'.routes :
                       [name |-> name, id |-> status'.routes[name]] \in routed
                  /\ \A c \in routed : c.name \in DOMAIN status'.routes]_vars

-------------------------------------------------------------------------------
(* Liveness.                                                               *)

\* Where children can be applied, the status catches up with the last edit.
EventuallyObserved ==
    <>[](~refused /\ ~deleted => status.observed = gen)

\* Nothing tells an Indexer or a Gateway that its node or its pods changed, yet
\* both keep up through the delayed requeue: once the pods and what is read
\* elsewhere settle, the children carry the one and the status tells the other.
ResyncFollows ==
    \A s \in Inputs, n \in 0..MaxPods :
        <>[](Resyncs(kind) /\ ~deleted /\ source = s /\ ready[0] = n)
          => <>[](/\ \A c \in Required(specOf[gen]) :
                       Takes(kind, c) => child[c].input = s
                  /\ status.ready = n
                  /\ IsReady(status.conds)
                       <=> IF kind = "Gateway" THEN n = specOf[gen].replicas
                                               ELSE n > 0)

\* What carries a controller reference goes with its owner: a pass that was
\* under way when the object was deleted, or that reads an old copy, may create
\* children again, but not for good.
NothingLeftBehind ==
    <>[](deleted /\ Owned(kind) => \A c \in Children : child[c] = Absent)
===============================================================================
