----------------------------- MODULE NodeCluster -----------------------------
(***************************************************************************)
(* The NodeCluster reconciler (internal/controller/nodecluster_controller  *)
(* .go): one NodeCluster object, the operator process that reconciles it,  *)
(* the child objects it applies, and the readiness of its StatefulSet.     *)
(*                                                                         *)
(* One work item is never reconciled twice at once, and two NodeClusters   *)
(* share nothing, so one object and one worker are enough.  The steps of a *)
(* pass are actions of their own: users, the cache, the pods and restarts  *)
(* of the operator come between any two of them.                           *)
(*                                                                         *)
(* The specs users will submit are fixed in advance by specOf, one per     *)
(* generation; EditSpec makes the next one current.  A child is abstracted *)
(* to the generation whose spec it was last built from, 0 when it does not *)
(* exist.  The resource version is abstracted to the content of the        *)
(* object: a status update conflicts when the object is not what was read. *)
(***************************************************************************)
EXTENDS Conditions, Integers, FiniteSetsExt

CONSTANTS
    Specs,       \* the NodeCluster specs users may submit
    MaxGen,      \* how many generations they submit
    MaxPods,     \* the most replicas a spec asks for
    MaxFaults,   \* failed calls, missed reads and operator restarts
    KeyChecks    \* the values keyChecked may have

Generations == 1..MaxGen

\* What the reconciler branches on: the protocol, the replicas, whether the
\* driver needs a ConfigMap, per-pod services, the snapshot schedule.
SpecType == [proto : {"lux", "ethereum", "substrate"}, replicas : 1..MaxPods,
             config : BOOLEAN, perPod : BOOLEAN, snapshot : BOOLEAN]

ASSUME SpecsAssumption == Specs \subseteq SpecType
ASSUME BoundsAssumption ==
    /\ MaxGen \in Nat \ {0}
    /\ MaxPods \in Nat \ {0}
    /\ MaxFaults \in Nat
    /\ KeyChecks \subseteq BOOLEAN

\* Drivers exist for every protocol of the CRD's enum but substrate.
Registered(spec) == spec.proto # "substrate"

-------------------------------------------------------------------------------
(* The children, in the order a pass applies them.                         *)

Kinds == {"statefulset", "headless", "service", "configmap", "pdb",
          "perpod", "cronjob"}

Rank == [k \in Kinds |->
           CASE k = "statefulset" -> 1 [] k = "headless"  -> 2
             [] k = "service"     -> 3 [] k = "configmap" -> 4
             [] k = "pdb"         -> 5 [] k = "perpod"    -> 6
             [] OTHER             -> 7]

Required(spec) ==
    {"statefulset", "headless", "service"}
      \cup (IF spec.config THEN {"configmap"} ELSE {})
      \cup (IF spec.replicas > 1 THEN {"pdb"} ELSE {})
      \cup (IF spec.perPod THEN {"perpod"} ELSE {})
      \cup (IF spec.snapshot THEN {"cronjob"} ELSE {})

\* Applied through ctrl.CreateOrUpdate on an empty object whose name the
\* mutate function fills in; per-pod services start from a copy of the
\* desired object, the CronJob is read and written directly.
KeySetByMutate == Kinds \ {"perpod", "cronjob"}

\* Created with the controller reference on them: their creation comes back
\* through Owns as an event of the NodeCluster.  So does an update of the
\* CronJob that changes its spec; the others have no generation of their own
\* that an update would raise, or no controller reference.
CreatedOwned == {"perpod", "cronjob"}

-------------------------------------------------------------------------------
Phases == {"", "Creating", "Bootstrapping", "Running", "Degraded"}
Reasons == {"", "UnknownProtocol", "Creating", "NoReplicasReady",
            "PartiallyReady", "Bootstrapping", "Degraded", "AllReplicasReady",
            "Complete", "Healthy"}
DegradedReasons == {"NodeUnhealthy", "HeightSkew"}

StatusType ==
    [phase : Phases, observed : 0..MaxGen, ready : 0..MaxPods,
     healthy : 0..MaxPods, reasons : SUBSET DegradedReasons, boot : BOOLEAN,
     conds : [ConditionTypes -> Condition(Reasons)]]

NoStatus == [phase |-> "", observed |-> 0, ready |-> 0, healthy |-> 0,
             reasons |-> {}, boot |-> FALSE, conds |-> NoConditions]

VARIABLES
    keyChecked, \* CreateOrUpdate refuses a mutate function that sets the key
    specOf,    \* the spec of each generation
    gen,       \* metadata.generation of the NodeCluster
    status,    \* its status subresource
    cache,     \* the operator's informer copy: [gen, status]
    child,     \* generation each child was last built from, 0 if absent
    stsReady,  \* status.readyReplicas of the StatefulSet
    pc,        \* the step the pass is at
    work,      \* the pass's copy: [gen, base, status]; base is what was read
    done,      \* children this pass applied
    polled,    \* whether this pass polled the nodes' health
    dirty,     \* the work queue holds the NodeCluster
    timer,     \* a delayed requeue is pending
    faults     \* faults so far

given == <<keyChecked, specOf>>
object == <<given, gen, status>>
cluster == <<child, stsReady>>
pass == <<pc, work, done, polled>>
queue == <<dirty, timer>>
vars == <<keyChecked, specOf, gen, status, cache, child, stsReady,
          pc, work, done, polled, dirty, timer, faults>>

\* Between two passes the pass has no state.
NoWork == [gen |-> 1, base |-> NoStatus, status |-> NoStatus]

Steps == {"idle", "unknown", "first", "apply", "poll", "write"}

TypeOK ==
    /\ keyChecked \in KeyChecks
    /\ specOf \in [Generations -> Specs]
    /\ gen \in Generations
    /\ status \in StatusType
    /\ cache \in [gen : Generations, status : StatusType]
    /\ child \in [Kinds -> 0..MaxGen]
    /\ stsReady \in 0..MaxPods
    /\ pc \in Steps
    /\ work \in [gen : Generations, base : StatusType, status : StatusType]
    /\ done \subseteq Kinds
    /\ polled \in BOOLEAN
    /\ dirty \in BOOLEAN
    /\ timer \in BOOLEAN
    /\ faults \in 0..MaxFaults

Init ==
    /\ keyChecked \in KeyChecks
    /\ specOf \in [Generations -> Specs]
    /\ gen = 1
    /\ status = NoStatus
    /\ cache = [gen |-> 1, status |-> NoStatus]
    /\ child = [k \in Kinds |-> 0]
    /\ stsReady = 0
    /\ pc = "idle"
    /\ work = NoWork
    /\ done = {}
    /\ polled = FALSE
    /\ dirty = TRUE
    /\ timer = FALSE
    /\ faults = 0

-------------------------------------------------------------------------------
(* A pass of Reconcile.                                                    *)

spec == specOf[work.gen]

\* The Get, the driver lookup and the early status decision.
Fetch ==
    /\ pc = "idle"
    /\ dirty
    /\ dirty' = FALSE
    /\ work' = [gen |-> cache.gen, base |-> cache.status,
                status |-> cache.status]
    /\ done' = {}
    /\ polled' = FALSE
    /\ pc' = IF ~Registered(specOf[cache.gen]) THEN "unknown"
             ELSE IF cache.status.phase = "" THEN "first"
             ELSE "apply"
    /\ UNCHANGED <<object, cache, cluster, timer, faults>>

\* Reconcile returns: its local state is gone.
Return ==
    /\ pc' = "idle"
    /\ work' = NoWork
    /\ done' = {}
    /\ polled' = FALSE

RequeueSwallowed == Return /\ UNCHANGED queue

\* It returns an error: the work item goes back to the queue.
Requeue ==
    /\ Return
    /\ dirty' = TRUE
    /\ timer' = timer

UnmodifiedStatus == status = work.base

\* The API server takes a status update of the object that was read.
Unmodified == gen = work.gen /\ status = work.base

Conflict ==
    /\ pc \in {"unknown", "first", "write"}
    /\ ~Unmodified
    /\ Requeue
    /\ UNCHANGED <<object, cache, cluster, faults>>

UnknownPhaseOnly(st) == [st EXCEPT !.phase = "Degraded"]

UnknownStatus(st) ==
    [st EXCEPT !.phase = "Degraded",
               !.conds = SetCondition(@, "Ready", "False",
                                      "UnknownProtocol", NoCount)]

RejectUnknown ==
    /\ pc = "unknown"
    /\ Unmodified
    /\ status' = UnknownStatus(work.status)
    /\ Return
    /\ UNCHANGED <<given, gen, cache, cluster, queue, faults>>

CreatingStatus(st) ==
    [st EXCEPT !.phase = "Creating",
               !.conds = SetCondition(@, "Progressing", "True",
                                      "Creating", NoCount)]

FirstStatus ==
    /\ pc = "first"
    /\ Unmodified
    /\ status' = CreatingStatus(work.status)
    /\ work' = [work EXCEPT !.base = CreatingStatus(work.status),
                            !.status = CreatingStatus(work.status)]
    /\ pc' = "apply"
    /\ UNCHANGED <<given, gen, cache, cluster, done, polled, queue, faults>>

\* The first child of the spec this pass has not applied yet.
NextChild(k) ==
    /\ k \in Required(spec) \ done
    /\ \A j \in Required(spec) \ done : Rank[k] <= Rank[j]

Refused(k) == keyChecked /\ k \in KeySetByMutate

Apply(k) ==
    /\ pc = "apply"
    /\ NextChild(k)
    /\ ~Refused(k)
    /\ child' = [child EXCEPT ![k] = work.gen]
    /\ done' = done \cup {k}
    /\ \/ dirty' = (dirty \/ (k \in CreatedOwned /\ child[k] = 0))
       \/ k = "cronjob" /\ child[k] \notin {0, work.gen} /\ dirty' = TRUE
    /\ UNCHANGED <<object, cache, stsReady, pc, work, polled, timer,
                   faults>>

ApplyRefused(k) ==
    /\ pc = "apply"
    /\ NextChild(k)
    /\ Refused(k)
    /\ Requeue
    /\ UNCHANGED <<object, cache, cluster, faults>>

AfterRead == IF spec.proto = "lux" THEN "poll" ELSE "write"

ReadEarly ==
    /\ pc = "apply"
    /\ "statefulset" \in done
    /\ work' = [work EXCEPT !.status.ready = stsReady]
    /\ pc' = AfterRead
    /\ UNCHANGED <<object, cache, cluster, done, polled, queue, faults>>

\* The readiness of the StatefulSet, once every child is applied.
ReadStatefulSet ==
    /\ pc = "apply"
    /\ Required(spec) \subseteq done
    /\ work' = [work EXCEPT !.status.ready = stsReady]
    /\ pc' = AfterRead
    /\ UNCHANGED <<object, cache, cluster, done, polled, queue, faults>>

\* The same read failing: the error is dropped and the old count kept.
ReadStatefulSetFails ==
    /\ pc = "apply"
    /\ Required(spec) \subseteq done
    /\ faults < MaxFaults
    /\ faults' = faults + 1
    /\ pc' = AfterRead
    /\ UNCHANGED <<object, cache, cluster, work, done, polled, queue>>

\* Every listed pod is asked for its health, and the heights of two pods or
\* more may differ too much.  The pods that answer need not be those counted
\* ready: they are others, or it is later.
PollHealth ==
    /\ pc = "poll"
    /\ \E listed \in 1..MaxPods, healthy \in 0..MaxPods, skewed \in BOOLEAN :
         /\ healthy <= listed
         /\ skewed => listed > 1
         /\ work' = [work EXCEPT
                !.status.healthy = healthy,
                !.status.reasons =
                    (IF healthy < listed THEN {"NodeUnhealthy"} ELSE {})
                      \cup (IF skewed THEN {"HeightSkew"} ELSE {})]
    /\ polled' = TRUE
    /\ pc' = "write"
    /\ UNCHANGED <<object, cache, cluster, done, queue, faults>>

\* No pods, or the List fails: pollHealth returns false and touches nothing.
SkipPoll ==
    /\ pc = "poll"
    /\ pc' = "write"
    /\ UNCHANGED <<object, cache, cluster, work, done, polled, queue, faults>>

-------------------------------------------------------------------------------
(* The phase switch, and the final status update.                          *)

NotReadySwapped(st, phase, reason, message) ==
    [st EXCEPT !.phase = reason,
               !.conds = SetCondition(@, "Ready", "False", phase, message)]

NotReady(st, phase, reason, message) ==
    [st EXCEPT !.phase = phase,
               !.conds = SetCondition(@, "Ready", "False", reason, message)]

DegradedStatus(st) ==
    [NotReady(st, "Degraded", "Degraded", st.healthy) EXCEPT
       !.conds = SetCondition(@, "Degraded", "True", "Degraded", st.healthy)]

RunningKeepsDegraded(st) ==
    [st EXCEPT
       !.phase = "Running",
       !.boot = TRUE,
       !.conds = SetCondition(
                   SetCondition(@, "Ready", "True", "AllReplicasReady", NoCount),
                   "Progressing", "False", "Complete", NoCount)]

RunningStatus(st) ==
    [st EXCEPT
       !.phase = "Running",
       !.boot = TRUE,
       !.conds = SetCondition(
                   SetCondition(
                     SetCondition(@, "Ready", "True", "AllReplicasReady", NoCount),
                     "Progressing", "False", "Complete", NoCount),
                   "Degraded", "False", "Healthy", NoCount)]

FinalStatus(st, replicas, wasPolled) ==
    CASE st.ready = 0 ->
           NotReady(st, "Creating", "NoReplicasReady", NoCount)
      [] st.ready # 0 /\ st.ready < replicas ->
           NotReady(st, "Bootstrapping", "PartiallyReady", st.ready)
      [] st.ready >= replicas /\ wasPolled /\ st.healthy = 0 ->
           NotReady(st, "Bootstrapping", "Bootstrapping", NoCount)
      [] /\ st.ready >= replicas /\ wasPolled /\ st.healthy # 0
         /\ (st.healthy < replicas \/ st.reasons # {}) ->
           DegradedStatus(st)
      [] OTHER -> RunningStatus(st)

WriteWithoutRequeue ==
    /\ pc = "write"
    /\ Unmodified
    /\ status' = FinalStatus([work.status EXCEPT !.observed = work.gen],
                             spec.replicas, polled)
    /\ Return
    /\ UNCHANGED <<given, gen, cache, cluster, queue, faults>>

WriteStatus ==
    /\ pc = "write"
    /\ Unmodified
    /\ status' = FinalStatus([work.status EXCEPT !.observed = work.gen],
                             spec.replicas, polled)
    /\ Return
    /\ timer' = (timer \/ spec.proto = "lux")
    /\ UNCHANGED <<given, gen, cache, cluster, dirty, faults>>

\* Any other API call failing: the pass returns the error.
CallFails ==
    /\ pc \notin {"idle", "poll"}
    /\ pc = "apply" => ~(Required(spec) \subseteq done)
    /\ faults < MaxFaults
    /\ faults' = faults + 1
    /\ Requeue
    /\ UNCHANGED <<object, cache, cluster>>

-------------------------------------------------------------------------------
(* The work queue, the informer and the operator process.                  *)

RequeueAfter ==
    /\ timer
    /\ timer' = FALSE
    /\ dirty' = TRUE
    /\ UNCHANGED <<object, cache, cluster, pass, faults>>

NeverChanged(old, new) == FALSE

\* specChangePred: an update is queued when its generation changed.
SpecChanged(old, new) == old # new

Sync ==
    /\ cache # [gen |-> gen, status |-> status]
    /\ cache' = [gen |-> gen, status |-> status]
    /\ dirty' = (dirty \/ SpecChanged(cache.gen, gen))
    /\ UNCHANGED <<object, cluster, pass, timer, faults>>

\* A new process lists the NodeClusters: each comes as a create event.
Restart ==
    /\ faults < MaxFaults
    /\ faults' = faults + 1
    /\ Return
    /\ cache' = [gen |-> gen, status |-> status]
    /\ dirty' = TRUE
    /\ timer' = FALSE
    /\ UNCHANGED <<object, cluster>>

-------------------------------------------------------------------------------
(* Users, and the StatefulSet controller.                                  *)

EditSpec ==
    /\ gen < MaxGen
    /\ gen' = gen + 1
    /\ UNCHANGED <<given, status, cache, cluster, pass, queue, faults>>

\* The StatefulSet controller reports another count of ready pods; while it
\* scales down, the count may exceed the replicas of the spec.
ReportReady(n) ==
    /\ child["statefulset"] # 0
    /\ n # stsReady
    /\ stsReady' = n
    /\ UNCHANGED <<object, cache, child, pass, queue, faults>>

-------------------------------------------------------------------------------
Operator ==
    \/ Fetch \/ Conflict \/ RejectUnknown \/ FirstStatus
    \/ \E k \in Kinds : Apply(k) \/ ApplyRefused(k)
    \/ ReadStatefulSet \/ PollHealth \/ SkipPoll \/ WriteStatus

Environment ==
    \/ ReadStatefulSetFails \/ CallFails \/ Restart
    \/ EditSpec
    \/ \E n \in 0..MaxPods : ReportReady(n)

Next == Operator \/ RequeueAfter \/ Sync \/ Environment

Spec == Init /\ [][Next]_vars

\* A worker that holds a work item carries on, a delayed requeue fires, the
\* watch delivers.  Nothing obliges users to edit, readiness to change or
\* calls to fail.
Fairness ==
    /\ WF_vars(Operator)
    /\ WF_vars(RequeueAfter)
    /\ WF_vars(Sync)

FairSpec == Spec /\ Fairness

-------------------------------------------------------------------------------
(* Safety.                                                                 *)

\* The observed generation is a promise: when the status says a generation was
\* observed, every child its spec asks for was built from that generation or a
\* later one, whatever failed, restarted or was edited in between.
Honest(st, specs, built) ==
    st.observed # 0 =>
        \A k \in Required(specs[st.observed]) : built[k] >= st.observed

ObservedWasApplied == Honest(status, specOf, child)

\* No edit is lost.  Once the operator has seen the current generation and
\* has nothing queued or in progress, the children are built from it and the
\* status says so; failed calls, conflicts and restarts all leave work queued.
NothingForgotten ==
    (pc = "idle" /\ ~dirty /\ cache.gen = gen /\ Registered(specOf[gen])) =>
        /\ status.observed = gen
        /\ \A k \in Required(specOf[gen]) : child[k] = gen

\* Phase and conditions tell one story.  A cluster is in phase Running exactly
\* when its Ready condition is True, and then the replicas of the generation
\* it observed were counted ready and neither of the other two conditions
\* still speaks of trouble or of progress.
RunningStory(st, specs) ==
    /\ st.phase = "Running" <=> IsReady(st.conds)
    /\ st.phase = "Running" =>
         /\ st.observed # 0
         /\ st.ready >= specs[st.observed].replicas
         /\ st.boot
         /\ st.conds["Degraded"].status = "False"
         /\ st.conds["Progressing"].status = "False"

RunningIsReady == RunningStory(status, specOf)

\* A generation is reported when it is the current one and every child its spec
\* asks for is built from exactly that generation: a pass that an edit overtook,
\* or that read an old copy, conflicts and starts over.
ReportsCurrentSpec ==
    [][status'.observed # status.observed =>
         /\ status'.observed = gen
         /\ \A k \in Required(specOf[gen]) : child[k] = gen]_vars

\* The last generation all of whose children have been built from it, or from
\* a later one.
FullyApplied ==
    Max({0} \cup {g \in 1..gen :
                    \A k \in Required(specOf[g]) : child[k] >= g})

\* The reconciler keeps the promise of AppliedGenerations: children only move
\* forward, and the status reports a generation only after all of its children.
Contract == INSTANCE AppliedGenerations
              WITH desired <- gen, applied <- FullyApplied,
                   observed <- status.observed

KeepsContract == Contract!Spec

-------------------------------------------------------------------------------
(* The strengthenings that make the invariants inductive.                  *)

\* Generations reach the cache, then the pass, then the children.
Ordered ==
    /\ cache.gen <= gen
    /\ \A k \in Kinds : child[k] <= cache.gen
    /\ pc # "idle" =>
         /\ work.gen <= cache.gen
         /\ \A k \in Kinds : child[k] <= work.gen
         /\ \A k \in done : child[k] = work.gen

\* The final update comes after every child; only an unregistered protocol is
\* rejected.
Staged ==
    /\ pc \in {"poll", "write"} => Required(spec) \subseteq done
    /\ pc = "unknown" => ~Registered(spec)

\* Work that is neither queued nor in progress on the cached generation is done.
Accounted ==
    /\ pc # "idle" /\ ~dirty => work.gen = cache.gen
    /\ pc = "idle" /\ ~dirty /\ Registered(specOf[cache.gen]) =>
         /\ status.observed = cache.gen
         /\ \A k \in Required(specOf[cache.gen]) : child[k] = cache.gen

GenerationInv ==
    /\ Honest(status, specOf, child)
    /\ Honest(cache.status, specOf, child)
    /\ Honest(work.status, specOf, child)
    /\ Ordered
    /\ Staged
    /\ Accounted

\* No status that is, or is still to be, replaced by a first update says Ready.
StoryInv ==
    /\ RunningStory(status, specOf)
    /\ RunningStory(cache.status, specOf)
    /\ pc = "first" => ~IsReady(work.status.conds)

-------------------------------------------------------------------------------
(* Liveness.                                                               *)

\* Where applying children is not refused, the status of a spec that has a
\* driver catches up with the last edit.
EventuallyObserved ==
    ~keyChecked => <>[](Registered(specOf[gen]) => status.observed = gen)

\* A delayed requeue keeps the status of a lux cluster fresh: once its
\* StatefulSet settles on a count, the status settles on the same count.
ReadyReplicasFollow ==
    \A n \in 0..MaxPods :
        ~keyChecked /\ <>[](specOf[gen].proto = "lux" /\ stsReady = n)
          => <>[](status.ready = n)

\* A NodeCluster whose protocol has a driver gets its StatefulSet.
GetsStatefulSet == Registered(specOf[1]) => <>(child["statefulset"] # 0)

===============================================================================
