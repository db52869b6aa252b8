------------------------------- MODULE Network -------------------------------
(***************************************************************************)
(* The Network reconciler (internal/controller/network_controller.go): one *)
(* Network object, the operator process that reconciles it, the child      *)
(* objects it lists, and the phase other reconcilers give its clusters.    *)
(*                                                                         *)
(* A child is abstracted to the inline spec it carries, 0 when it does not *)
(* exist, whether the Network owns it, and whether it is in phase Running. *)
(* Reads come from the informers, so the operator acts on what it has      *)
(* seen; writes reach the API server, which refuses to create what exists  *)
(* and to update what has changed since it was read.                       *)
(***************************************************************************)
EXTENDS Conditions, Integers, Sequences, FiniteSetsExt

CONSTANTS
    Clusters,    \* names of NodeCluster children
    Others,      \* names of children of the other kinds, but for the Cloud
    Cloud,       \* the name of the Cloud child
    Versions,    \* inline specs a child may be given, numbers above 0
    Specs,       \* the Network specs users may submit
    MaxGen,      \* how many generations they submit
    Existing,    \* children somebody created before the Network
    MaxFaults,   \* failed calls, operator restarts, clusters that leave Running
    MaxDeletes   \* children deleted by hand

Children == Clusters \cup Others \cup {Cloud}
Generations == 1..MaxGen

Item(names) == [name : names, want : Versions]

ASSUME VersionsAssumption == Versions \subseteq Nat \ {0}
ASSUME SpecsAssumption ==
    \A sp \in Specs : /\ sp.clusters \in Seq(Item(Clusters))
                      /\ sp.rest \in Seq(Item(Others \cup {Cloud}))
ASSUME BoundsAssumption ==
    /\ MaxGen \in Nat \ {0}
    /\ MaxFaults \in Nat
    /\ MaxDeletes \in Nat
    /\ Existing \subseteq Children
    /\ Clusters \cap (Others \cup {Cloud}) = {}

\* The order a pass visits the children in: clusters, then the other kinds.
Order(sp) == sp.clusters \o sp.rest

Listed(sp) == {Order(sp)[i].name : i \in DOMAIN Order(sp)}

NoChild == [want |-> 0, owned |-> FALSE, running |-> FALSE]
Exists(c) == c.want # 0

Phases == {"", "Creating", "Bootstrapping", "Running"}
Reasons == {"", "Creating", "PartiallyReady", "AllClustersReady"}

StatusType == [phase : Phases, observed : 0..MaxGen, clusters : Nat,
               ready : Nat, conds : [ConditionTypes -> Condition(Reasons)]]

NoStatus == [phase |-> "", observed |-> 0, clusters |-> 0, ready |-> 0,
             conds |-> NoConditions]

VARIABLES
    specOf,    \* the spec of each generation
    gen,       \* metadata.generation of the Network
    status,    \* its status subresource
    cache,     \* the operator's informer copy: [gen, status]
    child,     \* the children
    seen,      \* the operator's informer copies of them
    pc,        \* the step the pass is at
    work,      \* its copy: [gen, base, at, ready]
    dirty,     \* the work queue holds the Network
    faults,    \* faults so far
    deletes    \* deletions by hand so far

object == <<specOf, gen, status>>
bounds == <<faults, deletes>>
vars == <<specOf, gen, status, cache, child, seen, pc, work, dirty, faults,
          deletes>>

NoWork == [gen |-> 1, base |-> NoStatus, at |-> 1, ready |-> 0]

ChildType == [want : Versions \cup {0}, owned : BOOLEAN, running : BOOLEAN]

TypeOK ==
    /\ specOf \in [Generations -> Specs]
    /\ gen \in Generations
    /\ status \in StatusType
    /\ cache \in [gen : Generations, status : StatusType]
    /\ child \in [Children -> ChildType]
    /\ seen \in [Children -> ChildType]
    /\ pc \in {"idle", "visit", "count"}
    /\ work \in [gen : Generations, base : StatusType, at : Nat \ {0},
                 ready : Nat]
    /\ dirty \in BOOLEAN
    /\ faults \in 0..MaxFaults
    /\ deletes \in 0..MaxDeletes

Init ==
    /\ specOf \in [Generations -> Specs]
    /\ gen = 1
    /\ status = NoStatus
    /\ cache = [gen |-> 1, status |-> NoStatus]
    /\ \E want \in [Existing -> Versions] :
         child = [c \in Children |->
                    IF c \in Existing
                    THEN [want |-> want[c], owned |-> FALSE, running |-> FALSE]
                    ELSE NoChild]
    /\ seen = child
    /\ pc = "idle"
    /\ work = NoWork
    /\ dirty = TRUE
    /\ faults = 0
    /\ deletes = 0

-------------------------------------------------------------------------------
(* A pass of Reconcile.                                                    *)

spec == specOf[work.gen]

\* The child the pass is to visit, and what its list says of it.
Visiting == pc = "visit" /\ work.at <= Len(Order(spec))
item == Order(spec)[work.at]

Fetch ==
    /\ pc = "idle"
    /\ dirty
    /\ dirty' = FALSE
    /\ work' = [NoWork EXCEPT !.gen = cache.gen, !.base = cache.status]
    /\ pc' = "visit"
    /\ UNCHANGED <<object, cache, child, seen, bounds>>

Return == pc' = "idle" /\ work' = NoWork

RequeueSwallowed == Return /\ UNCHANGED dirty

\* Reconcile returns an error: the work item goes back to the queue.
Requeue == Return /\ dirty' = TRUE

\* The API server stores a child that does not exist, once it validates.  A
\* Cloud needs a brand, and the Network gives it none.
Storable(c) == ~Exists(child[c]) /\ c # Cloud

CreateUnowned ==
    /\ Visiting
    /\ ~Exists(seen[item.name])
    /\ Storable(item.name)
    /\ child' = [child EXCEPT ![item.name] =
                   [want |-> item.want, owned |-> FALSE, running |-> FALSE]]
    /\ work' = [work EXCEPT !.at = @ + 1]
    /\ UNCHANGED <<object, cache, seen, pc, dirty, bounds>>

\* A child the operator has not seen is created, with the owner reference.
CreateChild ==
    /\ Visiting
    /\ ~Exists(seen[item.name])
    /\ Storable(item.name)
    /\ child' = [child EXCEPT ![item.name] =
                   [want |-> item.want, owned |-> TRUE, running |-> FALSE]]
    /\ work' = [work EXCEPT !.at = @ + 1]
    /\ UNCHANGED <<object, cache, seen, pc, dirty, bounds>>

CreateRefused ==
    /\ Visiting
    /\ ~Exists(seen[item.name])
    /\ ~Storable(item.name)
    /\ Requeue
    /\ UNCHANGED <<object, cache, child, seen, bounds>>

\* A child it has seen has its labels merged, and nothing else of it changes:
\* neither its spec nor its owner.
LabelChild ==
    /\ Visiting
    /\ Exists(seen[item.name])
    /\ seen[item.name] = child[item.name]
    /\ work' = [work EXCEPT !.at = @ + 1]
    /\ UNCHANGED <<object, cache, child, seen, pc, dirty, bounds>>

\* The update of a child that changed, or is gone, since it was read fails.
LabelRefused ==
    /\ Visiting
    /\ Exists(seen[item.name])
    /\ seen[item.name] # child[item.name]
    /\ Requeue
    /\ UNCHANGED <<object, cache, child, seen, bounds>>

ClustersVisited ==
    /\ pc = "visit"
    /\ work.at > Len(spec.clusters)
    /\ pc' = "count"
    /\ work' = [work EXCEPT !.at = 1]
    /\ UNCHANGED <<object, cache, child, seen, dirty, bounds>>

AllVisited ==
    /\ pc = "visit"
    /\ ~Visiting
    /\ pc' = "count"
    /\ work' = [work EXCEPT !.at = 1]
    /\ UNCHANGED <<object, cache, child, seen, dirty, bounds>>

\* The clusters are read again, one by one, and those in Running are counted.
Counting == pc = "count" /\ work.at <= Len(spec.clusters)

CountCluster ==
    /\ Counting
    /\ work' = [work EXCEPT
           !.at = @ + 1,
           !.ready = IF seen[spec.clusters[work.at].name].running
                     THEN @ + 1 ELSE @]
    /\ UNCHANGED <<object, cache, child, seen, pc, dirty, bounds>>

RunningWhenAny(st, g, count, ready) ==
    LET told == [st EXCEPT !.observed = g, !.clusters = count, !.ready = ready]
    IN [told EXCEPT !.phase = IF ready > 0 THEN "Running" ELSE "Creating",
                    !.conds = SetCondition(@, "Ready",
                                IF ready > 0 THEN "True" ELSE "False",
                                IF ready > 0 THEN "AllClustersReady"
                                             ELSE "Creating", NoCount)]

ReasonAsPhase(st, g, count, ready) ==
    LET told == [st EXCEPT !.observed = g, !.clusters = count, !.ready = ready]
    IN [told EXCEPT !.phase = "AllClustersReady"]

Aggregate(st, g, count, ready) ==
    LET told == [st EXCEPT !.observed = g, !.clusters = count, !.ready = ready]
    IN CASE ready = count /\ count > 0 ->
              [told EXCEPT !.phase = "Running",
                           !.conds = SetCondition(@, "Ready", "True",
                                       "AllClustersReady", NoCount)]
         [] ready # count /\ ready > 0 ->
              [told EXCEPT !.phase = "Bootstrapping",
                           !.conds = SetCondition(@, "Ready", "False",
                                       "PartiallyReady", ready)]
         [] OTHER ->
              [told EXCEPT !.phase = "Creating",
                           !.conds = SetCondition(@, "Ready", "False",
                                       "Creating", NoCount)]

Unmodified == gen = work.gen /\ status = work.base

WriteStatus ==
    /\ pc = "count"
    /\ ~Counting
    /\ Unmodified
    /\ status' = Aggregate(work.base, work.gen, Len(spec.clusters), work.ready)
    /\ Return
    /\ UNCHANGED <<specOf, gen, cache, child, seen, dirty, bounds>>

Conflict ==
    /\ pc = "count"
    /\ ~Counting
    /\ ~Unmodified
    /\ Requeue
    /\ UNCHANGED <<object, cache, child, seen, bounds>>

CallFails ==
    /\ pc # "idle"
    /\ ~Counting
    /\ faults < MaxFaults
    /\ faults' = faults + 1
    /\ Requeue
    /\ UNCHANGED <<object, cache, child, seen, deletes>>

-------------------------------------------------------------------------------
(* The informers and the operator process.                                 *)

\* specChangePred: an update is queued when the generation changed.
Sync ==
    /\ cache # [gen |-> gen, status |-> status]
    /\ cache' = [gen |-> gen, status |-> status]
    /\ dirty' = (dirty \/ cache.gen # gen)
    /\ UNCHANGED <<object, child, seen, pc, work, bounds>>

\* A child's event reaches its owner when it is created or its generation
\* changes: not when its status does, and not when it is deleted.
Announced(old, new) == new.owned /\ old.want # new.want

SyncChild(c) ==
    /\ seen[c] # child[c]
    /\ seen' = [seen EXCEPT ![c] = child[c]]
    /\ dirty' = (dirty \/ Announced(seen[c], child[c]))
    /\ UNCHANGED <<object, cache, child, pc, work, bounds>>

Restart ==
    /\ faults < MaxFaults
    /\ faults' = faults + 1
    /\ Return
    /\ cache' = [gen |-> gen, status |-> status]
    /\ seen' = child
    /\ dirty' = TRUE
    /\ UNCHANGED <<object, child, deletes>>

-------------------------------------------------------------------------------
(* Users, and the NodeCluster reconciler.                                  *)

EditSpec ==
    /\ gen < MaxGen
    /\ gen' = gen + 1
    /\ UNCHANGED <<specOf, status, cache, child, seen, pc, work, dirty, bounds>>

DeleteChild(c) ==
    /\ Exists(child[c])
    /\ deletes < MaxDeletes
    /\ deletes' = deletes + 1
    /\ child' = [child EXCEPT ![c] = NoChild]
    /\ UNCHANGED <<object, cache, seen, pc, work, dirty, faults>>

\* The NodeCluster reconciler moves a cluster into phase Running, and out of it
\* when something went wrong.
ReportPhase(c) ==
    /\ Exists(child[c])
    /\ child' = [child EXCEPT ![c].running = ~@]
    /\ IF child[c].running
       THEN faults < MaxFaults /\ faults' = faults + 1
       ELSE faults' = faults
    /\ UNCHANGED <<object, cache, seen, pc, work, dirty, deletes>>

-------------------------------------------------------------------------------
Operator ==
    \/ Fetch \/ CreateChild \/ CreateRefused \/ LabelChild \/ LabelRefused
    \/ AllVisited \/ CountCluster \/ WriteStatus \/ Conflict

Environment ==
    \/ CallFails \/ Restart
    \/ EditSpec
    \/ \E c \in Children : DeleteChild(c)
    \/ \E c \in Clusters : ReportPhase(c)

Next == Operator \/ Sync \/ (\E c \in Children : SyncChild(c)) \/ Environment

Spec == Init /\ [][Next]_vars

\* A worker that holds a work item carries on, and every watch delivers.
Fairness ==
    /\ WF_vars(Operator)
    /\ WF_vars(Sync)
    /\ \A c \in Children : WF_vars(SyncChild(c))

FairSpec == Spec /\ Fairness

-------------------------------------------------------------------------------
(* Safety.                                                                 *)

\* A Network whose status reports a generation has composed it: every child
\* the generation lists exists, unless it was deleted by hand, and is the
\* Network's own, unless it was there before.
ObservedIsComposed ==
    status.observed # 0 =>
        \A c \in Listed(specOf[status.observed]) :
            /\ Exists(child[c]) \/ deletes > 0
            /\ Exists(child[c]) => child[c].owned \/ c \in Existing

\* No edit is lost: an operator that has seen the current generation and has
\* nothing queued or in progress has reported it.
NothingForgotten ==
    pc = "idle" /\ ~dirty /\ cache.gen = gen => status.observed = gen

\* The counts, the phase and the Ready condition of a status are of one pass:
\* the number of clusters is the number the observed generation lists, and the
\* Network is Running, and Ready, exactly when it counted them all as Running.
StatusAddsUp ==
    status.observed # 0 =>
        /\ status.clusters = Len(specOf[status.observed].clusters)
        /\ status.ready <= status.clusters
        /\ status.phase = "Running" <=> IsReady(status.conds)
        /\ status.phase = "Running" <=>
             status.ready = status.clusters /\ status.clusters > 0

\* The last generation all of whose children exist, or did until one was
\* deleted by hand.
FullyComposed ==
    Max({0} \cup {g \in 1..gen : \A c \in Listed(specOf[g]) :
                                    Exists(child[c]) \/ deletes > 0})

\* The Network keeps the promise of AppliedGenerations: it goes forward, and
\* it reports a generation only after the children that generation lists.
Contract == INSTANCE AppliedGenerations
              WITH desired <- gen, applied <- FullyComposed,
                   observed <- status.observed

KeepsContract == Contract!Spec

-------------------------------------------------------------------------------
(* Liveness.                                                               *)

\* A Cloud without a brand is never stored, and holds up what is listed after
\* it, the status included.
Composable(sp) == Cloud \notin Listed(sp)

\* The status catches up with the last spec users submit.
EventuallyObserved ==
    <>[](Composable(specOf[gen]) => status.observed = gen)

\* Network "creates and manages all child CRDs": in the end each child of the
\* last spec exists, and is the Network's own unless it was there before; a
\* child deleted by hand comes back only when something queues the Network.
ListedChildrenExist ==
    <>[](Composable(specOf[gen]) /\ deletes = 0 =>
             \A c \in Listed(specOf[gen]) :
                Exists(child[c]) /\ (child[c].owned \/ c \in Existing))
===============================================================================
