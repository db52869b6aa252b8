------------------------------- MODULE Snapshots -------------------------------
(***************************************************************************)
(* The periodic snapshots of NodeClusters: the CronJob buildSnapshotCronJob*)
(* (internal/controller/network_snapshot.go) makes for each, the shell     *)
(* script its Jobs run, and the object store they share.                   *)
(*                                                                         *)
(* A run of the script asks the node for a snapshot, streams it into the   *)
(* store under a key made of the cluster's prefix and the time the script  *)
(* started, lists the prefix and removes all but the newest archives one by*)
(* one.  The pod can be killed between any two of these; it is restarted,  *)
(* the whole script anew, until the Job's backoff limit is reached.  Two   *)
(* Jobs of one CronJob never overlap, those of two clusters do, and two    *)
(* clusters may have the same prefix: it defaults to the cluster's name,   *)
(* which is unique in its namespace only.                                  *)
(***************************************************************************)
EXTENDS Integers, FiniteSets

CONSTANTS
    Clusters,    \* the NodeClusters with a snapshot schedule
    Prefixes,    \* prefixes of the bucket
    Retentions,  \* values of spec.retentionCount, 0 when it is not given
    MaxTime      \* how long the clock runs

DefaultRetention == 5
BackoffLimit == 2

ASSUME RetentionAssumption == Retentions \subseteq Int
ASSUME TimeAssumption == MaxTime \in Nat

Times == 0..MaxTime
Archive == [prefix : Prefixes, ts : Times, by : Clusters]
Key == [prefix : Prefixes, ts : Times]

VARIABLES
    prefixOf,  \* the prefix of each cluster's archives
    retention, \* what each cluster's spec says of retention
    now,     \* the clock
    store,   \* the archives in the bucket
    step,    \* the step the run of each cluster is at, "idle" between Jobs
    ts,      \* TS of the cluster's last run
    tries,   \* restarts of the pod of the current Job
    doomed,  \* keys the run has read from the listing and not yet removed
    made     \* how many archives the cluster has uploaded

vars == <<prefixOf, retention, now, store, step, ts, tries, doomed, made>>

Steps == {"idle", "restart", "request", "stream", "list", "prune", "done"}

given == <<prefixOf, retention>>

Retain(c) == IF retention[c] <= 0 THEN DefaultRetention ELSE retention[c]

Unshared(c) == \A d \in Clusters \ {c} : prefixOf[d] # prefixOf[c]

TypeOK ==
    /\ prefixOf \in [Clusters -> Prefixes]
    /\ retention \in [Clusters -> Retentions]
    /\ now \in Times
    /\ store \subseteq Archive
    /\ step \in [Clusters -> Steps]
    /\ ts \in [Clusters -> Times]
    /\ tries \in [Clusters -> 0..BackoffLimit]
    /\ doomed \in [Clusters -> SUBSET Key]
    /\ made \in [Clusters -> Nat]

Init ==
    /\ prefixOf \in [Clusters -> Prefixes]
    /\ retention \in [Clusters -> Retentions]
    /\ now = 0
    /\ store = {}
    /\ step = [c \in Clusters |-> "idle"]
    /\ ts = [c \in Clusters |-> 0]
    /\ tries = [c \in Clusters |-> 0]
    /\ doomed = [c \in Clusters |-> {}]
    /\ made = [c \in Clusters |-> 0]

KeyOf(a) == [prefix |-> a.prefix, ts |-> a.ts]

-------------------------------------------------------------------------------
(* A Job, and the script its pod runs.                                     *)

\* The script begins: TS, and with it the key, is the time.  Schedules and the
\* restarts of a pod are more than a second apart.
Begin(c) ==
    /\ ts[c] < now
    /\ ts' = [ts EXCEPT ![c] = now]
    /\ step' = [step EXCEPT ![c] = "request"]
    /\ UNCHANGED <<given, now, store, doomed, made>>

\* The schedule fires; while a Job runs it would be skipped.
StartJob(c) ==
    /\ step[c] \in {"idle", "done"}
    /\ Begin(c)
    /\ tries' = [tries EXCEPT ![c] = 0]

FailForEver(c) ==
    /\ step[c] \in {"request", "stream", "list", "prune"}
    /\ doomed' = [doomed EXCEPT ![c] = {}]
    /\ step' = [step EXCEPT ![c] = "restart"]
    /\ UNCHANGED <<given, now, store, ts, tries, made>>

\* The script fails, at the request, in mc pipe, or because the pod is killed:
\* the pod is restarted, or the Job has failed.
Fail(c) ==
    /\ step[c] \in {"request", "stream", "list", "prune"}
    /\ doomed' = [doomed EXCEPT ![c] = {}]
    /\ step' = [step EXCEPT ![c] = IF tries[c] < BackoffLimit THEN "restart"
                                   ELSE "idle"]
    /\ UNCHANGED <<given, now, store, ts, tries, made>>

Restart(c) ==
    /\ step[c] = "restart"
    /\ Begin(c)
    /\ tries' = [tries EXCEPT ![c] = @ + 1]

RequestSnapshot(c) ==
    /\ step[c] = "request"
    /\ step' = [step EXCEPT ![c] = "stream"]
    /\ UNCHANGED <<given, now, store, ts, tries, doomed, made>>

\* curl into mc pipe.  The pipeline has the status of mc pipe: when curl fails
\* or its ten minutes end, what had come through is uploaded and the run goes
\* on, so that an archive counts for pruning whether it is whole or not.  One
\* under the same key is replaced.
Upload(c) ==
    /\ step[c] = "stream"
    /\ LET new == [prefix |-> prefixOf[c], ts |-> ts[c], by |-> c]
       IN  store' = {a \in store : KeyOf(a) # KeyOf(new)} \cup {new}
    /\ made' = [made EXCEPT ![c] = @ + 1]
    /\ step' = [step EXCEPT ![c] = "list"]
    /\ UNCHANGED <<given, now, ts, tries, doomed>>

Newer(p, t) == {a \in store : a.prefix = p /\ a.ts > t}

OneTooMany(c) ==
    {k \in {KeyOf(a) : a \in store} :
        /\ k.prefix = prefixOf[c]
        /\ Cardinality(Newer(k.prefix, k.ts)) >= Retain(c) - 1}

Reversed(c) ==
    {k \in {KeyOf(a) : a \in store} :
        /\ k.prefix = prefixOf[c]
        /\ Cardinality({a \in store : a.prefix = k.prefix /\ a.ts < k.ts})
             >= Retain(c)}

\* sort | head -n -MAX_RETAINED: every name but the last.
BeyondRetention(c) ==
    {k \in {KeyOf(a) : a \in store} :
        /\ k.prefix = prefixOf[c]
        /\ Cardinality(Newer(k.prefix, k.ts)) >= Retain(c)}

\* A listing that fails is an empty one, in the middle of a pipeline.
List(c) ==
    /\ step[c] = "list"
    /\ \E keys \in {BeyondRetention(c), {}} :
         doomed' = [doomed EXCEPT ![c] = keys]
    /\ step' = [step EXCEPT ![c] = "prune"]
    /\ UNCHANGED <<given, now, store, ts, tries, made>>

\* mc rm || true, in the order of the names.
Remove(c) ==
    /\ step[c] = "prune"
    /\ \E k \in doomed[c] :
         /\ \A j \in doomed[c] : k.ts <= j.ts
         /\ \/ store' = {a \in store : KeyOf(a) # k}
            \/ store' = store
         /\ doomed' = [doomed EXCEPT ![c] = @ \ {k}]
    /\ UNCHANGED <<given, now, step, ts, tries, made>>

Finish(c) ==
    /\ step[c] = "prune"
    /\ doomed[c] = {}
    /\ step' = [step EXCEPT ![c] = "done"]
    /\ UNCHANGED <<given, now, store, ts, tries, doomed, made>>

Tick ==
    /\ now < MaxTime
    /\ now' = now + 1
    /\ UNCHANGED <<given, store, step, ts, tries, doomed, made>>

Next ==
    \/ Tick
    \/ \E c \in Clusters :
         \/ StartJob(c) \/ Restart(c) \/ Fail(c) \/ RequestSnapshot(c)
         \/ Upload(c) \/ List(c) \/ Remove(c) \/ Finish(c)

Spec == Init /\ [][Next]_vars

-------------------------------------------------------------------------------
(* Safety.                                                                 *)

\* Jobs of clusters that share a prefix prune each other's archives between the
\* listing and the removals of one another, and pods are killed half-way.  Yet
\* an archive only ever goes when as many newer ones as the laxest of those who
\* prune that prefix retains are there to stay.
RetainedBy(p) ==
    {Retain(c) : c \in {d \in Clusters : prefixOf[d] = p}}

NewestStay ==
    [][\A a \in store :
          KeyOf(a) \notin {KeyOf(b) : b \in store'} =>
             \E n \in RetainedBy(a.prefix) :
                Cardinality({b \in store' : b.prefix = a.prefix /\ b.ts > a.ts})
                  >= n]_vars

\* A cluster that has its prefix to itself keeps as many archives as it is told
\* to retain, or all it ever made, whatever runs failed and were repeated.
OwnKept ==
    \A c \in Clusters : Unshared(c) =>
        LET own == Cardinality({a \in store : a.by = c})
        IN  own >= Retain(c) \/ own >= made[c]

\* When a Job of such a cluster succeeds, the newest archive under its prefix
\* is the one that Job uploaded: pruning never takes what was just made.
NewestIsOwn ==
    \A c \in Clusters : Unshared(c) /\ step[c] = "done" =>
        \E a \in store : /\ a.prefix = prefixOf[c]
                         /\ a.ts = ts[c]
                         /\ Newer(a.prefix, a.ts) = {}

===============================================================================
