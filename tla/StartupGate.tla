----------------------------- MODULE StartupGate -----------------------------
(***************************************************************************)
(* The startup gate of a NodeCluster (buildStartupGateInitContainer): the  *)
(* pods of its StatefulSet, each of which waits in an init container until *)
(* enough peers answer their health endpoint.                              *)
(*                                                                         *)
(* The gate asks the ordinals one after the other, so its count is made of *)
(* answers of different moments.  A pod is found through the headless      *)
(* Service only when it is ready.  Time is the sum of the gate's sleeps,   *)
(* as in the script; the pods of an OrderedReady StatefulSet are created   *)
(* in order, each when all before it are ready.                            *)
(***************************************************************************)
EXTENDS Integers, FiniteSets

CONSTANTS
    Replicas,          \* pods of the StatefulSet
    Options,           \* values of spec.startupGate and of the pods up at first
    TimeoutSeconds,    \* spec.startupGate.timeoutSeconds
    IntervalSeconds,   \* spec.startupGate.checkIntervalSeconds
    MaxFaults          \* evictions, crashes and nodes losing their health

Pods == 0..(Replicas - 1)

OptionType == [minPeers : Nat, startAnyway : BOOLEAN, up : SUBSET Pods]

ASSUME GateAssumption ==
    /\ Replicas \in Nat \ {0}
    /\ Options \subseteq OptionType
    /\ TimeoutSeconds \in Nat
    /\ IntervalSeconds \in Nat
    /\ MaxFaults \in Nat

VARIABLES
    opts,      \* the options of this cluster
    pod,       \* where each pod is
    next,      \* the ordinal its gate asks next
    ok,        \* the answers it has counted
    elapsed,   \* the seconds it has slept
    faults     \* faults so far

\* What the builder makes of values that are not positive.
OrDefault(value, default) == IF value <= 0 THEN default ELSE value
MinimumWithSelf == OrDefault(opts.minPeers, 1) + 1
Minimum == OrDefault(opts.minPeers, 1)
Timeout == OrDefault(TimeoutSeconds, 300)
Interval == OrDefault(IntervalSeconds, 10)

gate == <<next, ok, elapsed>>
vars == <<opts, pod, next, ok, elapsed, faults>>

PodStates == {"absent", "gate", "starting", "ready", "healthy"}
IsReady(p) == pod[p] \in {"ready", "healthy"}

TypeOK ==
    /\ opts \in Options
    /\ pod \in [Pods -> PodStates]
    /\ next \in [Pods -> 0..Replicas]
    /\ ok \in [Pods -> 0..Replicas]
    /\ elapsed \in [Pods -> 0..(Timeout + Interval - 1)]
    /\ faults \in 0..MaxFaults

Init ==
    /\ opts \in Options
    /\ pod = [p \in Pods |-> IF p \in opts.up THEN "healthy" ELSE "absent"]
    /\ next = [p \in Pods |-> 0]
    /\ ok = [p \in Pods |-> 0]
    /\ elapsed = [p \in Pods |-> 0]
    /\ faults = 0

-------------------------------------------------------------------------------
(* The gate's script.                                                      *)

Fresh(p) ==
    /\ next' = [next EXCEPT ![p] = 0]
    /\ ok' = [ok EXCEPT ![p] = 0]
    /\ elapsed' = [elapsed EXCEPT ![p] = 0]

WaitingTooLong(p) == pod[p] = "gate" /\ elapsed[p] <= Timeout
Waiting(p) == pod[p] = "gate" /\ elapsed[p] < Timeout
Answers(q) == pod[q] = "healthy"

AskPeer(p) ==
    /\ Waiting(p)
    /\ next[p] < Replicas
    /\ ok' = [ok EXCEPT ![p] = IF Answers(next[p]) THEN @ + 1 ELSE @]
    /\ next' = [next EXCEPT ![p] = @ + 1]
    /\ UNCHANGED <<opts, pod, elapsed, faults>>

Pass(p) ==
    /\ Waiting(p)
    /\ next[p] = Replicas
    /\ ok[p] >= Minimum
    /\ pod' = [pod EXCEPT ![p] = "starting"]
    /\ Fresh(p)
    /\ UNCHANGED <<opts, faults>>

SleepKeepingCount(p) ==
    /\ Waiting(p)
    /\ next[p] = Replicas
    /\ ok[p] < Minimum
    /\ next' = [next EXCEPT ![p] = 0]
    /\ elapsed' = [elapsed EXCEPT ![p] = @ + Interval]
    /\ UNCHANGED <<opts, pod, ok, faults>>

SleepOneRound(p) ==
    /\ Waiting(p)
    /\ next[p] = Replicas
    /\ ok[p] < Minimum
    /\ next' = [next EXCEPT ![p] = 0]
    /\ ok' = [ok EXCEPT ![p] = 0]
    /\ elapsed' = [elapsed EXCEPT ![p] = @ + Interval]
    /\ UNCHANGED <<opts, pod, faults>>

GiveUp(p) ==
    /\ pod[p] = "gate"
    /\ elapsed[p] >= Timeout
    /\ pod' = [pod EXCEPT ![p] = "starting"]
    /\ Fresh(p)
    /\ UNCHANGED <<opts, faults>>

FailAlways(p) ==
    /\ pod[p] = "gate"
    /\ elapsed[p] >= Timeout
    /\ Fresh(p)
    /\ UNCHANGED <<opts, pod, faults>>

\* On timeout the node starts without its peers, or the script fails and the
\* kubelet runs it again from the start.
TimeOut(p) ==
    /\ pod[p] = "gate"
    /\ elapsed[p] >= Timeout
    /\ pod' = [pod EXCEPT ![p] = IF opts.startAnyway THEN "starting" ELSE "gate"]
    /\ Fresh(p)
    /\ UNCHANGED <<opts, faults>>

Gate(p) == AskPeer(p) \/ Pass(p) \/ SleepOneRound(p) \/ TimeOut(p)

-------------------------------------------------------------------------------
(* Kubernetes and the nodes.                                               *)

CreatePod(p) ==
    /\ pod[p] = "absent"
    /\ \A q \in 0..(p - 1) : IsReady(q)
    /\ pod' = [pod EXCEPT ![p] = "gate"]
    /\ Fresh(p)
    /\ UNCHANGED <<opts, faults>>

BecomeReady(p) ==
    /\ pod[p] = "starting"
    /\ pod' = [pod EXCEPT ![p] = "ready"]
    /\ UNCHANGED <<opts, gate, faults>>

\* Ready is the answer of the info endpoint, healthy that of the health one.
BecomeHealthy(p) ==
    /\ pod[p] = "ready"
    /\ pod' = [pod EXCEPT ![p] = "healthy"]
    /\ UNCHANGED <<opts, gate, faults>>

Fault == faults < MaxFaults /\ faults' = faults + 1

LoseHealth(p) ==
    /\ pod[p] = "healthy"
    /\ Fault
    /\ pod' = [pod EXCEPT ![p] = "ready"]
    /\ UNCHANGED <<opts, gate>>

\* A node that crashes is restarted in its pod, past the init containers.
CrashNode(p) ==
    /\ IsReady(p)
    /\ Fault
    /\ pod' = [pod EXCEPT ![p] = "starting"]
    /\ UNCHANGED <<opts, gate>>

\* A pod that is evicted, or replaced by an update, comes back to the gate.
Evict(p) ==
    /\ pod[p] # "absent"
    /\ Fault
    /\ pod' = [pod EXCEPT ![p] = "absent"]
    /\ Fresh(p)
    /\ UNCHANGED opts

Next == \E p \in Pods :
          \/ Gate(p)
          \/ CreatePod(p) \/ BecomeReady(p) \/ BecomeHealthy(p)
          \/ LoseHealth(p) \/ CrashNode(p) \/ Evict(p)

Spec == Init /\ [][Next]_vars

\* Scripts run, pods are created and started nodes get ready; nothing obliges
\* a node to become healthy.
FairSpec ==
    /\ Spec
    /\ \A p \in Pods : /\ WF_vars(Gate(p))
                       /\ WF_vars(CreatePod(p))
                       /\ WF_vars(BecomeReady(p))

-------------------------------------------------------------------------------
(* Properties.                                                             *)

\* What a gate has counted are answers of different peers in one round: no
\* answer of an earlier round is kept, and a pod never counts itself.
CountsDistinctPeers ==
    \A p \in Pods :
      pod[p] = "gate" => ok[p] <= Cardinality((0..(next[p] - 1)) \ {p})

\* No node runs, and no gate has heard of enough of them.
Cold == \A p \in Pods : \/ pod[p] = "absent"
                        \/ pod[p] = "gate" /\ ok[p] < Minimum

\* With onTimeout Fail, a cluster none of whose nodes run never starts again:
\* every gate waits for a node that waits at its own gate.
ColdStaysCold == [][~opts.startAnyway /\ Cold => Cold']_vars

AllUp == \A p \in Pods : IsReady(p)

\* With onTimeout StartAnyway every node is up again in the end, whatever was
\* lost, and from a cold start.
StartAnywayBringsUp == opts.startAnyway => <>[]AllUp

\* Nodes that stay healthy bring up the others: once minPeers of them, at least
\* one, stay so, every node is up in the end, whatever onTimeout says.
HealthyPeersSuffice ==
    <>[](LET healthy == Cardinality({p \in Pods : pod[p] = "healthy"})
         IN healthy >= 1 /\ healthy >= opts.minPeers)
      => <>[]AllUp
===============================================================================
