-------------------------- MODULE StartupGateProofs --------------------------
(***************************************************************************)
(* What holds of the startup gate for every number of replicas, of peers   *)
(* and of faults, and for every timeout.                                   *)
(***************************************************************************)
EXTENDS StartupGate, FiniteSetTheorems, TLAPS

USE GateAssumption

\* The values the builder settles on are positive.
LEMMA Effective == /\ Timeout \in Nat \ {0}
                   /\ Interval \in Nat \ {0}
  BY DEF Timeout, Interval, OrDefault

LEMMA AtLeastOnePeer == ASSUME opts \in Options PROVE Minimum \in Nat \ {0}
  BY DEF Minimum, OrDefault, OptionType

LEMMA FreshTyped ==
    ASSUME TypeOK, NEW p \in Pods, Fresh(p)
    PROVE  /\ next' \in [Pods -> 0..Replicas]
           /\ ok' \in [Pods -> 0..Replicas]
           /\ elapsed' \in [Pods -> 0..(Timeout + Interval - 1)]
  BY Effective DEF TypeOK, Fresh

\* A pod's gate counts at most one answer for each ordinal it has asked.
CountedIsAsked == \A p \in Pods : ok[p] <= next[p]

\* The state of every pod and of every gate stays within its bounds.
THEOREM TypeCorrect == Spec => [](TypeOK /\ CountedIsAsked)
  <1>1. Init => TypeOK /\ CountedIsAsked
    BY Effective DEF Init, TypeOK, CountedIsAsked, PodStates
  <1>2. TypeOK /\ CountedIsAsked /\ [Next]_vars => (TypeOK /\ CountedIsAsked)'
    <2> SUFFICES ASSUME TypeOK, CountedIsAsked, [Next]_vars
                 PROVE  (TypeOK /\ CountedIsAsked)'
      OBVIOUS
    <2>1. CASE UNCHANGED vars
      BY <2>1 DEF vars, TypeOK, CountedIsAsked
    <2>2. ASSUME NEW p \in Pods, AskPeer(p) PROVE (TypeOK /\ CountedIsAsked)'
      <3>1. /\ next[p] \in 0..Replicas /\ next[p] < Replicas
            /\ ok[p] \in 0..Replicas /\ ok[p] <= next[p]
        BY <2>2 DEF AskPeer, TypeOK, CountedIsAsked
      <3>2. next' = [next EXCEPT ![p] = next[p] + 1]
        BY <2>2 DEF AskPeer
      <3>3. ok' = [ok EXCEPT ![p] = ok[p] + 1] \/ ok' = ok
        BY <2>2 DEF AskPeer, TypeOK
      <3>4. /\ next' \in [Pods -> 0..Replicas]
            /\ ok' \in [Pods -> 0..Replicas]
        BY <3>1, <3>2, <3>3 DEF TypeOK
      <3>5. CountedIsAsked'
        BY <3>1, <3>2, <3>3 DEF TypeOK, CountedIsAsked
      <3>6. QED
        BY <2>2, <3>4, <3>5 DEF AskPeer, TypeOK
    <2>3. ASSUME NEW p \in Pods, SleepOneRound(p)
          PROVE  (TypeOK /\ CountedIsAsked)'
      <3>1. elapsed[p] + Interval \in 0..(Timeout + Interval - 1)
        BY <2>3, Effective DEF SleepOneRound, Waiting, TypeOK
      <3>2. QED
        BY <2>3, <3>1 DEF SleepOneRound, TypeOK, CountedIsAsked
    <2>4. ASSUME NEW p \in Pods, Fresh(p),
                 opts' = opts, pod' \in [Pods -> PodStates], faults' \in 0..MaxFaults
          PROVE  (TypeOK /\ CountedIsAsked)'
      <3>1. TypeOK'
        BY <2>4, FreshTyped DEF TypeOK
      <3>2. /\ next' = [next EXCEPT ![p] = 0]
            /\ ok' = [ok EXCEPT ![p] = 0]
        BY <2>4 DEF Fresh
      <3>3. CountedIsAsked'
        BY <3>2 DEF TypeOK, CountedIsAsked
      <3>4. QED
        BY <3>1, <3>3
    <2>5. ASSUME NEW p \in Pods, Pass(p) \/ TimeOut(p) \/ CreatePod(p)
          PROVE  (TypeOK /\ CountedIsAsked)'
      <3>1. Fresh(p) /\ faults' = faults /\ opts' = opts
        BY <2>5 DEF Pass, TimeOut, CreatePod
      <3>2. \E s \in {"gate", "starting"} : pod' = [pod EXCEPT ![p] = s]
        BY <2>5, Zenon DEF Pass, TimeOut, CreatePod
      <3>3. pod' \in [Pods -> PodStates]
        BY <3>2 DEF TypeOK, PodStates
      <3>4. QED
        BY <2>4, <3>1, <3>3 DEF TypeOK
    <2>6. ASSUME NEW p \in Pods, Evict(p) PROVE (TypeOK /\ CountedIsAsked)'
      BY <2>4, <2>6 DEF Evict, Fault, TypeOK, PodStates
    <2>7. ASSUME NEW p \in Pods, BecomeReady(p) \/ BecomeHealthy(p)
          PROVE  (TypeOK /\ CountedIsAsked)'
      BY <2>7 DEF BecomeReady, BecomeHealthy, TypeOK, CountedIsAsked,
                  PodStates, gate
    <2>8. ASSUME NEW p \in Pods, LoseHealth(p) \/ CrashNode(p)
          PROVE  (TypeOK /\ CountedIsAsked)'
      BY <2>8 DEF LoseHealth, CrashNode, Fault, TypeOK, CountedIsAsked,
                  PodStates, gate
    <2>9. QED
      BY <2>1, <2>2, <2>3, <2>5, <2>6, <2>7, <2>8 DEF Next, Gate
  <1>3. QED
    BY <1>1, <1>2, PTL DEF Spec

\* Everyone waits on everyone: under onTimeout Fail, once no node runs and no
\* gate has heard of enough nodes, none ever runs again, however many pods there
\* are and whatever is evicted or times out.
THEOREM ColdForever == Spec => ColdStaysCold
  <1>1. TypeOK /\ [Next]_vars => [~opts.startAnyway /\ Cold => Cold']_vars
    <2> SUFFICES ASSUME TypeOK, Next, ~opts.startAnyway, Cold PROVE Cold'
      OBVIOUS
    <2>1. \A q \in Pods : pod[q] \notin {"starting", "ready", "healthy"}
      BY DEF Cold
    <2> opts' = opts /\ Minimum' = Minimum /\ Minimum \in Nat \ {0}
      <3>1. opts' = opts
        BY DEF Next, Gate, AskPeer, Pass, SleepOneRound, TimeOut, CreatePod,
               BecomeReady, BecomeHealthy, LoseHealth, CrashNode, Evict
      <3>2. QED
        BY <3>1, AtLeastOnePeer DEF Minimum, TypeOK
    <2>2. ASSUME NEW p \in Pods, AskPeer(p) PROVE Cold'
      <3>1. next[p] \in Pods
        BY <2>2 DEF AskPeer, TypeOK, Pods
      <3>2. ~Answers(next[p])
        BY <2>1, <3>1 DEF Answers
      <3>3. ok' = ok /\ pod' = pod
        BY <2>2, <3>2 DEF AskPeer, TypeOK
      <3>4. QED
        BY <3>3 DEF Cold
    <2>3. ASSUME NEW p \in Pods, Pass(p) PROVE Cold'
      BY <2>3, Effective DEF Pass, Waiting, Cold, TypeOK
    <2>4. ASSUME NEW p \in Pods, SleepOneRound(p) PROVE Cold'
      BY <2>4, Effective DEF SleepOneRound, Cold, TypeOK
    <2>5. ASSUME NEW p \in Pods, TimeOut(p) \/ CreatePod(p) \/ Evict(p)
          PROVE  Cold'
      <3>1. ok' = [ok EXCEPT ![p] = 0] /\ 0 < Minimum
        BY <2>5, Effective DEF TimeOut, CreatePod, Evict, Fresh
      <3>2. pod' = [pod EXCEPT ![p] = "gate"] \/ pod' = [pod EXCEPT ![p] = "absent"]
        BY <2>5 DEF TimeOut, CreatePod, Evict
      <3>3. QED
        BY <3>1, <3>2 DEF Cold, TypeOK
    <2>6. ASSUME NEW p \in Pods,
                 BecomeReady(p) \/ BecomeHealthy(p) \/ LoseHealth(p)
                   \/ CrashNode(p)
          PROVE  Cold'
      BY <2>1, <2>6 DEF BecomeReady, BecomeHealthy, LoseHealth, CrashNode,
                        IsReady
    <2>7. QED
      BY <2>2, <2>3, <2>4, <2>5, <2>6 DEF Next, Gate
  <1>2. QED
    BY <1>1, TypeCorrect, PTL DEF Spec, ColdStaysCold
-------------------------------------------------------------------------------
(* Counts are of distinct peers.                                           *)

\* The peers pod p can have heard of when its gate is at ordinal n.
Heard(p, n) == (0..(n - 1)) \ {p}

LEMMA HeardFacts ==
    ASSUME NEW p \in Nat, NEW n \in Nat
    PROVE  /\ Cardinality(Heard(p, n)) \in Nat
           /\ Cardinality(Heard(p, n + 1)) =
                IF p = n THEN Cardinality(Heard(p, n))
                ELSE Cardinality(Heard(p, n)) + 1
  <1>1. IsFiniteSet(Heard(p, n))
    <2>1. IsFiniteSet(0..(n - 1))
      BY FS_Interval
    <2>2. Heard(p, n) \in SUBSET (0..(n - 1))
      BY DEF Heard
    <2>3. QED
      BY <2>1, <2>2, FS_Subset
  <1>2. n \notin Heard(p, n)
    BY DEF Heard
  <1>3. CASE p = n
    <2>1. Heard(p, n + 1) = Heard(p, n)
      BY <1>3 DEF Heard
    <2>2. QED
      BY <1>1, <1>3, <2>1, FS_CardinalityType
  <1>4. CASE p # n
    <2>1. Heard(p, n + 1) = Heard(p, n) \cup {n}
      BY <1>4 DEF Heard
    <2>2. QED
      BY <1>1, <1>2, <1>4, <2>1, FS_AddElement, FS_CardinalityType
  <1>5. QED
    BY <1>3, <1>4

\* A gate's count never exceeds the peers it has asked in this round: it holds
\* because a pod at its gate does not answer itself, and because every round,
\* and every new container, starts from 0.
THEOREM PeersAreDistinct == Spec => []CountsDistinctPeers
  <1>d. CountsDistinctPeers <=>
            \A p \in Pods : pod[p] = "gate" => ok[p] <= Cardinality(Heard(p, next[p]))
    BY DEF CountsDistinctPeers, Heard
  <1>e. CountsDistinctPeers' <=>
            \A p \in Pods : pod'[p] = "gate" => ok'[p] <= Cardinality(Heard(p, next'[p]))
    BY DEF CountsDistinctPeers, Heard
  <1>p. \A p \in Pods : p \in Nat
    BY DEF Pods
  <1>1. Init => CountsDistinctPeers
    <2> SUFFICES ASSUME Init, NEW p \in Pods
                 PROVE  ok[p] <= Cardinality(Heard(p, next[p]))
      BY <1>d
    <2>1. ok[p] = 0 /\ next[p] = 0
      BY DEF Init
    <2>2. QED
      BY <1>p, <2>1, HeardFacts
  <1>2. TypeOK /\ CountsDistinctPeers /\ [Next]_vars => CountsDistinctPeers'
    <2> SUFFICES ASSUME TypeOK, CountsDistinctPeers, [Next]_vars
                 PROVE  CountsDistinctPeers'
      OBVIOUS
    <2>1. ASSUME NEW p \in Pods, AskPeer(p) PROVE CountsDistinctPeers'
      <3>1. /\ next[p] \in Nat /\ ok[p] \in Nat
            /\ pod[p] = "gate" /\ pod' = pod
            /\ ok[p] <= Cardinality(Heard(p, next[p]))
        BY <1>d, <2>1 DEF AskPeer, Waiting, TypeOK
      <3>2. next' = [next EXCEPT ![p] = next[p] + 1]
        BY <2>1 DEF AskPeer
      <3>3. \/ ok' = [ok EXCEPT ![p] = ok[p] + 1] /\ pod[next[p]] = "healthy"
            \/ ok' = ok
        BY <2>1 DEF AskPeer, Answers, TypeOK
      <3>4. \/ ok'[p] = ok[p] + 1 /\ p # next[p]
            \/ ok'[p] = ok[p]
        BY <3>1, <3>3 DEF TypeOK
      <3>5. PICK n : n = next[p]
        OBVIOUS
      <3>6. /\ n \in Nat /\ Cardinality(Heard(p, n)) \in Nat
            /\ Cardinality(Heard(p, n + 1)) =
                 IF p = n THEN Cardinality(Heard(p, n))
                 ELSE Cardinality(Heard(p, n)) + 1
        BY <1>p, <3>1, <3>5, HeardFacts
      <3>7. ok'[p] <= Cardinality(Heard(p, n + 1))
        BY <3>1, <3>4, <3>5, <3>6
      <3>8. /\ next'[p] = n + 1
            /\ \A q \in Pods \ {p} : next'[q] = next[q] /\ ok'[q] = ok[q]
        BY <3>2, <3>3, <3>5 DEF TypeOK
      <3>9. QED
        BY <1>d, <1>e, <3>1, <3>7, <3>8
    <2>2. ASSUME NEW p \in Pods, ok' = [ok EXCEPT ![p] = 0],
                 \A q \in Pods \ {p} : /\ next'[q] = next[q]
                                      /\ pod'[q] = pod[q],
                 next'[p] \in Nat
          PROVE  CountsDistinctPeers'
      <3>1. ok'[p] = 0 /\ \A q \in Pods \ {p} : ok'[q] = ok[q]
        BY <2>2 DEF TypeOK
      <3>2. Cardinality(Heard(p, next'[p])) \in Nat
        BY <1>p, <2>2, HeardFacts
      <3>3. QED
        BY <1>d, <1>e, <2>2, <3>1, <3>2
    <2>3. ASSUME NEW p \in Pods, SleepOneRound(p) PROVE CountsDistinctPeers'
      BY <2>2, <2>3 DEF SleepOneRound, TypeOK
    <2>4. ASSUME NEW p \in Pods,
                 Pass(p) \/ TimeOut(p) \/ CreatePod(p) \/ Evict(p)
          PROVE  CountsDistinctPeers'
      <3>1. Fresh(p)
        BY <2>4 DEF Pass, TimeOut, CreatePod, Evict
      <3>2. PICK s : pod' = [pod EXCEPT ![p] = s]
        BY <2>4, Zenon DEF Pass, TimeOut, CreatePod, Evict
      <3>3. QED
        BY <2>2, <3>1, <3>2 DEF Fresh, TypeOK
    <2>5. ASSUME NEW p \in Pods,
                 BecomeReady(p) \/ BecomeHealthy(p) \/ LoseHealth(p)
                   \/ CrashNode(p)
          PROVE  CountsDistinctPeers'
      <3>1. /\ UNCHANGED <<next, ok>>
            /\ \A q \in Pods : pod'[q] = "gate" => pod[q] = "gate"
        BY <2>5 DEF BecomeReady, BecomeHealthy, LoseHealth, CrashNode, gate,
                    TypeOK
      <3>2. QED
        BY <1>d, <1>e, <3>1
    <2>6. CASE UNCHANGED vars
      BY <2>6 DEF vars, CountsDistinctPeers
    <2>7. QED
      BY <2>1, <2>3, <2>4, <2>5, <2>6 DEF Next, Gate
  <1>3. QED
    BY <1>1, <1>2, TypeCorrect, PTL DEF Spec
===============================================================================
