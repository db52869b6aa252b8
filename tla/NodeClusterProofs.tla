--------------------------- MODULE NodeClusterProofs ---------------------------
(***************************************************************************)
(* What holds of the NodeCluster reconciler for every set of specs, every  *)
(* number of generations, replicas and faults, with and without the key    *)
(* check of CreateOrUpdate.                                                *)
(***************************************************************************)
EXTENDS NodeCluster, AppliedGenerationsProofs

USE SpecsAssumption, BoundsAssumption

-------------------------------------------------------------------------------
(* Lemmas about the operators a pass is built from.                        *)

\* SetCondition stays within the conditions, and it sets the one it is given
\* and no other.
LEMMA SetConditionFacts ==
    ASSUME NEW conds \in [ConditionTypes -> Condition(Reasons)],
           NEW type \in ConditionTypes, NEW s \in {"Unset", "True", "False"},
           NEW reason \in Reasons, NEW message \in Nat
    PROVE  /\ SetCondition(conds, type, s, reason, message)
                \in [ConditionTypes -> Condition(Reasons)]
           /\ SetCondition(conds, type, s, reason, message)[type].status = s
  <1>1. [status |-> s, reason |-> reason, message |-> message]
          \in Condition(Reasons)
    BY DEF Condition
  <1>2. QED
    BY <1>1 DEF SetCondition, Condition

LEMMA SetConditionKeeps ==
    ASSUME NEW conds \in [ConditionTypes -> Condition(Reasons)],
           NEW type \in ConditionTypes, NEW s, NEW reason, NEW message,
           NEW t \in ConditionTypes, t # type
    PROVE  SetCondition(conds, type, s, reason, message)[t] = conds[t]
  BY DEF SetCondition

\* Every spec of a generation has a positive number of replicas.
LEMMA SpecFacts ==
    ASSUME NEW f \in [Generations -> Specs], NEW g \in Generations
    PROVE  /\ f[g] \in SpecType
           /\ f[g].replicas \in 1..MaxPods
  <1>1. f[g] \in SpecType
    OBVIOUS
  <1>2. QED
    BY <1>1 DEF SpecType

\* The counts of a status are numbers.
LEMMA CountFacts ==
    ASSUME NEW st \in StatusType
    PROVE  st.ready \in Nat /\ st.healthy \in Nat /\ st.observed \in Nat
  <1>1. MaxPods \in Nat /\ MaxGen \in Nat
    OBVIOUS
  <1>2. /\ st.ready \in 0..MaxPods
        /\ st.healthy \in 0..MaxPods
        /\ st.observed \in 0..MaxGen
    BY DEF StatusType
  <1>3. QED
    BY <1>1, <1>2

LEMMA RequiredKinds ==
    ASSUME NEW sp \in SpecType PROVE Required(sp) \subseteq Kinds
  BY DEF Required, Kinds

\* What each status update writes.
LEMMA NotReadyFacts ==
    ASSUME NEW st \in StatusType, NEW phase \in Phases,
           NEW reason \in Reasons, NEW message \in Nat
    PROVE  /\ NotReady(st, phase, reason, message) \in StatusType
           /\ NotReady(st, phase, reason, message).observed = st.observed
           /\ NotReady(st, phase, reason, message).phase = phase
           /\ ~IsReady(NotReady(st, phase, reason, message).conds)
  <1> DEFINE c == SetCondition(st.conds, "Ready", "False", reason, message)
  <1>1. st.conds \in [ConditionTypes -> Condition(Reasons)]
    BY DEF StatusType
  <1>2. /\ c \in [ConditionTypes -> Condition(Reasons)]
        /\ c["Ready"].status = "False"
    <2>1. "Ready" \in ConditionTypes /\ "False" \in {"Unset", "True", "False"}
      BY DEF ConditionTypes
    <2>2. QED
      BY <1>1, <2>1, SetConditionFacts
  <1>3. NotReady(st, phase, reason, message)
          = [st EXCEPT !.phase = phase, !.conds = c]
    BY DEF NotReady
  <1> HIDE DEF c
  <1>4. QED
    BY <1>2, <1>3 DEF StatusType, IsReady

LEMMA UnknownStatusFacts ==
    ASSUME NEW st \in StatusType
    PROVE  /\ UnknownStatus(st) \in StatusType
           /\ UnknownStatus(st).observed = st.observed
           /\ UnknownStatus(st).phase # "Running"
           /\ ~IsReady(UnknownStatus(st).conds)
  <1>1. UnknownStatus(st) = NotReady(st, "Degraded", "UnknownProtocol", NoCount)
    BY DEF UnknownStatus, NotReady
  <1>2. "Degraded" \in Phases /\ "UnknownProtocol" \in Reasons /\ NoCount \in Nat
    BY DEF Phases, Reasons, NoCount
  <1>3. QED
    BY <1>1, <1>2, NotReadyFacts

LEMMA CreatingStatusFacts ==
    ASSUME NEW st \in StatusType
    PROVE  /\ CreatingStatus(st) \in StatusType
           /\ CreatingStatus(st).observed = st.observed
           /\ CreatingStatus(st).phase = "Creating"
           /\ CreatingStatus(st).conds["Ready"] = st.conds["Ready"]
  <1> DEFINE c == SetCondition(st.conds, "Progressing", "True", "Creating", NoCount)
  <1>1. st.conds \in [ConditionTypes -> Condition(Reasons)]
    BY DEF StatusType
  <1>2. /\ c \in [ConditionTypes -> Condition(Reasons)]
        /\ c["Ready"] = st.conds["Ready"]
    <2>1. /\ "Progressing" \in ConditionTypes
          /\ "Ready" \in ConditionTypes /\ "Ready" # "Progressing"
          /\ "True" \in {"Unset", "True", "False"}
          /\ "Creating" \in Reasons
          /\ NoCount \in Nat
      BY DEF ConditionTypes, Reasons, NoCount
    <2>2. QED
      BY <1>1, <2>1, SetConditionFacts, SetConditionKeeps
  <1>3. CreatingStatus(st) = [st EXCEPT !.phase = "Creating", !.conds = c]
    BY DEF CreatingStatus
  <1> HIDE DEF c
  <1>4. QED
    BY <1>2, <1>3 DEF StatusType, Phases

LEMMA DegradedStatusFacts ==
    ASSUME NEW st \in StatusType
    PROVE  /\ DegradedStatus(st) \in StatusType
           /\ DegradedStatus(st).observed = st.observed
           /\ DegradedStatus(st).phase = "Degraded"
           /\ ~IsReady(DegradedStatus(st).conds)
  <1> DEFINE n == NotReady(st, "Degraded", "Degraded", st.healthy)
             c == SetCondition(n.conds, "Degraded", "True", "Degraded",
                               st.healthy)
  <1>1. /\ "Degraded" \in ConditionTypes
        /\ "Ready" \in ConditionTypes /\ "Ready" # "Degraded"
        /\ "True" \in {"Unset", "True", "False"}
        /\ "Degraded" \in Reasons
        /\ "Degraded" \in Phases
        /\ st.healthy \in Nat
    BY CountFacts DEF ConditionTypes, Reasons, Phases
  <1>2. /\ n \in StatusType
        /\ n.observed = st.observed
        /\ n.phase = "Degraded"
        /\ ~IsReady(n.conds)
    BY <1>1, NotReadyFacts
  <1>3. DegradedStatus(st) = [n EXCEPT !.conds = c]
    BY DEF DegradedStatus
  <1> HIDE DEF n
  <1>4. n.conds \in [ConditionTypes -> Condition(Reasons)]
    BY <1>2 DEF StatusType
  <1>5. c \in [ConditionTypes -> Condition(Reasons)]
    BY <1>1, <1>4, SetConditionFacts
  <1>6. c["Ready"] = n.conds["Ready"]
    BY <1>1, <1>4, SetConditionKeeps
  <1> HIDE DEF c
  <1>7. QED
    BY <1>2, <1>3, <1>5, <1>6 DEF StatusType, IsReady

LEMMA RunningStatusFacts ==
    ASSUME NEW st \in StatusType
    PROVE  /\ RunningStatus(st) \in StatusType
           /\ RunningStatus(st).observed = st.observed
           /\ RunningStatus(st).ready = st.ready
           /\ RunningStatus(st).phase = "Running"
           /\ RunningStatus(st).boot
           /\ IsReady(RunningStatus(st).conds)
           /\ RunningStatus(st).conds["Degraded"].status = "False"
           /\ RunningStatus(st).conds["Progressing"].status = "False"
  <1> DEFINE c1 == SetCondition(st.conds, "Ready", "True",
                                "AllReplicasReady", NoCount)
             c2 == SetCondition(c1, "Progressing", "False", "Complete", NoCount)
             c3 == SetCondition(c2, "Degraded", "False", "Healthy", NoCount)
  <1>1. /\ "Ready" \in ConditionTypes
        /\ "Ready" \in ConditionTypes /\ "Ready" # "Progressing"
        /\ "Ready" \in ConditionTypes /\ "Ready" # "Degraded"
        /\ "Progressing" \in ConditionTypes
        /\ "Progressing" # "Degraded"
        /\ "Degraded" \in ConditionTypes
        /\ "True" \in {"Unset", "True", "False"}
        /\ "False" \in {"Unset", "True", "False"}
        /\ "AllReplicasReady" \in Reasons
        /\ "Complete" \in Reasons
        /\ "Healthy" \in Reasons
        /\ NoCount \in Nat
    BY DEF ConditionTypes, Reasons, NoCount
  <1>2. st.conds \in [ConditionTypes -> Condition(Reasons)]
    BY DEF StatusType
  <1>3. /\ c1 \in [ConditionTypes -> Condition(Reasons)]
        /\ c1["Ready"].status = "True"
    BY <1>1, <1>2, SetConditionFacts, SetConditionKeeps
  <1>4. RunningStatus(st) = [st EXCEPT !.phase = "Running", !.boot = TRUE,
                                       !.conds = c3]
    BY DEF RunningStatus
  <1> HIDE DEF c1
  <1>5. /\ c2 \in [ConditionTypes -> Condition(Reasons)]
        /\ c2["Progressing"].status = "False"
    BY <1>1, <1>3, SetConditionFacts
  <1>6. c2["Ready"] = c1["Ready"]
    BY <1>1, <1>3, SetConditionKeeps
  <1> HIDE DEF c2
  <1>7. /\ c3 \in [ConditionTypes -> Condition(Reasons)]
        /\ c3["Degraded"].status = "False"
    BY <1>1, <1>5, SetConditionFacts
  <1>8. /\ c3["Ready"] = c2["Ready"]
        /\ c3["Progressing"] = c2["Progressing"]
    BY <1>1, <1>5, SetConditionKeeps
  <1> HIDE DEF c3
  <1>9. QED
    BY <1>3, <1>4, <1>5, <1>6, <1>7, <1>8 DEF StatusType, Phases, IsReady

\* What the phase switch guarantees of the status f it makes of st.
WellWritten(f, st, replicas) ==
    /\ f \in StatusType
    /\ f.observed = st.observed
    /\ f.phase = "Running" <=> IsReady(f.conds)
    /\ f.phase = "Running" =>
         /\ f.ready >= replicas
         /\ f.boot
         /\ f.conds["Degraded"].status = "False"
         /\ f.conds["Progressing"].status = "False"

\* The phase switch keeps the observed generation, and it says Running, with
\* every condition in line, only when enough replicas were counted.
LEMMA FinalStatusFacts ==
    ASSUME NEW st \in StatusType, NEW replicas \in 1..MaxPods,
           NEW wasPolled \in BOOLEAN
    PROVE  WellWritten(FinalStatus(st, replicas, wasPolled), st, replicas)
  <1> DEFINE f == FinalStatus(st, replicas, wasPolled)
  <1>1. /\ st.ready \in Nat
        /\ st.healthy \in Nat
        /\ "Creating" \in Phases
        /\ "Bootstrapping" \in Phases
        /\ "NoReplicasReady" \in Reasons
        /\ "PartiallyReady" \in Reasons
        /\ "Bootstrapping" \in Reasons
        /\ NoCount \in Nat
    BY CountFacts DEF Phases, Reasons, NoCount
  <1>2. \/ f = NotReady(st, "Creating", "NoReplicasReady", NoCount)
        \/ f = NotReady(st, "Bootstrapping", "PartiallyReady", st.ready)
        \/ f = NotReady(st, "Bootstrapping", "Bootstrapping", NoCount)
        \/ f = DegradedStatus(st)
        \/ f = RunningStatus(st) /\ st.ready >= replicas
    BY <1>1 DEF FinalStatus
  <1> HIDE DEF f
  <1> SUFFICES WellWritten(f, st, replicas)
    BY DEF f
  <1> USE DEF WellWritten
  <1>3. CASE f = NotReady(st, "Creating", "NoReplicasReady", NoCount)
    <2> DEFINE n == NotReady(st, "Creating", "NoReplicasReady", NoCount)
    <2>1. /\ n \in StatusType
          /\ n.observed = st.observed
          /\ n.phase = "Creating"
          /\ ~IsReady(n.conds)
      BY <1>1, NotReadyFacts
    <2> HIDE DEF n
    <2>2. f = n
      BY <1>3 DEF n
    <2>3. QED
      BY <2>1, <2>2
  <1>4. CASE f = NotReady(st, "Bootstrapping", "PartiallyReady", st.ready)
    <2> DEFINE n == NotReady(st, "Bootstrapping", "PartiallyReady", st.ready)
    <2>1. /\ n \in StatusType
          /\ n.observed = st.observed
          /\ n.phase = "Bootstrapping"
          /\ ~IsReady(n.conds)
      BY <1>1, NotReadyFacts
    <2> HIDE DEF n
    <2>2. f = n
      BY <1>4 DEF n
    <2>3. QED
      BY <2>1, <2>2
  <1>5. CASE f = NotReady(st, "Bootstrapping", "Bootstrapping", NoCount)
    <2> DEFINE n == NotReady(st, "Bootstrapping", "Bootstrapping", NoCount)
    <2>1. /\ n \in StatusType
          /\ n.observed = st.observed
          /\ n.phase = "Bootstrapping"
          /\ ~IsReady(n.conds)
      BY <1>1, NotReadyFacts
    <2> HIDE DEF n
    <2>2. f = n
      BY <1>5 DEF n
    <2>3. QED
      BY <2>1, <2>2
  <1>6. CASE f = DegradedStatus(st)
    BY <1>6, DegradedStatusFacts
  <1>7. CASE f = RunningStatus(st) /\ st.ready >= replicas
    BY <1>7, RunningStatusFacts
  <1>8. QED
    BY <1>2, <1>3, <1>4, <1>5, <1>6, <1>7

-------------------------------------------------------------------------------
(* Type correctness.                                                       *)

LEMMA NoStatusType == NoStatus \in StatusType
  BY DEF NoStatus, StatusType, Phases, DegradedReasons, NoConditions, Unset,
         Condition, Reasons, NoCount, ConditionTypes

LEMMA NoWorkType ==
    NoWork \in [gen : Generations, base : StatusType, status : StatusType]
  BY NoStatusType DEF NoWork, Generations

LEMMA SpecOfWork ==
    ASSUME TypeOK
    PROVE  /\ spec \in SpecType
           /\ spec.replicas \in 1..MaxPods
           /\ Required(spec) \subseteq Kinds
  <1>1. work.gen \in Generations /\ specOf \in [Generations -> Specs]
    BY DEF TypeOK
  <1>2. QED
    BY <1>1, SpecFacts, RequiredKinds DEF spec

\* The status the final update writes.
LEMMA WrittenStatus ==
    ASSUME TypeOK, WriteStatus
    PROVE  WellWritten(status', [work.status EXCEPT !.observed = work.gen],
                       specOf[work.gen].replicas)
  <1> DEFINE st == [work.status EXCEPT !.observed = work.gen]
  <1>1. /\ work.status \in StatusType
        /\ work.gen \in 0..MaxGen
        /\ polled \in BOOLEAN
    BY DEF TypeOK, Generations
  <1>2. st \in StatusType
    BY <1>1 DEF StatusType
  <1>3. spec.replicas \in 1..MaxPods
    BY SpecOfWork
  <1>4. status' = FinalStatus(st, spec.replicas, polled)
    BY DEF WriteStatus
  <1> HIDE DEF st
  <1>5. WellWritten(status', st, spec.replicas)
    BY <1>1, <1>2, <1>3, <1>4, FinalStatusFacts
  <1>6. QED
    BY <1>5 DEF spec, st

\* TypeOK holds of every reachable state of the NodeCluster reconciler.
THEOREM TypeCorrect == Spec => []TypeOK
  <1>1. Init => TypeOK
    <2>1. 1 \in Generations /\ 0 \in 0..MaxGen /\ 0 \in 0..MaxPods
            /\ 0 \in 0..MaxFaults
      BY DEF Generations
    <2>2. Init => /\ status \in StatusType
                  /\ cache \in [gen : Generations, status : StatusType]
                  /\ work \in [gen : Generations, base : StatusType,
                               status : StatusType]
      BY <2>1, NoStatusType, NoWorkType DEF Init
    <2>3. Init => /\ child \in [Kinds -> 0..MaxGen]
                  /\ gen \in Generations
                  /\ stsReady \in 0..MaxPods
                  /\ faults \in 0..MaxFaults
      BY <2>1 DEF Init
    <2>4. QED
      BY <2>2, <2>3 DEF Init, TypeOK, Steps
  <1>2. TypeOK /\ [Next]_vars => TypeOK'
    <2> SUFFICES ASSUME TypeOK, [Next]_vars PROVE TypeOK'
      OBVIOUS
    <2> USE DEF TypeOK, given, object, cluster, pass, queue, Steps
    <2>1. CASE Fetch
      BY <2>1 DEF Fetch
    <2>2. CASE Conflict
      BY <2>2, NoWorkType DEF Conflict, Requeue, Return
    <2>3. CASE RejectUnknown
      BY <2>3, NoWorkType, UnknownStatusFacts DEF RejectUnknown, Return
    <2>4. CASE FirstStatus
      BY <2>4, CreatingStatusFacts DEF FirstStatus
    <2>5. ASSUME NEW k \in Kinds, Apply(k) PROVE TypeOK'
      <3>1. /\ child' = [child EXCEPT ![k] = work.gen]
            /\ done' = done \cup {k}
            /\ work.gen \in 0..MaxGen
        BY <2>5 DEF Apply, Generations
      <3>2. child' \in [Kinds -> 0..MaxGen] /\ done' \subseteq Kinds
        BY <3>1
      <3>3. dirty' \in BOOLEAN
        BY <2>5, Zenon DEF Apply
      <3>4. QED
        BY <2>5, <3>1, <3>2, <3>3 DEF Apply
    <2>6. ASSUME NEW k \in Kinds, ApplyRefused(k) PROVE TypeOK'
      BY <2>6, NoWorkType DEF ApplyRefused, Requeue, Return
    <2>7. CASE ReadStatefulSet
      <3>1. work'.status = [work.status EXCEPT !.ready = stsReady]
            /\ work'.gen = work.gen /\ work'.base = work.base
            /\ work' \in [gen : Generations, base : StatusType,
                           status : {work'.status}]
        BY <2>7 DEF ReadStatefulSet
      <3>2. work'.status \in StatusType
        BY <3>1 DEF StatusType
      <3>3. work' \in [gen : Generations, base : StatusType,
                       status : StatusType]
        BY <3>1, <3>2
      <3>4. QED
        BY <2>7, <3>3 DEF ReadStatefulSet, AfterRead
    <2>8. CASE PollHealth
      <3>1. PICK healthy \in 0..MaxPods, reasons \in SUBSET DegradedReasons :
              work' = [work EXCEPT !.status.healthy = healthy,
                                   !.status.reasons = reasons]
        BY <2>8 DEF PollHealth, DegradedReasons
      <3>2. [work.status EXCEPT !.healthy = healthy, !.reasons = reasons]
              \in StatusType
        BY DEF StatusType
      <3>3. work' \in [gen : Generations, base : StatusType,
                       status : StatusType]
        BY <3>1, <3>2
      <3>4. QED
        BY <2>8, <3>3 DEF PollHealth
    <2>9. CASE SkipPoll
      BY <2>9 DEF SkipPoll
    <2>10. CASE WriteStatus
      BY <2>10, WrittenStatus, NoWorkType DEF WriteStatus, Return, WellWritten
    <2>11. CASE RequeueAfter
      BY <2>11 DEF RequeueAfter
    <2>12. CASE Sync
      BY <2>12 DEF Sync, SpecChanged
    <2>13. CASE ReadStatefulSetFails
      BY <2>13 DEF ReadStatefulSetFails, AfterRead
    <2>14. CASE CallFails
      <3>1. faults' \in 0..MaxFaults
        BY <2>14 DEF CallFails
      <3>2. QED
        BY <2>14, <3>1, NoWorkType DEF CallFails, Requeue, Return
    <2>15. CASE Restart
      <3>1. faults' \in 0..MaxFaults
        BY <2>15 DEF Restart
      <3>2. QED
        BY <2>15, <3>1, NoWorkType DEF Restart, Return
    <2>16. CASE EditSpec
      BY <2>16 DEF EditSpec, Generations
    <2>17. ASSUME NEW n \in 0..MaxPods, ReportReady(n) PROVE TypeOK'
      BY <2>17 DEF ReportReady
    <2>18. CASE UNCHANGED vars
      BY <2>18 DEF vars
    <2>19. QED
      BY <2>1, <2>2, <2>3, <2>4, <2>5, <2>6, <2>7, <2>8, <2>9, <2>10, <2>11,
         <2>12, <2>13, <2>14, <2>15, <2>16, <2>17, <2>18
         DEF Next, Operator, Environment
  <1>3. QED
    BY <1>1, <1>2, PTL DEF Spec

-------------------------------------------------------------------------------
(* Observed generations.                                                   *)

\* Children that only move forward keep a status honest.
LEMMA HonestForward ==
    ASSUME NEW st \in StatusType, NEW f \in [Generations -> Specs],
           NEW c \in [Kinds -> 0..MaxGen], NEW d \in [Kinds -> 0..MaxGen],
           \A k \in Kinds : d[k] >= c[k],
           Honest(st, f, c)
    PROVE  Honest(st, f, d)
  <1> SUFFICES ASSUME st.observed # 0, NEW k \in Required(f[st.observed])
               PROVE  d[k] >= st.observed
    BY DEF Honest
  <1>1. st.observed \in Generations
    BY CountFacts DEF StatusType, Generations
  <1>2. k \in Kinds
    BY <1>1, SpecFacts, RequiredKinds
  <1>3. c[k] >= st.observed
    BY DEF Honest
  <1>4. c[k] \in Int /\ d[k] \in Int /\ st.observed \in Int /\ d[k] >= c[k]
    BY <1>1, <1>2 DEF Generations
  <1>5. QED
    BY <1>3, <1>4

\* Honesty is about the observed generation alone.
LEMMA HonestSame ==
    ASSUME NEW st, NEW tt, NEW f, NEW c, Honest(st, f, c),
           tt.observed = st.observed
    PROVE  Honest(tt, f, c)
  BY DEF Honest

LEMMA NoWorkFacts == NoWork.status.observed = 0 /\ NoWork.gen = 1
  BY DEF NoWork, NoStatus

\* A step that leaves the children, the specs, the status and the cache alone
\* and ends the pass with the work item queued keeps the invariant.
LEMMA RequeueKeeps ==
    ASSUME TypeOK, GenerationInv, Requeue,
           UNCHANGED <<object, cache, cluster>>
    PROVE  GenerationInv'
  BY NoWorkFacts
     DEF GenerationInv, Honest, Ordered, Staged, Accounted, Requeue, Return,
         given, object, cluster

\* The strengthening holds of every reachable state.
THEOREM GenerationsInvariant == Spec => []GenerationInv
  <1>1. Init => GenerationInv
    <2> SUFFICES ASSUME Init PROVE GenerationInv
      OBVIOUS
    <2>1. /\ Honest(status, specOf, child)
          /\ Honest(cache.status, specOf, child)
          /\ Honest(work.status, specOf, child)
      BY DEF Init, Honest, NoStatus, NoWork
    <2>2. Ordered /\ Staged /\ Accounted
      BY DEF Init, Ordered, Staged, Accounted
    <2>3. QED
      BY <2>1, <2>2 DEF GenerationInv
  <1>2. TypeOK /\ GenerationInv /\ [Next]_vars => GenerationInv'
    <2> SUFFICES ASSUME TypeOK, GenerationInv, [Next]_vars
                 PROVE  GenerationInv'
      OBVIOUS
    <2> USE DEF given, object, cluster, pass, queue
    <2>1. CASE Fetch
      <3>1. /\ work'.gen = cache.gen /\ work'.status = cache.status
            /\ done' = {} /\ pc' \in {"unknown", "first", "apply"}
            /\ pc' = "unknown" => ~Registered(specOf[cache.gen])
            /\ UNCHANGED <<specOf, gen, status, cache, child>>
        BY <2>1 DEF Fetch
      <3>2. Ordered'
        BY <3>1 DEF GenerationInv, Ordered, TypeOK, Generations
      <3>3. Staged'
        BY <3>1 DEF Staged, spec
      <3>4. Accounted'
        BY <3>1 DEF Accounted
      <3>5. QED
        BY <3>1, <3>2, <3>3, <3>4 DEF GenerationInv
    <2>2. CASE Conflict
      BY <2>2, RequeueKeeps DEF Conflict
    <2>3. CASE RejectUnknown
      <3>1. Honest(status', specOf, child)
        BY <2>3, UnknownStatusFacts, HonestSame
           DEF RejectUnknown, GenerationInv, TypeOK
      <3>2. QED
        BY <2>3, <3>1, NoWorkFacts
           DEF RejectUnknown, Return, GenerationInv, Honest, Ordered, Staged,
               Accounted, spec
    <2>4. CASE FirstStatus
      <3>1. /\ status' = CreatingStatus(work.status)
            /\ work'.status = CreatingStatus(work.status)
            /\ work'.gen = work.gen
        BY <2>4 DEF FirstStatus, TypeOK
      <3>2. Honest(CreatingStatus(work.status), specOf, child)
        BY CreatingStatusFacts, HonestSame DEF GenerationInv, TypeOK
      <3>3. QED
        BY <2>4, <3>1, <3>2
           DEF FirstStatus, GenerationInv, Ordered, Staged, Accounted, spec
    <2>5. ASSUME NEW k \in Kinds, Apply(k) PROVE GenerationInv'
      <3>1. /\ child' = [child EXCEPT ![k] = work.gen]
            /\ done' = done \cup {k}
            /\ pc = "apply" /\ pc' = "apply"
            /\ dirty => dirty'
            /\ UNCHANGED <<specOf, gen, status, cache, work>>
        BY <2>5 DEF Apply
      <3>2. /\ child' \in [Kinds -> 0..MaxGen]
            /\ work.gen \in Generations
            /\ \A j \in Kinds : child[j] <= work.gen
        BY <3>1 DEF TypeOK, Generations, GenerationInv, Ordered
      <3>3. \A j \in Kinds : child'[j] >= child[j]
        BY <3>1, <3>2 DEF TypeOK, Generations
      <3>4. /\ Honest(status, specOf, child')
            /\ Honest(cache.status, specOf, child')
            /\ Honest(work.status, specOf, child')
        BY <3>2, <3>3, HonestForward DEF GenerationInv, TypeOK
      <3>5. Ordered'
        BY <3>1, <3>2 DEF GenerationInv, Ordered, TypeOK, Generations
      <3>6. Staged' /\ Accounted'
        BY <3>1 DEF GenerationInv, Staged, Accounted
      <3>7. QED
        BY <3>1, <3>4, <3>5, <3>6 DEF GenerationInv
    <2>6. ASSUME NEW k \in Kinds, ApplyRefused(k) PROVE GenerationInv'
      BY <2>6, RequeueKeeps DEF ApplyRefused
    <2>7. CASE ReadStatefulSet
      <3>1. /\ work'.status.observed = work.status.observed
            /\ work'.gen = work.gen
        BY <2>7 DEF ReadStatefulSet, TypeOK, StatusType
      <3>2. Honest(work'.status, specOf, child)
        BY <3>1, HonestSame DEF GenerationInv
      <3>3. QED
        BY <2>7, <3>1, <3>2
           DEF ReadStatefulSet, AfterRead, GenerationInv, Ordered, Staged,
               Accounted, spec
    <2>8. CASE PollHealth
      <3>1. PICK healthy, reasons :
              work' = [work EXCEPT !.status.healthy = healthy,
                                   !.status.reasons = reasons]
        BY <2>8, Zenon DEF PollHealth
      <3>2. /\ work'.status.observed = work.status.observed
            /\ work'.gen = work.gen
        BY <3>1 DEF TypeOK, StatusType
      <3>3. Honest(work'.status, specOf, child)
        BY <3>2, HonestSame DEF GenerationInv
      <3>4. QED
        BY <2>8, <3>2, <3>3
           DEF PollHealth, GenerationInv, Ordered, Staged, Accounted, spec
    <2>9. CASE SkipPoll
      BY <2>9 DEF SkipPoll, GenerationInv, Ordered, Staged, Accounted, spec
    <2>10. CASE WriteStatus
      <3>1. /\ pc = "write" /\ pc' = "idle"
            /\ dirty' = dirty
            /\ UNCHANGED <<specOf, gen, cache, child>>
            /\ work' = NoWork
        BY <2>10 DEF WriteStatus, Return
      <3>2. status'.observed = work.gen
        BY <2>10, WrittenStatus DEF WellWritten, TypeOK, StatusType
      <3>3. \A k \in Required(spec) : child[k] = work.gen
        BY <3>1 DEF GenerationInv, Staged, Ordered
      <3>4. /\ Honest(status', specOf, child)
            /\ Honest(NoWork.status, specOf, child)
        BY <3>2, <3>3, NoWorkFacts DEF Honest, spec, TypeOK, Generations
      <3>5. Ordered' /\ Staged'
        BY <3>1 DEF GenerationInv, Ordered, Staged
      <3>6. Accounted'
        BY <3>1, <3>2, <3>3 DEF GenerationInv, Accounted, spec
      <3>7. QED
        BY <3>1, <3>4, <3>5, <3>6 DEF GenerationInv
    <2>11. CASE RequeueAfter
      BY <2>11 DEF RequeueAfter, GenerationInv, Ordered, Staged, Accounted,
                   spec
    <2>12. CASE Sync
      <3>1. /\ cache'.gen = gen /\ cache'.status = status
            /\ cache.gen # gen => dirty'
            /\ dirty => dirty'
            /\ UNCHANGED <<specOf, gen, status, child, pc, work, done>>
        BY <2>12 DEF Sync, SpecChanged
      <3>2. Ordered'
        BY <3>1 DEF GenerationInv, Ordered, TypeOK, Generations
      <3>3. Staged' /\ Accounted'
        BY <3>1 DEF GenerationInv, Staged, Accounted, spec
      <3>4. QED
        BY <3>1, <3>2, <3>3 DEF GenerationInv
    <2>13. CASE ReadStatefulSetFails
      BY <2>13 DEF ReadStatefulSetFails, AfterRead, GenerationInv, Ordered,
                   Staged, Accounted, spec
    <2>14. CASE CallFails
      BY <2>14, RequeueKeeps DEF CallFails
    <2>15. CASE Restart
      <3>1. /\ cache'.gen = gen /\ cache'.status = status
            /\ dirty' /\ pc' = "idle" /\ work' = NoWork
            /\ UNCHANGED <<specOf, gen, status, child>>
        BY <2>15 DEF Restart, Return
      <3>2. Ordered'
        BY <3>1 DEF GenerationInv, Ordered, TypeOK, Generations
      <3>3. QED
        BY <3>1, <3>2, NoWorkFacts
           DEF GenerationInv, Honest, Staged, Accounted
    <2>16. CASE EditSpec
      <3>1. Ordered'
        BY <2>16 DEF EditSpec, GenerationInv, Ordered, TypeOK, Generations
      <3>2. QED
        BY <2>16, <3>1 DEF EditSpec, GenerationInv, Staged, Accounted, spec
    <2>17. ASSUME NEW n \in 0..MaxPods, ReportReady(n) PROVE GenerationInv'
      BY <2>17 DEF ReportReady, GenerationInv, Ordered, Staged, Accounted,
                   spec
    <2>18. CASE UNCHANGED vars
      BY <2>18 DEF vars, GenerationInv, Ordered, Staged, Accounted, spec
    <2>19. QED
      BY <2>1, <2>2, <2>3, <2>4, <2>5, <2>6, <2>7, <2>8, <2>9, <2>10, <2>11,
         <2>12, <2>13, <2>14, <2>15, <2>16, <2>17, <2>18
         DEF Next, Operator, Environment
  <1>3. QED
    BY <1>1, <1>2, TypeCorrect, PTL DEF Spec

\* When the status says a generation was observed, every child it asks for was
\* built from that generation or a later one.
THEOREM ObservedApplied == Spec => []ObservedWasApplied
  <1>1. GenerationInv => ObservedWasApplied
    BY DEF GenerationInv, ObservedWasApplied
  <1>2. QED
    BY <1>1, GenerationsInvariant, PTL

\* An operator with nothing queued or in progress that has seen the current
\* generation has applied and reported it: no edit is ever forgotten.
THEOREM NoEditForgotten == Spec => []NothingForgotten
  <1>1. GenerationInv => NothingForgotten
    BY DEF GenerationInv, Accounted, NothingForgotten
  <1>2. QED
    BY <1>1, GenerationsInvariant, PTL
-------------------------------------------------------------------------------
(* Phase and conditions.                                                   *)

\* A status of a phase other than Running whose Ready condition is not True
\* tells a consistent story.
LEMMA QuietStory ==
    ASSUME NEW st, NEW f, st.phase # "Running", ~IsReady(st.conds)
    PROVE  RunningStory(st, f)
  BY DEF RunningStory

\* The story depends on the status and the specs alone.
LEMMA StoryKeeps ==
    ASSUME StoryInv, UNCHANGED <<specOf, status>>,
           cache'.status \in {cache.status, status},
           pc' # "first"
    PROVE  StoryInv'
  BY DEF StoryInv

\* The status read into a pass that starts with a first update is not Ready.
THEOREM StoryInvariant == Spec => []StoryInv
  <1>1. Init => StoryInv
    <2>1. NoStatus.phase # "Running" /\ ~IsReady(NoStatus.conds)
      BY DEF NoStatus, NoConditions, Unset, IsReady, ConditionTypes
    <2>2. QED
      BY <2>1, QuietStory DEF Init, StoryInv
  <1>2. TypeOK /\ StoryInv /\ [Next]_vars => StoryInv'
    <2> SUFFICES ASSUME TypeOK, StoryInv, [Next]_vars
                 PROVE  StoryInv'
      OBVIOUS
    <2> USE DEF given, object, cluster, pass, queue
    <2>1. CASE Fetch
      <3>1. /\ UNCHANGED <<specOf, status, cache>>
            /\ work'.status = cache.status
            /\ pc' = "first" => cache.status.phase = ""
        BY <2>1 DEF Fetch
      <3>2. cache.status.phase = "" => ~IsReady(cache.status.conds)
        BY DEF StoryInv, RunningStory
      <3>3. QED
        BY <3>1, <3>2 DEF StoryInv
    <2>2. CASE Conflict
      BY <2>2, StoryKeeps DEF Conflict, Requeue, Return
    <2>3. CASE RejectUnknown
      <3>1. RunningStory(status', specOf)
        <4>1. status' = UnknownStatus(work.status)
          BY <2>3 DEF RejectUnknown
        <4>2. work.status \in StatusType
          BY DEF TypeOK
        <4>3. QED
          BY <4>1, <4>2, UnknownStatusFacts, QuietStory
      <3>2. QED
        BY <2>3, <3>1 DEF RejectUnknown, Return, StoryInv
    <2>4. CASE FirstStatus
      <3>1. RunningStory(status', specOf)
        <4>1. status' = CreatingStatus(work.status)
          BY <2>4 DEF FirstStatus
        <4>2. work.status \in StatusType /\ ~IsReady(work.status.conds)
          BY <2>4 DEF TypeOK, FirstStatus, StoryInv
        <4>3. status'.phase # "Running" /\ ~IsReady(status'.conds)
          BY <4>1, <4>2, CreatingStatusFacts DEF IsReady
        <4>4. QED
          BY <4>3, QuietStory
      <3>2. QED
        BY <2>4, <3>1 DEF FirstStatus, StoryInv
    <2>5. ASSUME NEW k \in Kinds, Apply(k) PROVE StoryInv'
      BY <2>5, StoryKeeps DEF Apply
    <2>6. ASSUME NEW k \in Kinds, ApplyRefused(k) PROVE StoryInv'
      BY <2>6, StoryKeeps DEF ApplyRefused, Requeue, Return
    <2>7. CASE ReadStatefulSet
      BY <2>7, StoryKeeps DEF ReadStatefulSet, AfterRead
    <2>8. CASE PollHealth
      BY <2>8, StoryKeeps DEF PollHealth
    <2>9. CASE SkipPoll
      BY <2>9, StoryKeeps DEF SkipPoll
    <2>10. CASE WriteStatus
      <3> DEFINE st == [work.status EXCEPT !.observed = work.gen]
      <3>1. st.observed = work.gen
        BY DEF TypeOK, StatusType
      <3> HIDE DEF st
      <3>2. WellWritten(status', st, specOf[work.gen].replicas)
        BY <2>10, WrittenStatus DEF st
      <3>3. work.gen # 0
        BY DEF TypeOK, Generations
      <3>4. RunningStory(status', specOf)
        BY <3>1, <3>2, <3>3 DEF WellWritten, RunningStory
      <3>5. QED
        BY <2>10, <3>4 DEF WriteStatus, Return, StoryInv
    <2>11. CASE RequeueAfter
      BY <2>11 DEF RequeueAfter, StoryInv
    <2>12. CASE Sync
      BY <2>12 DEF Sync, StoryInv
    <2>13. CASE ReadStatefulSetFails
      BY <2>13, StoryKeeps DEF ReadStatefulSetFails, AfterRead
    <2>14. CASE CallFails
      BY <2>14, StoryKeeps DEF CallFails, Requeue, Return
    <2>15. CASE Restart
      BY <2>15, StoryKeeps DEF Restart, Return
    <2>16. CASE EditSpec
      BY <2>16 DEF EditSpec, StoryInv
    <2>17. ASSUME NEW n \in 0..MaxPods, ReportReady(n) PROVE StoryInv'
      BY <2>17 DEF ReportReady, StoryInv
    <2>18. CASE UNCHANGED vars
      BY <2>18 DEF vars, StoryInv
    <2>19. QED
      BY <2>1, <2>2, <2>3, <2>4, <2>5, <2>6, <2>7, <2>8, <2>9, <2>10, <2>11,
         <2>12, <2>13, <2>14, <2>15, <2>16, <2>17, <2>18
         DEF Next, Operator, Environment
  <1>3. QED
    BY <1>1, <1>2, TypeCorrect, PTL DEF Spec

\* Phase Running and a True Ready condition go together, and then the observed
\* generation's replicas were counted ready and no other condition contradicts.
THEOREM RunningReady == Spec => []RunningIsReady
  <1>1. StoryInv => RunningIsReady
    BY DEF StoryInv, RunningIsReady
  <1>2. QED
    BY <1>1, StoryInvariant, PTL

\* Until its final update a pass carries the observed generation it has read.
ObservedKept == work.status.observed = work.base.observed

LEMMA PassKeepsObserved == Spec => []ObservedKept
  <1>1. Init => ObservedKept
    BY DEF Init, NoWork, ObservedKept
  <1>2. TypeOK /\ ObservedKept /\ [Next]_vars => ObservedKept'
    <2> SUFFICES ASSUME TypeOK, ObservedKept, [Next]_vars PROVE ObservedKept'
      OBVIOUS
    <2> USE DEF given, object, cluster, pass, queue
    <2>1. CASE UNCHANGED vars
      BY <2>1 DEF vars, ObservedKept
    <2>2. ASSUME NEW k \in Kinds, Apply(k) PROVE ObservedKept'
      BY <2>2 DEF Apply, ObservedKept
    <2>3. CASE SkipPoll \/ RequeueAfter \/ Sync
      BY <2>3 DEF SkipPoll, RequeueAfter, Sync, ObservedKept
    <2>4. CASE ReadStatefulSetFails \/ EditSpec
      BY <2>4 DEF ReadStatefulSetFails, EditSpec, ObservedKept
    <2>5. ASSUME NEW n \in 0..MaxPods, ReportReady(n) PROVE ObservedKept'
      BY <2>5 DEF ReportReady, ObservedKept
    <2>6. CASE Conflict \/ RejectUnknown \/ WriteStatus
      BY <2>6 DEF Conflict, RejectUnknown, WriteStatus, Requeue, Return,
                  ObservedKept, NoWork
    <2>7. CASE CallFails \/ Restart
      BY <2>7 DEF CallFails, Restart, Requeue, Return, ObservedKept, NoWork
    <2>8. ASSUME NEW k \in Kinds, ApplyRefused(k) PROVE ObservedKept'
      BY <2>8 DEF ApplyRefused, Requeue, Return, ObservedKept, NoWork
    <2>9. CASE Fetch
      BY <2>9 DEF Fetch, ObservedKept
    <2>10. CASE FirstStatus
      BY <2>10 DEF FirstStatus, ObservedKept, TypeOK
    <2>11. CASE ReadStatefulSet
      BY <2>11 DEF ReadStatefulSet, ObservedKept, TypeOK, StatusType
    <2>12. CASE PollHealth
      <3>1. PICK healthy, reasons :
              work' = [work EXCEPT !.status.healthy = healthy,
                                   !.status.reasons = reasons]
        BY <2>12 DEF PollHealth
      <3>2. QED
        BY <3>1 DEF ObservedKept, TypeOK, StatusType
    <2>13. QED
      BY <2>1, <2>2, <2>3, <2>4, <2>5, <2>6, <2>7, <2>8, <2>9, <2>10, <2>11,
         <2>12
         DEF Next, Operator, Environment
  <1>3. QED
    BY <1>1, <1>2, TypeCorrect, PTL DEF Spec

\* Only the final update of a pass reports a generation: the current one, whose
\* children it has just applied.
LEMMA ReportStep ==
    ASSUME TypeOK, GenerationInv, ObservedKept, Next,
           status'.observed # status.observed
    PROVE  /\ WriteStatus
           /\ status'.observed = gen
           /\ \A k \in Required(specOf[gen]) : child[k] = gen
  <1> USE DEF given, object, cluster, pass, queue
  <1>1. status' # status
    OBVIOUS
  <1>2. RejectUnknown \/ FirstStatus \/ WriteStatus
    BY <1>1 DEF Next, Operator, Environment, Fetch, Conflict, Apply,
           ApplyRefused, ReadStatefulSet, PollHealth, SkipPoll, RequeueAfter,
           Sync, ReadStatefulSetFails, CallFails, Restart, EditSpec,
           ReportReady
  <1>3. ~RejectUnknown
    BY UnknownStatusFacts DEF RejectUnknown, Unmodified, TypeOK, ObservedKept
  <1>4. ~FirstStatus
    BY CreatingStatusFacts DEF FirstStatus, Unmodified, TypeOK, ObservedKept
  <1>5. WriteStatus
    BY <1>2, <1>3, <1>4
  <1>6. gen = work.gen /\ status'.observed = work.gen
    BY <1>5, WrittenStatus
       DEF WriteStatus, Unmodified, WellWritten, TypeOK, StatusType
  <1>7. \A k \in Required(spec) : child[k] = work.gen
    BY <1>5 DEF WriteStatus, GenerationInv, Staged, Ordered
  <1>8. QED
    BY <1>5, <1>6, <1>7 DEF spec

\* A generation is reported when it is the current one, and by a pass that has
\* just applied every child its spec asks for.
THEOREM CurrentSpecReported == Spec => ReportsCurrentSpec
  <1> DEFINE Reported == /\ status'.observed = gen
                         /\ \A k \in Required(specOf[gen]) : child[k] = gen
  <1>1. TypeOK /\ GenerationInv /\ ObservedKept /\ [Next]_vars
          => [status'.observed # status.observed => Reported]_vars
    BY ReportStep
  <1>2. QED
    BY <1>1, TypeCorrect, GenerationsInvariant, PassKeepsObserved, PTL
       DEF Spec, ReportsCurrentSpec
-------------------------------------------------------------------------------
(* The NodeCluster keeps the promise of AppliedGenerations.                *)

\* The generations whose children are built: FullyApplied is the latest.
AppliedGens ==
    {g \in 1..gen : \A k \in Required(specOf[g]) : child[k] >= g}

LEMMA FullyAppliedIsLatest == FullyApplied = Latest(AppliedGens)
  BY DEF FullyApplied, Latest, AppliedGens

\* Specs are kept, children only move forward, and an edit changes nothing but
\* the generation.
LEMMA ForwardStep ==
    ASSUME TypeOK, GenerationInv, [Next]_vars
    PROVE  /\ specOf' = specOf
           /\ \A k \in Kinds : child[k] \in Int /\ child'[k] \in Int
                               /\ child'[k] >= child[k]
           /\ \/ gen' = gen + 1 /\ child' = child /\ status' = status
              \/ gen' = gen
           /\ WriteStatus => gen' = gen /\ child' = child
  <1> USE DEF given, object, cluster, pass, queue
  <1>t. child \in [Kinds -> 0..MaxGen] /\ \A k \in Kinds : child[k] \in Int
    BY DEF TypeOK
  <1>1. ASSUME NEW k \in Kinds, Apply(k)
        PROVE  /\ UNCHANGED <<specOf, gen>>
               /\ \A j \in Kinds : child'[j] \in Int /\ child'[j] >= child[j]
    <2>1. /\ child' = [child EXCEPT ![k] = work.gen]
          /\ UNCHANGED <<specOf, gen>>
          /\ pc = "apply"
      BY <1>1 DEF Apply
    <2>2. work.gen \in Int /\ \A j \in Kinds : child[j] <= work.gen
      BY <2>1 DEF TypeOK, Generations, GenerationInv, Ordered
    <2>3. QED
      BY <1>t, <2>1, <2>2
  <1>2. CASE EditSpec
    BY <1>t, <1>2 DEF EditSpec, WriteStatus, TypeOK, Generations
  <1>3. ASSUME ~EditSpec, \A k \in Kinds : ~Apply(k)
        PROVE  UNCHANGED <<specOf, gen, child>>
    BY <1>3 DEF Next, Operator, Environment, Fetch, Conflict, RejectUnknown,
           FirstStatus, ApplyRefused, ReadStatefulSet, PollHealth, SkipPoll,
           WriteStatus, RequeueAfter, Sync, ReadStatefulSetFails, CallFails,
           Restart, ReportReady, vars
  <1>4. WriteStatus => UNCHANGED <<gen, child>>
    BY DEF WriteStatus
  <1>5. QED
    BY <1>t, <1>1, <1>2, <1>3, <1>4

LEMMA AppliedStep ==
    ASSUME TypeOK, GenerationInv, [Next]_vars
    PROVE  /\ AppliedGens \subseteq AppliedGens'
           /\ AppliedGens \subseteq 1..gen
           /\ AppliedGens' \subseteq 1..gen'
           /\ gen' = gen + 1 => AppliedGens' \subseteq AppliedGens \cup {gen + 1}
  <1>g. gen \in 1..MaxGen /\ gen' \in {gen, gen + 1}
    BY ForwardStep DEF TypeOK, Generations
  <1>r. \A g \in 1..gen : Required(specOf[g]) \subseteq Kinds
    <2>1. \A g \in 1..gen : specOf[g] \in SpecType
      BY <1>g DEF TypeOK, Generations
    <2>2. QED
      BY <2>1, RequiredKinds
  <1>1. ASSUME NEW g \in AppliedGens PROVE g \in AppliedGens'
    <2>1. g \in 1..gen /\ \A k \in Required(specOf[g]) : child[k] >= g
      BY DEF AppliedGens
    <2>2. g \in 1..gen' /\ g \in Int
      BY <1>g, <2>1
    <2>3. \A k \in Required(specOf[g]) : child'[k] >= g
      BY <1>r, <2>1, <2>2, ForwardStep
    <2>4. QED
      BY <2>2, <2>3, ForwardStep DEF AppliedGens
  <1>2. ASSUME gen' = gen + 1
        PROVE  AppliedGens' \subseteq AppliedGens \cup {gen + 1}
    <2>1. child' = child /\ specOf' = specOf
      BY <1>2, <1>g, ForwardStep
    <2>2. \A g \in 1..(gen + 1) : g \in 1..gen \/ g = gen + 1
      BY <1>g
    <2>3. QED
      BY <1>2, <2>1, <2>2 DEF AppliedGens
  <1>3. QED
    BY <1>1, <1>2 DEF AppliedGens

\* What is reported has been applied, so it is not ahead of the edits.
LEMMA ObservedNotAhead ==
    ASSUME TypeOK, GenerationInv
    PROVE  status.observed \in Nat /\ status.observed <= gen
  <1>1. /\ status.observed \in Nat /\ gen \in Nat /\ cache.gen \in Nat
        /\ child["statefulset"] \in Nat
    <2>1. status.observed \in 0..MaxGen /\ cache.gen \in 1..MaxGen
      BY DEF TypeOK, StatusType, Generations
    <2>2. "statefulset" \in Kinds
      BY DEF Kinds
    <2>3. child["statefulset"] \in 0..MaxGen /\ gen \in 1..MaxGen
      BY <2>2 DEF TypeOK, Generations
    <2>4. QED
      BY <2>1, <2>3
  <1>2. status.observed # 0 => child["statefulset"] >= status.observed
    BY DEF GenerationInv, Honest, Required
  <1>3. child["statefulset"] <= cache.gen /\ cache.gen <= gen
    BY DEF GenerationInv, Ordered, Kinds
  <1>4. QED
    BY <1>1, <1>2, <1>3

LEMMA ContractInit == Init => Contract!Init
  <1> SUFFICES ASSUME Init PROVE Contract!Init
    OBVIOUS
  <1>1. gen = 1 /\ status.observed = 0
    BY DEF Init, NoStatus
  <1>2. gen \in Nat /\ AppliedGens \in SUBSET (1..gen)
    BY <1>1 DEF AppliedGens
  <1>3. Latest(AppliedGens) \in 0..gen
    BY <1>2, LatestFacts
  <1>4. QED
    BY <1>1, <1>3, FullyAppliedIsLatest DEF Contract!Init

LEMMA ContractNext ==
    ASSUME TypeOK, GenerationInv, ObservedKept, [Next]_vars
    PROVE  \/ Contract!Edit \/ Contract!Roll \/ Contract!Report
           \/ UNCHANGED <<gen, FullyApplied, status.observed>>
  <1>t. gen \in Nat
    BY DEF TypeOK, Generations
  <1> PICK g, A, B : g = gen /\ A = AppliedGens /\ B = AppliedGens'
    OBVIOUS
  <1>1. /\ g \in Nat /\ A \in SUBSET (1..g) /\ A \subseteq B
        /\ FullyApplied = Latest(A)
        /\ FullyApplied' = Latest(B)
    <2>1. AppliedGens' = B => Latest(AppliedGens)' = Latest(B)
      OBVIOUS
    <2>2. FullyApplied' = Latest(AppliedGens)'
      BY DEF FullyApplied, Latest, AppliedGens
    <2>3. QED
      BY <1>t, <2>1, <2>2, AppliedStep, FullyAppliedIsLatest
  <1>2. CASE gen' = gen + 1 /\ status' = status
    <2>1. B \subseteq A \cup {g + 1}
      BY <1>2, AppliedStep
    <2>2. Latest(B) \in {Latest(A), g + 1}
      BY <1>1, <2>1, LatestEdited
    <2>3. QED
      BY <1>1, <1>2, <2>2 DEF Contract!Edit
  <1>3. CASE gen' = gen
    <2>1. Latest(B) = Latest(A) \/ Latest(B) \in (Latest(A) + 1)..g
      <3>1. B \in SUBSET (1..g)
        BY <1>3, AppliedStep
      <3>2. QED
        BY <1>1, <3>1, LatestGrows
    <2>2. CASE status'.observed = status.observed
      BY <1>1, <1>3, <2>1, <2>2 DEF Contract!Roll
    <2>3. CASE status'.observed # status.observed
      <3>1. /\ WriteStatus /\ status'.observed = gen
            /\ \A k \in Required(specOf[gen]) : child[k] = gen
        BY <2>3, ReportStep DEF vars
      <3>2. gen \in AppliedGens
        <4>1. gen \in 1..gen /\ \A k \in Required(specOf[gen]) : child[k] >= gen
          BY <3>1 DEF TypeOK, Generations
        <4>2. QED
          BY <4>1 DEF AppliedGens
      <3>3. Latest(A) \in 0..g /\ g <= Latest(A)
        BY <1>1, <3>2, LatestFacts
      <3>4. FullyApplied = gen /\ FullyApplied' = FullyApplied
        BY <1>1, <2>1, <3>3
      <3>5. gen \in (status.observed + 1)..gen
        BY <1>t, <2>3, <3>1, ObservedNotAhead
      <3>6. Contract!Report
        BY <1>3, <3>1, <3>4, <3>5 DEF Contract!Report
      <3>7. QED
        BY <3>6
    <2>4. QED
      BY <2>2, <2>3
  <1>4. QED
    BY <1>2, <1>3, ForwardStep

\* The reconciler implements AppliedGenerations: whatever is edited, refused,
\* interrupted or retried, it reports a generation only after all of its
\* children, and goes back to none.
THEOREM ImplementsContract == Spec => KeepsContract
  <1>1. TypeOK /\ GenerationInv /\ ObservedKept /\ [Next]_vars =>
            [Contract!Edit \/ Contract!Roll \/ Contract!Report]_
                <<gen, FullyApplied, status.observed>>
    BY ContractNext
  <1>2. QED
    BY <1>1, ContractInit, TypeCorrect, GenerationsInvariant, PassKeepsObserved,
       PTL DEF Spec, KeepsContract, Contract!Spec
===============================================================================
