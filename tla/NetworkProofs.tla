----------------------------- MODULE NetworkProofs -----------------------------
(***************************************************************************)
(* What holds of the Network reconciler for every set of children and of   *)
(* specs, every number of generations, faults and deletions by hand, and   *)
(* whatever children were there before.                                    *)
(***************************************************************************)
EXTENDS Network, AppliedGenerationsProofs, FiniteSetTheorems, SequenceTheorems

USE VersionsAssumption, BoundsAssumption

-------------------------------------------------------------------------------
(* What a spec lists, and what a pass visits.                              *)

LEMMA SpecFacts ==
    ASSUME NEW sp \in Specs
    PROVE  /\ Len(sp.clusters) \in Nat
           /\ Order(sp) \in Seq(Item(Children))
           /\ DOMAIN Order(sp) = 1..Len(Order(sp))
           /\ Len(Order(sp)) \in Nat
           /\ Listed(sp) \subseteq Children
  <1>1. /\ sp.clusters \in Seq(Item(Clusters))
        /\ sp.rest \in Seq(Item(Others \cup {Cloud}))
    BY SpecsAssumption
  <1>2. /\ Item(Clusters) \subseteq Item(Children)
        /\ Item(Others \cup {Cloud}) \subseteq Item(Children)
    BY DEF Item, Children
  <1>3. /\ sp.clusters \in Seq(Item(Children))
        /\ sp.rest \in Seq(Item(Children))
    BY <1>1, <1>2, SeqMonotonic
  <1>4. Order(sp) \in Seq(Item(Children))
    BY <1>3, ConcatProperties DEF Order
  <1>5. /\ DOMAIN Order(sp) = 1..Len(Order(sp))
        /\ Len(Order(sp)) \in Nat
        /\ Len(sp.clusters) \in Nat
    BY <1>3, <1>4, LenProperties
  <1>6. Listed(sp) \subseteq Children
    <2> SUFFICES ASSUME NEW i \in DOMAIN Order(sp)
                 PROVE  Order(sp)[i].name \in Children
      BY DEF Listed
    <2>1. Order(sp)[i] \in Item(Children)
      BY <1>4, <1>5, ElementOfSeq
    <2>2. QED
      BY <2>1 DEF Item
  <1>7. QED
    BY <1>4, <1>5, <1>6

LEMMA SpecOfWork ==
    ASSUME TypeOK
    PROVE  spec \in Specs /\ work.gen \in Generations
  BY DEF TypeOK, spec

LEMMA VisitedItem ==
    ASSUME TypeOK, Visiting
    PROVE  /\ item.name \in Children
           /\ item.want \in Versions
           /\ item.want # 0
           /\ work.at \in DOMAIN Order(spec)
  <1>1. /\ spec \in Specs
        /\ work.at \in Nat \ {0} /\ work.at <= Len(Order(spec))
    BY SpecOfWork DEF TypeOK, Visiting
  <1>2. /\ Order(spec) \in Seq(Item(Children))
        /\ DOMAIN Order(spec) = 1..Len(Order(spec))
        /\ Len(Order(spec)) \in Nat
    BY <1>1, SpecFacts
  <1>3. work.at \in 1..Len(Order(spec))
    BY <1>1, <1>2
  <1>4. Order(spec)[work.at] \in Item(Children)
    BY <1>2, <1>3, ElementOfSeq
  <1>5. QED
    BY <1>2, <1>3, <1>4 DEF item, Item

-------------------------------------------------------------------------------
(* The status a pass ends with.                                            *)

\* SetCondition stays within the conditions and sets the one it is given.
LEMMA SetReady ==
    ASSUME NEW conds \in [ConditionTypes -> Condition(Reasons)],
           NEW s \in {"True", "False"}, NEW reason \in Reasons, NEW message \in Nat
    PROVE  /\ SetCondition(conds, "Ready", s, reason, message)
                \in [ConditionTypes -> Condition(Reasons)]
           /\ IsReady(SetCondition(conds, "Ready", s, reason, message))
                <=> s = "True"
  <1>1. [status |-> s, reason |-> reason, message |-> message] \in Condition(Reasons)
    BY DEF Condition
  <1>2. "Ready" \in ConditionTypes
    BY DEF ConditionTypes
  <1>3. QED
    BY <1>1, <1>2 DEF SetCondition, IsReady

\* What is to hold of a status that reports generation g with n of count
\* clusters ready.
Agrees(st, g, count, n) ==
    /\ st \in StatusType
    /\ st.observed = g /\ st.clusters = count /\ st.ready = n
    /\ st.phase = "Running" <=> IsReady(st.conds)
    /\ st.phase = "Running" <=> n = count /\ count > 0

LEMMA AggregateFacts ==
    ASSUME NEW st \in StatusType, NEW g \in 1..MaxGen, NEW count \in Nat,
           NEW n \in Nat, n <= count
    PROVE  Agrees(Aggregate(st, g, count, n), g, count, n)
  <1> DEFINE told == [st EXCEPT !.observed = g, !.clusters = count, !.ready = n]
             up == SetCondition(told.conds, "Ready", "True",
                                "AllClustersReady", NoCount)
             part == SetCondition(told.conds, "Ready", "False",
                                  "PartiallyReady", n)
             down == SetCondition(told.conds, "Ready", "False", "Creating", NoCount)
             agg == Aggregate(st, g, count, n)
  <1>1. g \in 0..MaxGen
    OBVIOUS
  <1>2. /\ told \in StatusType
        /\ told.observed = g /\ told.clusters = count /\ told.ready = n
        /\ told.conds \in [ConditionTypes -> Condition(Reasons)]
    BY <1>1 DEF StatusType
  <1>3. \/ n = count /\ count > 0
             /\ agg = [told EXCEPT !.phase = "Running", !.conds = up]
        \/ n # count /\ agg = [told EXCEPT !.phase = "Bootstrapping", !.conds = part]
        \/ ~(n = count /\ count > 0)
             /\ agg = [told EXCEPT !.phase = "Creating", !.conds = down]
    BY DEF Aggregate
  <1>4. /\ NoCount \in Nat
        /\ "AllClustersReady" \in Reasons /\ "PartiallyReady" \in Reasons
        /\ "Creating" \in Reasons
        /\ "Running" \in Phases /\ "Bootstrapping" \in Phases /\ "Creating" \in Phases
        /\ "Running" # "Bootstrapping" /\ "Running" # "Creating"
    BY DEF NoCount, Reasons, Phases
  <1> HIDE DEF told
  <1>5. /\ up \in [ConditionTypes -> Condition(Reasons)] /\ IsReady(up)
        /\ part \in [ConditionTypes -> Condition(Reasons)] /\ ~IsReady(part)
        /\ down \in [ConditionTypes -> Condition(Reasons)] /\ ~IsReady(down)
    BY <1>2, <1>4, SetReady
  <1> HIDE DEF up, part, down, agg
  <1> SUFFICES Agrees(agg, g, count, n)
    BY DEF agg
  <1>6. CASE n = count /\ count > 0
               /\ agg = [told EXCEPT !.phase = "Running", !.conds = up]
    BY <1>2, <1>4, <1>5, <1>6 DEF StatusType, Agrees
  <1>7. CASE n # count /\ agg = [told EXCEPT !.phase = "Bootstrapping", !.conds = part]
    BY <1>2, <1>4, <1>5, <1>7 DEF StatusType, Agrees
  <1>8. CASE ~(n = count /\ count > 0)
               /\ agg = [told EXCEPT !.phase = "Creating", !.conds = down]
    BY <1>2, <1>4, <1>5, <1>8 DEF StatusType, Agrees
  <1>9. QED
    BY <1>3, <1>6, <1>7, <1>8

-------------------------------------------------------------------------------
(* Types.                                                                  *)

WorkType == [gen : Generations, base : StatusType, at : Nat \ {0}, ready : Nat]

LEMMA NoWorkType == NoStatus \in StatusType /\ NoWork \in WorkType
  <1>1. NoStatus \in StatusType
    BY DEF NoStatus, StatusType, Phases, Reasons, NoConditions, Unset, Condition,
           NoCount
  <1>2. QED
    BY <1>1 DEF NoWork, WorkType, Generations

LEMMA NoChildType == NoChild \in ChildType
  BY DEF NoChild, ChildType

\* A pass that returns is idle and well typed.
LEMMA ReturnTyped ==
    ASSUME Return
    PROVE  pc' = "idle" /\ work' \in WorkType
  BY NoWorkType DEF Return

\* What a pass does to its own copy stays a copy.
LEMMA WorkTyped ==
    ASSUME NEW w \in WorkType, NEW n \in Nat
    PROVE  /\ [w EXCEPT !.at = @ + 1] \in WorkType
           /\ [w EXCEPT !.at = 1] \in WorkType
           /\ [w EXCEPT !.at = @ + 1, !.ready = n] \in WorkType
  <1>1. w.at + 1 \in Nat \ {0}
    <2>1. w.at \in Nat \ {0}
      BY DEF WorkType
    <2>2. QED
      BY <2>1
  <1>2. [w EXCEPT !.at = @ + 1] \in WorkType
    BY <1>1 DEF WorkType
  <1>3. [w EXCEPT !.at = 1] \in WorkType
    BY DEF WorkType
  <1>4. [w EXCEPT !.at = @ + 1, !.ready = n] \in WorkType
    BY <1>1 DEF WorkType
  <1>5. QED
    BY <1>2, <1>3, <1>4

\* How a pass ends: counts of a status that is written, in terms of its count.
LEMMA WrittenStatus ==
    ASSUME TypeOK, WriteStatus, work.ready <= Len(spec.clusters)
    PROVE  Agrees(status', work.gen, Len(spec.clusters), work.ready)
  <1>1. /\ work.base \in StatusType /\ work.ready \in Nat
        /\ work.gen \in 1..MaxGen
        /\ Len(spec.clusters) \in Nat
    BY SpecOfWork, SpecFacts DEF TypeOK, Generations
  <1>2. status' = Aggregate(work.base, work.gen, Len(spec.clusters), work.ready)
    BY DEF WriteStatus
  <1>3. QED
    BY <1>1, <1>2, AggregateFacts

\* While clusters are counted, no more are found ready than were looked at.
Counted ==
    /\ pc = "visit" => work.ready = 0
    /\ pc = "count" => work.ready < work.at /\ work.at <= Len(spec.clusters) + 1

Typed == TypeOK /\ Counted

LEMMA TypedInit == Init => Typed
  <1> SUFFICES ASSUME Init PROVE Typed
    OBVIOUS
  <1>1. child \in [Children -> ChildType]
    <2>1. PICK want \in [Existing -> Versions] :
             child = [c \in Children |->
                        IF c \in Existing
                        THEN [want |-> want[c], owned |-> FALSE, running |-> FALSE]
                        ELSE NoChild]
      BY DEF Init
    <2>2. QED
      BY <2>1, NoChildType DEF ChildType
  <1>2. Counted
    BY DEF Init, Counted
  <1>3. QED
    BY <1>1, <1>2, NoWorkType DEF Init, Typed, TypeOK, Generations, WorkType

\* Steps that end a pass without a status.
LEMMA RequeueTyped ==
    ASSUME Typed, Requeue, UNCHANGED <<object, cache, child, seen, deletes>>,
           faults' \in 0..MaxFaults
    PROVE  Typed'
  <1>1. pc' = "idle" /\ work' \in WorkType
    BY ReturnTyped DEF Requeue
  <1>2. QED
    BY <1>1 DEF Typed, TypeOK, Counted, Requeue, object, WorkType

\* A child is created, or passed by.
LEMMA VisitTyped ==
    ASSUME Typed, pc = "visit", work' = [work EXCEPT !.at = @ + 1],
           child' \in [Children -> ChildType],
           UNCHANGED <<object, cache, seen, pc, dirty, bounds>>
    PROVE  Typed'
  <1>1. work' \in WorkType
    BY WorkTyped DEF Typed, TypeOK, WorkType
  <1>2. QED
    BY <1>1 DEF Typed, TypeOK, Counted, object, bounds, WorkType

LEMMA TypedNext == Typed /\ [Next]_vars => Typed'
  <1> SUFFICES ASSUME Typed, [Next]_vars PROVE Typed'
    OBVIOUS
  <1>t. TypeOK /\ Counted
    BY DEF Typed
  <1>1. CASE UNCHANGED vars
    BY <1>1, <1>t DEF vars, Typed, TypeOK, Counted, spec
  <1>2. CASE Fetch
    <2>1. work' \in WorkType
      BY <1>2, <1>t, NoWorkType DEF Fetch, TypeOK, WorkType
    <2>2. QED
      <3>1. work'.ready = 0 /\ pc' = "visit"
        BY <1>2 DEF Fetch, NoWork
      <3>2. Counted'
        BY <3>1 DEF Counted
      <3>3. QED
        BY <1>2, <1>t, <2>1, <3>1, <3>2
           DEF Fetch, Typed, TypeOK, object, bounds, WorkType
  <1>3. CASE CreateChild
    <2>1. Visiting
      BY <1>3 DEF CreateChild
    <2>2. child' \in [Children -> ChildType]
      <3>1. [want |-> item.want, owned |-> TRUE, running |-> FALSE] \in ChildType
        BY <1>t, <2>1, VisitedItem DEF ChildType
      <3>2. QED
        BY <1>3, <1>t, <3>1 DEF CreateChild, TypeOK
    <2>3. QED
      BY <1>3, <1>t, <2>1, <2>2, VisitTyped DEF CreateChild, Typed, Visiting
  <1>4. CASE CreateRefused
    BY <1>4, <1>t, RequeueTyped DEF CreateRefused, Typed, TypeOK, bounds
  <1>5. CASE LabelChild
    <2>1. child' \in [Children -> ChildType]
      BY <1>5, <1>t DEF LabelChild, TypeOK
    <2>2. QED
      BY <1>5, <1>t, <2>1, VisitTyped DEF LabelChild, Typed, Visiting
  <1>6. CASE LabelRefused
    BY <1>6, <1>t, RequeueTyped DEF LabelRefused, Typed, TypeOK, bounds
  <1>7. CASE AllVisited
    <2>1. work' \in WorkType
      BY <1>7, <1>t, WorkTyped DEF AllVisited, TypeOK, WorkType
    <2>2. Counted'
      <3>1. work'.at = 1 /\ work'.ready = work.ready /\ work'.gen = work.gen
        BY <1>7, <1>t DEF AllVisited, TypeOK
      <3>2. Len(spec.clusters) \in Nat /\ spec' = spec
        BY <1>7, <1>t, <3>1, SpecOfWork, SpecFacts DEF AllVisited, spec, object
      <3>3. QED
        BY <1>7, <1>t, <3>1, <3>2 DEF Counted, AllVisited
    <2>3. QED
      BY <1>7, <1>t, <2>1, <2>2 DEF AllVisited, Typed, TypeOK, object, bounds, WorkType
  <1>8. CASE CountCluster
    <2>1. PICK n \in {work.ready, work.ready + 1} :
             work' = [work EXCEPT !.at = @ + 1, !.ready = n]
      BY <1>8 DEF CountCluster
    <2>2. work.ready \in Nat /\ work.at \in Nat /\ work \in WorkType
      BY <1>t DEF TypeOK, WorkType
    <2>3. work' \in WorkType
      <3>1. n \in Nat
        BY <2>1, <2>2
      <3>2. QED
        BY <2>1, <2>2, <3>1, WorkTyped
    <2>4. Counted'
      <3>1. work'.at = work.at + 1 /\ work'.ready = n /\ work'.gen = work.gen
        BY <2>1, <2>2 DEF WorkType
      <3>2. Len(spec.clusters) \in Nat /\ spec' = spec
        BY <1>8, <1>t, <3>1, SpecOfWork, SpecFacts DEF CountCluster, spec, object
      <3>3. /\ pc = "count" /\ pc' = "count"
            /\ work.at <= Len(spec.clusters) /\ work.ready < work.at
        BY <1>8, <1>t DEF CountCluster, Counting, Counted
      <3>4. n < work.at + 1 /\ work.at + 1 <= Len(spec.clusters) + 1
        BY <2>1, <2>2, <3>2, <3>3
      <3>5. QED
        BY <3>1, <3>2, <3>3, <3>4 DEF Counted
    <2>5. QED
      BY <1>8, <1>t, <2>3, <2>4
         DEF CountCluster, Typed, TypeOK, object, bounds, WorkType
  <1>9. CASE WriteStatus
    <2>1. work.ready <= Len(spec.clusters)
      <3>1. /\ work.ready \in Nat /\ work.at \in Nat
            /\ Len(spec.clusters) \in Nat
        BY <1>t, SpecOfWork, SpecFacts DEF TypeOK
      <3>2. /\ work.ready < work.at
            /\ work.at <= Len(spec.clusters) + 1
        BY <1>9, <1>t DEF WriteStatus, Counted
      <3>3. QED
        BY <3>1, <3>2
    <2>2. status' \in StatusType
      BY <1>9, <1>t, <2>1, WrittenStatus DEF Agrees
    <2>3. pc' = "idle" /\ work' \in WorkType
      BY <1>9, ReturnTyped DEF WriteStatus
    <2>4. QED
      BY <1>9, <1>t, <2>2, <2>3
         DEF WriteStatus, Typed, TypeOK, Counted, bounds, WorkType
  <1>10. CASE Conflict
    BY <1>10, <1>t, RequeueTyped DEF Conflict, Typed, TypeOK, bounds
  <1>11. CASE CallFails
    BY <1>11, <1>t, RequeueTyped DEF CallFails, Typed, TypeOK
  <1>12. CASE Sync
    BY <1>12, <1>t DEF Sync, Typed, TypeOK, Counted, object, bounds, spec
  <1>13. ASSUME NEW c \in Children, SyncChild(c) PROVE Typed'
    BY <1>13, <1>t DEF SyncChild, Typed, TypeOK, Counted, object, bounds, spec
  <1>14. CASE Restart
    <2>1. pc' = "idle" /\ work' \in WorkType
      BY <1>14, ReturnTyped DEF Restart
    <2>2. QED
      BY <1>14, <1>t, <2>1 DEF Restart, Typed, TypeOK, Counted, object, WorkType
  <1>15. CASE EditSpec
    BY <1>15, <1>t
       DEF EditSpec, Typed, TypeOK, Counted, bounds, spec, Generations
  <1>16. ASSUME NEW c \in Children, DeleteChild(c) PROVE Typed'
    BY <1>16, <1>t, NoChildType
       DEF DeleteChild, Typed, TypeOK, Counted, object, spec
  <1>17. ASSUME NEW c \in Clusters, ReportPhase(c) PROVE Typed'
    <2>1. c \in Children
      BY DEF Children
    <2>2. child' \in [Children -> ChildType]
      <3>1. [child[c] EXCEPT !.running = ~@] \in ChildType
        BY <1>t, <2>1, Zenon DEF TypeOK, ChildType
      <3>2. child' = [child EXCEPT ![c] = [child[c] EXCEPT !.running = ~@]]
        BY <1>17 DEF ReportPhase
      <3>3. QED
        BY <1>t, <3>1, <3>2 DEF TypeOK
    <2>3. faults' \in 0..MaxFaults
      BY <1>17, <1>t DEF ReportPhase, TypeOK
    <2>4. QED
      BY <1>17, <1>t, <2>2, <2>3
         DEF ReportPhase, Typed, TypeOK, Counted, object, spec
  <1>18. QED
    BY <1>1, <1>2, <1>3, <1>4, <1>5, <1>6, <1>7, <1>8, <1>9, <1>10, <1>11, <1>12,
       <1>13, <1>14, <1>15, <1>16, <1>17 DEF Next, Operator, Environment

-------------------------------------------------------------------------------
(* Children.                                                               *)

There(c) == Exists(child[c]) \/ deletes > 0

Accountable(c) == Exists(child[c]) => child[c].owned \/ c \in Existing

\* No step but a deletion by hand takes a child away, and none makes a child
\* that is nobody's.
LEMMA ChildStep ==
    ASSUME Typed, [Next]_vars, NEW c \in Children
    PROVE  /\ specOf' = specOf
           /\ There(c) => There(c)'
           /\ Accountable(c) => Accountable(c)'
  <1> DEFINE Fine == /\ specOf' = specOf
                     /\ There(c) => There(c)'
                     /\ Accountable(c) => Accountable(c)'
  <1>t. TypeOK
    BY DEF Typed
  <1>1. ASSUME UNCHANGED <<specOf, child, deletes>> PROVE Fine
    BY <1>1 DEF There, Accountable
  <1>2. CASE UNCHANGED vars
    BY <1>1, <1>2 DEF vars
  <1>3. CASE Fetch \/ CreateRefused \/ LabelChild \/ LabelRefused \/ AllVisited
             \/ CountCluster \/ WriteStatus \/ Conflict \/ CallFails \/ Sync
             \/ Restart \/ EditSpec \/ \E d \in Children : SyncChild(d)
    <2>1. UNCHANGED <<specOf, child, deletes>>
      BY <1>3 DEF Fetch, CreateRefused, LabelChild, LabelRefused, AllVisited,
                  CountCluster, WriteStatus, Conflict, CallFails, Sync, Restart,
                  EditSpec, SyncChild, object, bounds
    <2>2. QED
      BY <1>1, <2>1
  <1>4. CASE CreateChild
    <2> DEFINE new == [want |-> item.want, owned |-> TRUE, running |-> FALSE]
    <2>1. item.name \in Children /\ item.want # 0
      BY <1>4, <1>t, VisitedItem DEF CreateChild
    <2>2. /\ child' = [child EXCEPT ![item.name] = new]
          /\ UNCHANGED <<specOf, deletes>>
      BY <1>4 DEF CreateChild, object, bounds
    <2>3. Exists(new) /\ new.owned
      BY <2>1 DEF Exists
    <2>4. child'[c] = child[c] \/ child'[c] = new
      BY <1>t, <2>2 DEF TypeOK
    <2> HIDE DEF new
    <2>5. QED
      BY <2>2, <2>3, <2>4 DEF There, Accountable
  <1>5. ASSUME NEW d \in Children, DeleteChild(d) PROVE Fine
    <2>1. /\ child' = [child EXCEPT ![d] = NoChild]
          /\ deletes' = deletes + 1
          /\ specOf' = specOf
      BY <1>5 DEF DeleteChild, object
    <2>2. deletes' > 0
      BY <1>t, <2>1 DEF TypeOK
    <2>3. child'[c] = child[c] \/ child'[c] = NoChild
      BY <1>t, <2>1 DEF TypeOK
    <2>4. ~Exists(NoChild)
      BY DEF Exists, NoChild
    <2>5. QED
      BY <2>1, <2>2, <2>3, <2>4 DEF There, Accountable
  <1>6. ASSUME NEW d \in Clusters, ReportPhase(d) PROVE Fine
    <2>1. /\ child' = [child EXCEPT ![d].running = ~@]
          /\ UNCHANGED <<specOf, deletes>>
      BY <1>6 DEF ReportPhase, object
    <2>2. child'[c].want = child[c].want /\ child'[c].owned = child[c].owned
      BY <1>t, <2>1 DEF TypeOK, ChildType
    <2>3. QED
      BY <2>1, <2>2 DEF There, Accountable, Exists
  <1>7. QED
    BY <1>2, <1>3, <1>4, <1>5, <1>6 DEF Next, Operator, Environment

-------------------------------------------------------------------------------
(* The inductive invariant.                                                *)

\* What is listed and already visited is there.
Visited ==
    /\ pc = "visit" =>
         \A i \in DOMAIN Order(spec) : i < work.at => There(Order(spec)[i].name)
    /\ pc = "count" => \A c \in Listed(spec) : There(c)

ObservedThere ==
    status.observed # 0 => \A c \in Listed(specOf[status.observed]) : There(c)

\* Work that is neither queued nor in progress on the cached generation is done.
Accounted ==
    ~dirty => IF pc = "idle" THEN status.observed = cache.gen
              ELSE work.gen = cache.gen

NetworkInv ==
    /\ Typed
    /\ \A c \in Children : Accountable(c)
    /\ Visited
    /\ ObservedThere
    /\ Accounted
    /\ StatusAddsUp
    /\ status.observed <= gen

LEMMA NetworkInit == Init => NetworkInv
  <1> SUFFICES ASSUME Init PROVE NetworkInv
    OBVIOUS
  <1>1. \A c \in Children : Accountable(c)
    <2>1. PICK want \in [Existing -> Versions] :
             child = [c \in Children |->
                        IF c \in Existing
                        THEN [want |-> want[c], owned |-> FALSE, running |-> FALSE]
                        ELSE NoChild]
      BY DEF Init
    <2>2. \A c \in Children \ Existing : child[c] = NoChild
      BY <2>1
    <2>3. QED
      BY <2>2 DEF Accountable, Exists, NoChild
  <1>2. /\ status.observed = 0 /\ gen = 1 /\ pc = "idle" /\ dirty = TRUE
    BY DEF Init, NoStatus
  <1>3. QED
    BY <1>1, <1>2, TypedInit
       DEF NetworkInv, Visited, ObservedThere, Accounted, StatusAddsUp

\* The status a pass writes is of the current generation and adds up.
LEMMA WriteFacts ==
    ASSUME Typed, WriteStatus
    PROVE  /\ Agrees(status', work.gen, Len(spec.clusters), work.ready)
           /\ work.ready <= Len(spec.clusters)
           /\ work.gen = gen /\ gen' = gen /\ gen \in 1..MaxGen
           /\ pc = "count" /\ pc' = "idle"
  <1>1. /\ work.ready \in Nat /\ work.at \in Nat
        /\ Len(spec.clusters) \in Nat
    BY SpecOfWork, SpecFacts DEF Typed, TypeOK
  <1>2. /\ work.ready < work.at
        /\ work.at <= Len(spec.clusters) + 1
    BY DEF WriteStatus, Typed, Counted
  <1>3. work.ready <= Len(spec.clusters)
    BY <1>1, <1>2
  <1>4. QED
    BY <1>3, WrittenStatus
       DEF WriteStatus, Unmodified, Typed, TypeOK, Generations, Return

\* Only a pass that ends well changes the status.
LEMMA StatusStep ==
    ASSUME Typed, [Next]_vars
    PROVE  WriteStatus \/ (status' = status /\ gen' \in {gen, gen + 1})
  BY DEF Next, Operator, Environment, Fetch, CreateChild, CreateRefused, LabelChild,
         LabelRefused, AllVisited, CountCluster, Conflict, CallFails, Sync, SyncChild,
         Restart, EditSpec, DeleteChild, ReportPhase, object, vars

LEMMA VisitedNext ==
    ASSUME Typed, Visited, [Next]_vars
    PROVE  Visited'
  <1>t. TypeOK
    BY DEF Typed
  <1>s. /\ spec \in Specs
        /\ \A i \in DOMAIN Order(spec) : Order(spec)[i].name \in Children
        /\ Listed(spec) \subseteq Children
    <2>1. spec \in Specs
      BY <1>t, SpecOfWork
    <2>2. Listed(spec) \subseteq Children
      BY <2>1, SpecFacts
    <2>3. QED
      BY <2>1, <2>2 DEF Listed
  <1>p. /\ specOf' = specOf
        /\ \A c \in Children : There(c) => There(c)'
    BY ChildStep DEF Children
  <1>1. ASSUME pc' = "idle" PROVE Visited'
    BY <1>1 DEF Visited
  <1>2. ASSUME pc' = pc, work'.gen = work.gen,
               pc = "visit" => work'.at = work.at
        PROVE  Visited'
    <2>1. spec' = spec
      BY <1>2, <1>p DEF spec
    <2>2. QED
      BY <1>2, <1>p, <1>s, <2>1 DEF Visited
  <1>3. CASE Fetch
    <2>1. pc' = "visit" /\ work'.at = 1
      BY <1>3 DEF Fetch, NoWork
    <2>2. work' \in WorkType /\ specOf \in [Generations -> Specs]
      BY <1>3, <1>t, NoWorkType DEF Fetch, TypeOK, WorkType
    <2>3. spec' \in Specs
      BY <1>p, <2>2 DEF spec, WorkType
    <2>4. /\ DOMAIN Order(spec') = 1..Len(Order(spec'))
          /\ Len(Order(spec')) \in Nat
      BY <2>3, SpecFacts
    <2>5. \A i \in DOMAIN Order(spec') : ~(i < 1)
      BY <2>4
    <2>6. QED
      BY <2>1, <2>5 DEF Visited
  <1>4. CASE CreateChild \/ LabelChild
    <2>1. /\ Visiting
          /\ work' = [work EXCEPT !.at = @ + 1]
          /\ pc' = pc
      BY <1>4 DEF CreateChild, LabelChild
    <2>2. /\ work'.at = work.at + 1 /\ work'.gen = work.gen
          /\ work.at \in Nat
      BY <1>t, <2>1 DEF TypeOK
    <2>3. PICK x \in Children : x = item.name
      BY <1>t, <2>1, VisitedItem
    <2>4. There(x)'
      <3>1. CASE CreateChild
        <4>1. /\ child' = [child EXCEPT ![x] =
                             [want |-> item.want, owned |-> TRUE, running |-> FALSE]]
              /\ item.want # 0
          BY <1>t, <2>1, <2>3, <3>1, VisitedItem DEF CreateChild
        <4>2. child'[x].want # 0
          BY <1>t, <2>3, <4>1 DEF TypeOK
        <4>3. QED
          BY <4>2 DEF There, Exists
      <3>2. CASE LabelChild
        <4>1. Exists(child[x]) /\ child' = child
          BY <2>3, <3>2 DEF LabelChild
        <4>2. QED
          BY <4>1 DEF There
      <3>3. QED
        BY <1>4, <3>1, <3>2
    <2>5. spec' = spec
      BY <1>p, <2>2 DEF spec
    <2>6. PICK o, n : o = Order(spec) /\ n = work.at
      OBVIOUS
    <2>7. \A i \in DOMAIN o : i < n => There(o[i].name)'
      <3>1. \A i \in DOMAIN o : i < n => There(o[i].name)
        BY <2>1, <2>6 DEF Visited, Visiting
      <3>2. QED
        BY <1>p, <1>s, <2>6, <3>1
    <2>8. x = o[n].name
      BY <2>3, <2>6 DEF item
    <2>9. /\ DOMAIN o = 1..Len(o)
          /\ Len(o) \in Nat
      BY <1>s, <2>6, SpecFacts
    <2>10. \A i \in DOMAIN o : i < n + 1 => i < n \/ i = n
      BY <2>2, <2>6, <2>9
    <2>11. \A i \in DOMAIN o : i < n + 1 => There(o[i].name)'
      BY <2>4, <2>7, <2>8, <2>10
    <2>12. pc' = "visit" /\ work'.at = n + 1 /\ Order(spec') = o
      BY <2>1, <2>2, <2>5, <2>6 DEF Visiting
    <2>13. QED
      BY <2>11, <2>12 DEF Visited
  <1>5. CASE AllVisited
    <2>1. /\ pc = "visit" /\ pc' = "count" /\ work'.gen = work.gen
          /\ ~(work.at <= Len(Order(spec)))
      BY <1>5, <1>t DEF AllVisited, Visiting, TypeOK
    <2>2. \A i \in DOMAIN Order(spec) : i < work.at
      <3>1. /\ DOMAIN Order(spec) = 1..Len(Order(spec))
            /\ Len(Order(spec)) \in Nat /\ work.at \in Nat
        BY <1>s, <1>t, SpecFacts DEF TypeOK
      <3>2. QED
        BY <2>1, <3>1
    <2>3. \A c \in Listed(spec) : There(c)
      BY <2>1, <2>2 DEF Visited, Listed
    <2>4. spec' = spec
      BY <1>p, <2>1 DEF spec
    <2>5. QED
      BY <1>p, <1>s, <2>1, <2>3, <2>4 DEF Visited
  <1>6. CASE CountCluster
    <2>1. pc = "count" /\ pc' = pc /\ work'.gen = work.gen
      BY <1>6, <1>t DEF CountCluster, Counting, TypeOK
    <2>2. QED
      BY <1>2, <2>1
  <1>7. CASE CreateRefused \/ LabelRefused \/ WriteStatus \/ Conflict \/ CallFails
             \/ Restart
    <2>1. pc' = "idle"
      BY <1>7 DEF CreateRefused, LabelRefused, WriteStatus, Conflict, CallFails,
                  Restart, Requeue, Return
    <2>2. QED
      BY <1>1, <2>1
  <1>8. CASE \/ UNCHANGED vars \/ Sync \/ EditSpec
             \/ \E c \in Children : SyncChild(c) \/ DeleteChild(c)
             \/ \E c \in Clusters : ReportPhase(c)
    <2>1. pc' = pc /\ work' = work
      BY <1>8 DEF vars, Sync, EditSpec, SyncChild, DeleteChild, ReportPhase
    <2>2. QED
      BY <1>2, <2>1
  <1>9. QED
    BY <1>3, <1>4, <1>5, <1>6, <1>7, <1>8 DEF Next, Operator, Environment

LEMMA ObservedThereNext ==
    ASSUME Typed, Visited, ObservedThere, [Next]_vars
    PROVE  ObservedThere'
  <1>p. /\ specOf' = specOf
        /\ \A c \in Children : There(c) => There(c)'
    BY ChildStep DEF Children
  <1>l. \A g \in 1..MaxGen : Listed(specOf[g]) \subseteq Children
    BY SpecFacts DEF Typed, TypeOK, Generations
  <1>1. CASE status' = status
    <2>1. status.observed \in 0..MaxGen
      BY DEF Typed, TypeOK, StatusType
    <2>2. status.observed # 0 => status.observed \in 1..MaxGen
      BY <2>1
    <2>3. QED
      BY <1>1, <1>p, <1>l, <2>2 DEF ObservedThere
  <1>2. CASE WriteStatus
    <2>1. status'.observed = work.gen /\ pc = "count" /\ work.gen \in 1..MaxGen
      BY <1>2, WriteFacts DEF Agrees
    <2>2. \A c \in Listed(specOf[work.gen]) : There(c)
      BY <2>1 DEF Visited, spec
    <2>3. QED
      BY <1>p, <1>l, <2>1, <2>2 DEF ObservedThere
  <1>3. QED
    BY <1>1, <1>2, StatusStep

LEMMA AccountedNext ==
    ASSUME Typed, Accounted, [Next]_vars
    PROVE  Accounted'
  <1>1. CASE Fetch
    BY <1>1, NoWorkType DEF Fetch, NoWork, Accounted
  <1>2. CASE WriteStatus
    <2>1. status'.observed = work.gen /\ pc = "count" /\ pc' = "idle"
      BY <1>2, WriteFacts DEF Agrees
    <2>2. dirty' = dirty /\ cache' = cache
      BY <1>2 DEF WriteStatus
    <2>3. QED
      BY <2>1, <2>2 DEF Accounted
  <1>3. CASE CreateRefused \/ LabelRefused \/ Conflict \/ CallFails \/ Restart
    <2>1. dirty'
      BY <1>3 DEF CreateRefused, LabelRefused, Conflict, CallFails, Restart, Requeue
    <2>2. QED
      BY <2>1 DEF Accounted
  <1>4. CASE CreateChild \/ LabelChild \/ AllVisited \/ CountCluster
    <2>1. /\ pc # "idle" /\ pc' # "idle" /\ work'.gen = work.gen
          /\ UNCHANGED <<cache, dirty>>
      BY <1>4 DEF CreateChild, LabelChild, AllVisited, CountCluster, Counting,
                  Visiting, Typed, TypeOK
    <2>2. QED
      BY <2>1 DEF Accounted
  <1>5. CASE Sync
    <2>1. /\ UNCHANGED <<status, pc, work>>
          /\ dirty' \/ (~dirty /\ cache'.gen = cache.gen)
      BY <1>5 DEF Sync, object, Typed, TypeOK
    <2>2. QED
      BY <2>1 DEF Accounted
  <1>6. ASSUME NEW c \in Children, SyncChild(c) PROVE Accounted'
    <2>1. UNCHANGED <<status, cache, pc, work>> /\ (dirty => dirty')
      BY <1>6 DEF SyncChild, object, Typed, TypeOK
    <2>2. QED
      BY <2>1 DEF Accounted
  <1>7. CASE \/ UNCHANGED vars \/ EditSpec
             \/ \E c \in Children : DeleteChild(c)
             \/ \E c \in Clusters : ReportPhase(c)
    <2>1. UNCHANGED <<status, cache, pc, work, dirty>>
      BY <1>7 DEF vars, EditSpec, DeleteChild, ReportPhase, object
    <2>2. QED
      BY <2>1 DEF Accounted
  <1>8. QED
    BY <1>1, <1>2, <1>3, <1>4, <1>5, <1>6, <1>7 DEF Next, Operator, Environment

LEMMA StatusNext ==
    ASSUME Typed, StatusAddsUp, status.observed <= gen, [Next]_vars
    PROVE  StatusAddsUp' /\ status'.observed <= gen'
  <1>p. specOf' = specOf
    BY ChildStep DEF Children
  <1>1. CASE status' = status /\ gen' \in {gen, gen + 1}
    <2>1. status.observed \in Int /\ gen \in Int
      BY DEF Typed, TypeOK, StatusType, Generations
    <2>2. QED
      BY <1>p, <1>1, <2>1 DEF StatusAddsUp
  <1>2. CASE WriteStatus
    <2>1. /\ Agrees(status', work.gen, Len(spec.clusters), work.ready)
          /\ work.ready <= Len(spec.clusters)
          /\ work.gen = gen /\ gen' = gen /\ gen \in 1..MaxGen
      BY <1>2, WriteFacts
    <2>2. QED
      BY <1>p, <2>1 DEF Agrees, StatusAddsUp, spec
  <1>3. QED
    BY <1>1, <1>2, StatusStep

LEMMA NetworkNext == NetworkInv /\ [Next]_vars => NetworkInv'
  <1> SUFFICES ASSUME NetworkInv, [Next]_vars PROVE NetworkInv'
    OBVIOUS
  <1>1. Typed'
    BY TypedNext DEF NetworkInv
  <1>2. \A c \in Children : Accountable(c)'
    BY ChildStep DEF NetworkInv
  <1>3. Visited' /\ ObservedThere' /\ Accounted'
    BY VisitedNext, ObservedThereNext, AccountedNext DEF NetworkInv
  <1>4. StatusAddsUp' /\ status'.observed <= gen'
    BY StatusNext DEF NetworkInv
  <1>5. QED
    BY <1>1, <1>2, <1>3, <1>4 DEF NetworkInv

-------------------------------------------------------------------------------
(* The theorems.                                                           *)

\* Everything the Network, its children and the operator keep is well typed.
THEOREM TypeCorrect == Spec => []TypeOK
  <1>1. Typed => TypeOK
    BY DEF Typed
  <1>2. QED
    BY <1>1, TypedInit, TypedNext, PTL DEF Spec

\* The inductive invariant: what a pass has visited is there, what is not queued
\* is done, and what a status says was counted in one pass.
THEOREM NetworkInvariant == Spec => []NetworkInv
  BY NetworkInit, NetworkNext, PTL DEF Spec

\* A reported generation was composed: whatever failed, was edited or was
\* refused between the visit of a child and the status.
THEOREM ObservedComposed == Spec => []ObservedIsComposed
  <1>1. ASSUME NetworkInv PROVE ObservedIsComposed
    <2>1. status.observed \in 0..MaxGen /\ specOf \in [Generations -> Specs]
      BY <1>1 DEF NetworkInv, Typed, TypeOK, StatusType
    <2>2. status.observed # 0 => Listed(specOf[status.observed]) \subseteq Children
      BY <2>1, SpecFacts DEF Generations
    <2>3. QED
      BY <1>1, <2>2
         DEF NetworkInv, ObservedThere, There, Accountable, ObservedIsComposed
  <1>2. NetworkInv => ObservedIsComposed
    BY <1>1
  <1>3. QED
    BY <1>2, NetworkInvariant, PTL

\* No edit of a Network is lost.
THEOREM NoEditForgotten == Spec => []NothingForgotten
  <1>1. NetworkInv => NothingForgotten
    BY DEF NetworkInv, Accounted, NothingForgotten
  <1>2. QED
    BY <1>1, NetworkInvariant, PTL

\* Counts, phase and Ready condition are of one pass, whatever changes while the
\* clusters are counted.
THEOREM StatusAlwaysAddsUp == Spec => []StatusAddsUp
  <1>1. NetworkInv => StatusAddsUp
    BY DEF NetworkInv
  <1>2. QED
    BY <1>1, NetworkInvariant, PTL
-------------------------------------------------------------------------------
(* The Network keeps the promise of AppliedGenerations.                    *)

\* The generations whose children are all there: FullyComposed is the latest.
ComposedGens == {g \in 1..gen : \A c \in Listed(specOf[g]) : There(c)}

LEMMA FullyComposedIsLatest == FullyComposed = Latest(ComposedGens)
  BY DEF FullyComposed, Latest, ComposedGens, There

\* Only an edit changes the generation, and it changes nothing else.
LEMMA EditStep ==
    ASSUME [Next]_vars
    PROVE  EditSpec \/ gen' = gen
  BY DEF Next, Operator, Environment, Fetch, CreateChild, CreateRefused, LabelChild,
         LabelRefused, AllVisited, CountCluster, WriteStatus, Conflict, CallFails,
         Sync, SyncChild, Restart, DeleteChild, ReportPhase, object, vars

\* What is composed stays composed; an edit adds its own generation at most.
LEMMA ComposedStep ==
    ASSUME Typed, [Next]_vars
    PROVE  /\ ComposedGens \subseteq ComposedGens'
           /\ ComposedGens \subseteq 1..gen
           /\ ComposedGens' \subseteq 1..gen'
           /\ EditSpec => ComposedGens' \subseteq ComposedGens \cup {gen + 1}
  <1>p. /\ specOf' = specOf
        /\ \A c \in Children : There(c) => There(c)'
    BY ChildStep DEF Children
  <1>g. gen \in 1..MaxGen /\ gen' \in 1..MaxGen /\ gen' \in {gen, gen + 1}
    BY TypedNext, EditStep DEF Typed, TypeOK, Generations, EditSpec
  <1>l. \A g \in 1..MaxGen : Listed(specOf[g]) \subseteq Children
    BY SpecFacts DEF Typed, TypeOK, Generations
  <1>1. ASSUME NEW g \in ComposedGens PROVE g \in ComposedGens'
    <2>1. g \in 1..gen /\ \A c \in Listed(specOf[g]) : There(c)
      BY DEF ComposedGens
    <2>2. g \in 1..gen' /\ g \in 1..MaxGen
      BY <1>g, <2>1
    <2>3. \A c \in Listed(specOf'[g]) : There(c)'
      BY <1>p, <1>l, <2>1, <2>2
    <2>4. QED
      BY <2>2, <2>3 DEF ComposedGens
  <1>2. ASSUME EditSpec PROVE ComposedGens' \subseteq ComposedGens \cup {gen + 1}
    <2>1. gen' = gen + 1 /\ child' = child /\ deletes' = deletes
      BY <1>2 DEF EditSpec, bounds
    <2>2. \A c : There(c)' <=> There(c)
      BY <2>1 DEF There
    <2>3. \A g \in 1..(gen + 1) : g \in 1..gen \/ g = gen + 1
      BY <1>g
    <2>4. QED
      BY <1>p, <2>1, <2>2, <2>3 DEF ComposedGens
  <1>3. QED
    BY <1>1, <1>2 DEF ComposedGens

\* A status is written when the children of its generation were visited.
LEMMA WriteComposes ==
    ASSUME NetworkInv, WriteStatus
    PROVE  FullyComposed = gen /\ status'.observed = gen
  <1>1. /\ status'.observed = work.gen /\ work.gen = gen
        /\ pc = "count" /\ gen \in 1..MaxGen
    BY WriteFacts DEF NetworkInv, Agrees
  <1>2. \A c \in Listed(specOf[gen]) : There(c)
    BY <1>1 DEF NetworkInv, Visited, spec
  <1>3. gen \in ComposedGens
    BY <1>1, <1>2 DEF ComposedGens
  <1>4. gen \in Nat /\ ComposedGens \in SUBSET (1..gen)
    BY <1>1 DEF ComposedGens
  <1>5. Latest(ComposedGens) \in 0..gen /\ gen <= Latest(ComposedGens)
    BY <1>3, <1>4, LatestFacts
  <1>6. QED
    BY <1>1, <1>5, FullyComposedIsLatest

LEMMA ContractInit == Init => Contract!Init
  <1> SUFFICES ASSUME Init PROVE Contract!Init
    OBVIOUS
  <1>1. gen = 1 /\ status.observed = 0
    BY DEF Init, NoStatus
  <1>2. gen \in Nat /\ ComposedGens \in SUBSET (1..gen)
    BY <1>1 DEF ComposedGens
  <1>3. Latest(ComposedGens) \in 0..gen
    BY <1>2, LatestFacts
  <1>4. QED
    BY <1>1, <1>3, FullyComposedIsLatest DEF Contract!Init

LEMMA ContractNext ==
    ASSUME NetworkInv, [Next]_vars
    PROVE  \/ Contract!Edit \/ Contract!Roll \/ Contract!Report
           \/ UNCHANGED <<gen, FullyComposed, status.observed>>
  <1>t. Typed /\ gen \in Nat /\ gen' \in Nat
    BY TypedNext DEF NetworkInv, Typed, TypeOK, Generations
  <1> PICK g, A, B : g = gen /\ A = ComposedGens /\ B = ComposedGens'
    OBVIOUS
  <1>1. /\ g \in Nat /\ A \in SUBSET (1..g) /\ A \subseteq B
        /\ FullyComposed = Latest(A)
        /\ FullyComposed' = Latest(B)
    <2>1. ComposedGens' = B => Latest(ComposedGens)' = Latest(B)
      OBVIOUS
    <2>2. FullyComposed' = Latest(ComposedGens)'
      BY DEF FullyComposed, Latest, ComposedGens, There
    <2>3. QED
      BY <1>t, <2>1, <2>2, ComposedStep, FullyComposedIsLatest
  <1>2. CASE EditSpec
    <2>1. B \subseteq A \cup {g + 1}
      BY <1>t, <1>2, ComposedStep
    <2>2. Latest(B) \in {Latest(A), g + 1}
      BY <1>1, <2>1, LatestEdited
    <2>3. gen' = gen + 1 /\ status' = status
      BY <1>2 DEF EditSpec
    <2>4. QED
      BY <1>1, <2>2, <2>3 DEF Contract!Edit
  <1>3. CASE gen' = gen
    <2>1. Latest(B) = Latest(A) \/ Latest(B) \in (Latest(A) + 1)..g
      <3>1. B \in SUBSET (1..g)
        BY <1>t, <1>3, ComposedStep
      <3>2. QED
        BY <1>1, <3>1, LatestGrows
    <2>2. CASE status' = status
      BY <1>1, <1>3, <2>1, <2>2 DEF Contract!Roll
    <2>3. CASE WriteStatus
      <3>1. FullyComposed = gen /\ status'.observed = gen
        BY <2>3, WriteComposes
      <3>2. Latest(B) = Latest(A)
        BY <1>1, <2>1, <3>1
      <3>3. status.observed \in Nat /\ status.observed <= gen
        BY DEF NetworkInv, Typed, TypeOK, StatusType
      <3>4. FullyComposed' = FullyComposed
        BY <1>1, <3>2
      <3>5. CASE status.observed = gen
        BY <1>3, <3>1, <3>4, <3>5
      <3>6. CASE status.observed # gen
        <4>1. gen \in (status.observed + 1)..gen
          BY <1>t, <3>3, <3>6
        <4>2. Contract!Report
          BY <1>3, <3>1, <3>4, <4>1 DEF Contract!Report
        <4>3. QED
          BY <4>2
      <3>7. QED
        BY <3>5, <3>6
    <2>4. QED
      BY <1>t, <2>2, <2>3, StatusStep
  <1>4. QED
    BY <1>2, <1>3, EditStep

\* The reconciler implements AppliedGenerations: no generation is reported before
\* the children it lists were composed, and none is gone back to.
THEOREM ImplementsContract == Spec => KeepsContract
  <1>1. NetworkInv /\ [Next]_vars =>
            [Contract!Edit \/ Contract!Roll \/ Contract!Report]_
                <<gen, FullyComposed, status.observed>>
    BY ContractNext
  <1>2. QED
    BY <1>1, ContractInit, NetworkInvariant, PTL
       DEF Spec, KeepsContract, Contract!Spec
===============================================================================
